---------------------------- MODULE TypeExchange ----------------------------
(***************************************************************************)
(* A program publishes its types, and fetches one of them back by its      *)
(* identifier: fill_type_data of idl/_main.py builds the type information, *)
(* get_types_for_typeid of dynamic.py gathers the type objects and makes   *)
(* classes from them, which are published in turn.  The type library of    *)
(* the network, which answers look-ups with the complete type objects of   *)
(* every published type, or not in time, is outside the repository.        *)
(***************************************************************************)
EXTENDS XtInterpreter

CONSTANTS
  Programs,     \* records: the classes "env", what is published "pubs", and the type fetched "top"
  Orders        \* the orders a set of names is read in

VARIABLES
  program,
  env,          \* class -> declaration
  db,           \* XTBuilder._type_hash_db
  published,    \* class -> its type information and type mapping
  status,       \* of get_types_for_typeid
  toResolve,    \* the identifiers to look up, last in first out
  typemap,      \* identifier -> type object
  main          \* the class made of them

vars == <<program, env, db, published, status, toResolve, typemap, main>>
fetching == <<status, toResolve, typemap, main>>

Statuses == {"idle", "fetching", "failed", "refused", "done"}
Published == DOMAIN published

\* What the network can answer for.
Library == UNION {published[c].mapping["complete"] : c \in Published}
Goal == published[program.top].info["complete"].id

Init ==
  /\ program \in Programs
  /\ env = program.env
  /\ db = <<>>
  /\ published = <<>>
  /\ status = "idle"
  /\ toResolve = <<>>
  /\ typemap = <<>>
  /\ main = NoType

\* No machine can be made for a member that is still a promise.
RECURSIVE Usable(_)
Usable(t) ==
  CASE t.k \in {"any", "deferred"} -> FALSE
    [] t.k \in {"seq", "array", "opt", "case", "default"} -> Usable(t.of)
    [] OTHER -> TRUE
Populates(c) ==
  \A d \in ToSet(GatherFrom(env, <<c>>, <<c>>)) : env[d].k \in {"struct", "union"} =>
    \A i \in DOMAIN env[d].members : Usable(env[d].members[i].type)

\* IDL.fill_type_data; the C layer hands the mapping to the network when a topic
\* of the type is made.
FillTypeData(c, order) ==
  /\ c \in program.pubs \/ main = Class(c)
  /\ c \notin Published
  /\ Populates(c)
  /\ LET r == ProcessType(env, db, c, order)
     IN  /\ db' = r.db
         /\ published' = (c :> [info |-> r.info, mapping |-> r.mapping]) @@ published
  /\ UNCHANGED <<program, env, fetching>>

StartFetch ==
  /\ status = "idle"
  /\ program.top \in Published
  /\ status' = "fetching"
  /\ toResolve' = <<Goal>>
  /\ UNCHANGED <<program, env, db, published, typemap, main>>

\* Mutant of DropKnown: the loop goes on before it takes the identifier off.
KeepKnown ==
  /\ Last(toResolve) \in DOMAIN typemap
  /\ UNCHANGED <<toResolve, typemap>>
DropKnown ==
  /\ Last(toResolve) \in DOMAIN typemap
  /\ toResolve' = Front(toResolve)
  /\ UNCHANGED typemap

\* Mutant of LookUp: the map holds an object under the identifier before it.
LookUpUnderFirst ==
  /\ Last(toResolve) \notin DOMAIN typemap
  /\ \E pair \in Library :
       /\ pair[1] = Last(toResolve)
       /\ toResolve' = Front(toResolve) \o FindAllTypeids(pair[2])
       /\ typemap' = (Goal :> pair[2]) @@ (pair[1] :> pair[2]) @@ typemap
LookUp ==
  /\ Last(toResolve) \notin DOMAIN typemap
  /\ \E pair \in Library :
       /\ pair[1] = Last(toResolve)
       /\ toResolve' = Front(toResolve) \o FindAllTypeids(pair[2])
       /\ typemap' = (pair[1] :> pair[2]) @@ typemap

FetchNext ==
  /\ status = "fetching"
  /\ toResolve # <<>>
  /\ DropKnown \/ LookUp
  /\ UNCHANGED <<program, env, db, published, status, main>>

\* Nobody answers, or nobody in time.
LookUpFails ==
  /\ status = "fetching"
  /\ toResolve # <<>>
  /\ Last(toResolve) \notin DOMAIN typemap
  /\ status' = "failed"
  /\ UNCHANGED <<program, env, db, published, toResolve, typemap, main>>

Rebuild ==
  /\ status = "fetching"
  /\ toResolve = <<>>
  /\ LET made == XtToClass(env, 1, Goal, typemap)
     IN  /\ status' = IF made.s.failed THEN "refused" ELSE "done"
         /\ main' = IF made.s.failed THEN NoType ELSE made.t
         /\ env' = IF made.s.failed THEN env ELSE made.s.env
  /\ UNCHANGED <<program, db, published, toResolve, typemap>>

Next ==
  \/ \E c \in DOMAIN env, order \in Orders : FillTypeData(c, order)
  \/ StartFetch
  \/ FetchNext
  \/ LookUpFails
  \/ Rebuild

\* The loop of get_types_for_typeid runs on: a look-up ends by its timeout.
Spec == Init /\ [][Next]_vars /\ WF_vars(FetchNext \/ LookUpFails)

---------------------------------------------------------------------------
(* The graph of a program's classes *)
Reach(e, c) == ToSet(GatherFrom(e, <<c>>, <<c>>))
\* The classes below a class, itself only when it is part of a cycle.
Below(e, c) == UNION {Reach(e, d) : d \in ToSet(DependsOn(e, c))}
Component(e, c) == {d \in Below(e, c) : c \in Below(e, d)}
Recursive(e, c) == c \in Below(e, c)

\* The recursive classes below a class are met once only: along one path of
\* components, and below no other published class.
OneWay(e, c) ==
  \A d \in Reach(e, c) : Recursive(e, d) =>
    /\ \A p \in Published \ {c} : d \notin Reach(e, p)
    /\ \A x \in Reach(e, c) : d \in Below(e, x) =>
         \A y, z \in Reach(e, c) :
           /\ y \notin Component(e, x) /\ x \in ToSet(DependsOn(e, y))
           /\ z \notin Component(e, x) /\ x \in ToSet(DependsOn(e, z))
           => y = z \/ z \in Component(e, y)

\* A member is optional or plain; the interpreter cannot go back for more than one
\* per class, nor for one inside a sequence.
OneBack(e, c) ==
  \A d \in Reach(e, c) : Recursive(e, d) =>
    /\ e[d].k = "struct"
    /\ e[d].base = None \/ e[d].base \notin Component(e, d)
    /\ \E i \in DOMAIN e[d].members :
         /\ DeepClass(e[d].members[i].type) \in Component(e, d)
         /\ e[d].members[i].type.k \in {"opt", "class"}
         /\ \A j \in DOMAIN e[d].members \ {i} : DeepClass(e[d].members[j].type) \notin Component(e, d)

---------------------------------------------------------------------------
(* Properties *)

\* Every published type is in the cache under the identifier it was published with
\* last, and every object the fetch holds is the one the network has for it.
TypeOK ==
  /\ status \in Statuses
  /\ \A c \in Published : \A k \in Kinds : \E o \in {db[c][k]} : o.id.kind = k
  /\ \A id \in DOMAIN typemap : <<id, typemap[id]>> \in Library
  /\ main.k = "class" => main.c \in DOMAIN env

\* kosaraju: two classes are in one component just when each can be reached from
\* the other, and the class on top is in component 0.
ComponentsAreStrong ==
  published = <<>> => \A top \in program.pubs, order \in Orders :
    LET nodes == GatherTypes(env, top).nodes
        comp == Kosaraju(Adjacency(env, nodes, order))
    IN  /\ nodes # <<>> => comp.id[1] = 0
        /\ \A i, j \in DOMAIN nodes :
             comp.id[i] = comp.id[j] <=> i = j \/ nodes[j] \in Component(env, nodes[i])

\* A type, published or used by a published type, has the identifier it would have
\* if it were published by a process that builds nothing else, in whatever order
\* sets of names are read: otherwise two processes that use it would not match.
SameIdEverywhere ==
  \A c \in Published : OneWay(env, c) => \A d \in Reach(env, c), k \in Kinds :
    db[d][k].id = ProcessType(env, <<>>, d, "up").info[k].id

\* Every identifier that a type object mentions, at any depth.
RECURSIVE Mentions(_)
Mentions(id) ==
  CASE id.k \in {"hash", "scc"} -> {id}
    [] id.k \in {"seq", "array"} -> Mentions(id.of)
    [] OTHER -> {}
MentionedBy(obj) ==
  UNION {Mentions(id) :
           id \in CASE obj.k = "struct" -> {obj.base} \cup {m.type : m \in ToSet(obj.members)}
                    [] obj.k = "union" -> {obj.disc.type} \cup {m.type : m \in ToSet(obj.members)}
                    [] obj.k = "alias" -> {obj.of}
                    [] OTHER -> {}}

\* The mapping of a published type holds every type object that one of its type
\* objects mentions: otherwise nobody who meets the type can build it.
MappingClosed ==
  \A c \in Published : OneWay(env, c) => \A k \in Kinds :
    \A pair \in published[c].mapping[k] :
      MentionedBy(pair[2]) \subseteq {other[1] : other \in published[c].mapping[k]}

\* The keys of a class, those of its bases included.
RECURSIVE Keys(_, _)
Keys(e, c) ==
  {m.name : m \in {x \in ToSet(e[c].members) : "key" \in x.flags}}
    \cup (IF e[c].base = None \/ ~e[c].inherits THEN {} ELSE Keys(e, e[c].base))

\* A class made from the type objects of a class is as good as that class: it has
\* the same identifiers and the same key.
RebuiltIsEquivalent ==
  main.k = "class" /\ main.c \in Published /\ OneWay(env, program.top) /\ OneBack(env, program.top) =>
    /\ \A k \in Kinds : published[main.c].info[k].id = published[program.top].info[k].id
    /\ env[main.c].k = "struct" => Keys(env, main.c) = Keys(env, program.top)

\* Types that are met one way are never refused.
NeverRefused ==
  status = "refused" => ~(OneWay(env, program.top) /\ OneBack(env, program.top))

Fetch == INSTANCE TypeFetch WITH
  library <- [id \in {pair[1] : pair \in Library} |->
                UNION {MentionedBy(pair[2]) : pair \in {p \in Library : p[1] = id}}],
  status <- IF status \in {"done", "refused"} THEN "done" ELSE status,
  goal <- IF status = "idle" THEN {} ELSE {Goal},
  wanted <- ToSet(toResolve),
  known <- DOMAIN typemap
\* get_types_for_typeid gathers type objects as TypeFetch promises.
FetchRefines == Fetch!Spec

\* The loop of get_types_for_typeid ends, for recursive types too: it fails or has
\* nothing left to look up.
FetchEnds == status = "fetching" ~> status # "fetching" \/ toResolve = <<>>
=============================================================================
