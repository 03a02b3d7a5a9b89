----------------------------- MODULE XtBuilder -----------------------------
(***************************************************************************)
(* XTBuilder of idl/_xt_builder.py: type objects, type identifiers, type   *)
(* information and type mappings of Python classes.  An environment gives  *)
(* the declaration of each class; a type is a record with its kind "k".    *)
(* An identifier that holds a hash is the hashed value itself: md5 is      *)
(* taken to be injective.  "db" is the cache XTBuilder._type_hash_db.      *)
(* Maps, which the code refuses, and aliases inside a recursion are left   *)
(* out.                                                                    *)
(***************************************************************************)
EXTENDS Integers, Sequences, SequencesExt, FiniteSets, TLC

CONSTANTS
  None,
  NameOrder,      \* every type name, in lexicographic order
  NameHash        \* member name -> member id by hash

Kinds == {"minimal", "complete"}
Place(name) == CHOOSE i \in DOMAIN NameOrder : NameOrder[i] = name
Class(c) == [k |-> "class", c |-> c]
NoType == [k |-> "none"]

Distinct(s) == FoldLeft(LAMBDA r, x : IF x \in ToSet(r) THEN r ELSE Append(r, x), <<>>, s)

---------------------------------------------------------------------------
(* Members and dependencies *)

\* The members of a class, those of its bases first.
RECURSIVE Hints(_, _)
Hints(env, c) ==
  CASE env[c].k = "typedef" -> <<[name |-> "_", type |-> env[c].of]>>
    [] env[c].k = "struct" /\ env[c].base # None -> Hints(env, env[c].base) \o env[c].members
    [] OTHER -> env[c].members

\* Member ids: given, by hash, or one more than the one before.
NextId(c, m, next) ==
  IF m.id # None THEN m.id ELSE IF c.autoid = "hash" THEN NameHash[m.name] ELSE next
CountedIds(env, c) ==
  FoldLeft(LAMBDA r, m : [ids |-> (m.name :> NextId(env[c], m, r.next)) @@ r.ids,
                          next |-> NextId(env[c], m, r.next) + 1],
           [ids |-> <<>>, next |-> 0], Hints(env, c)).ids

\* A class made from a type object is given its ids, in a dictionary it may
\* share with its base.
MemberIds(env, c) ==
  IF env[c].idsIn = None THEN CountedIds(env, c) ELSE env[env[c].idsIn].ids

RECURSIVE DeepClass(_)
DeepClass(t) ==
  CASE t.k = "class" -> t.c
    [] t.k \in {"seq", "array", "opt", "case", "default"} -> DeepClass(t.of)
    [] OTHER -> None

DependsOn(env, c) ==
  LET members == [i \in DOMAIN Hints(env, c) |-> DeepClass(Hints(env, c)[i].type)]
      first == CASE env[c].k = "union" -> <<DeepClass(env[c].disc)>>
                 [] env[c].k = "struct" -> <<env[c].base>>
                 [] OTHER -> <<>>
  IN  IF env[c].k \in {"enum", "bitmask"} THEN <<>>
      ELSE Distinct(SelectSeq(first \o members, LAMBDA d : d # None))

\* Every class below the one on top, in the order of a last in, first out scan.
RECURSIVE GatherFrom(_, _, _)
GatherFrom(env, toscan, nodes) ==
  IF toscan = <<>> THEN nodes
  ELSE LET new == SelectSeq(DependsOn(env, Last(toscan)), LAMBDA d : d \notin ToSet(nodes))
       IN  GatherFrom(env, Front(toscan) \o new, nodes \o new)

GatherTypes(env, top) ==
  LET all == GatherFrom(env, <<top>>, <<top>>)
  IN  [noDeps |-> SelectSeq(all, LAMBDA c : DependsOn(env, c) = <<>>),
       nodes |-> SelectSeq(all, LAMBDA c : DependsOn(env, c) # <<>>)]

\* The edges as numbers.  They come out of a set of strings, whose order
\* differs from one interpreter to the next.
Adjacency(env, nodes, order) ==
  [i \in DOMAIN nodes |->
     LET next == {j \in DOMAIN nodes : nodes[j] \in ToSet(DependsOn(env, nodes[i]))}
     IN  SetToSortSeq(next, LAMBDA a, b : IF order = "up" THEN a < b ELSE a > b)]

---------------------------------------------------------------------------
(* kosaraju *)
RECURSIVE Visit(_, _, _)
Visit(graph, s, u) ==
  IF u \in s.visited THEN s
  ELSE LET below(r, v) == [Visit(graph, r, v) EXCEPT !.reverse[v] = Append(@, u)]
       IN  [FoldLeft(below, [s EXCEPT !.visited = @ \cup {u}], graph[u])
              EXCEPT !.L = Append(@, u)]

RECURSIVE Assign(_, _, _, _)
Assign(reverse, roots, u, root) ==
  IF roots[u] # 0 THEN roots
  ELSE FoldLeft(LAMBDA r, v : Assign(reverse, r, v, root), [roots EXCEPT ![u] = root], reverse[u])

\* Mutant of Roots: the second pass follows the edges forward.
RootsForward(graph) ==
  LET nodes == [i \in DOMAIN graph |-> i]
      start == [visited |-> {}, L |-> <<>>, reverse |-> [i \in DOMAIN graph |-> <<>>]]
      s == FoldLeft(LAMBDA r, u : Visit(graph, r, u), start, nodes)
  IN  FoldLeft(LAMBDA r, u : Assign(graph, r, u, u), [i \in DOMAIN graph |-> 0], Reverse(s.L))
Roots(graph) ==
  LET nodes == [i \in DOMAIN graph |-> i]
      start == [visited |-> {}, L |-> <<>>, reverse |-> [i \in DOMAIN graph |-> <<>>]]
      s == FoldLeft(LAMBDA r, u : Visit(graph, r, u), start, nodes)
  IN  FoldLeft(LAMBDA r, u : Assign(s.reverse, r, u, u), [i \in DOMAIN graph |-> 0], Reverse(s.L))

\* Components are numbered in the order of their roots, from 0.
Numbered(graph, roots) ==
  LET id == [i \in DOMAIN graph |-> Cardinality({r \in ToSet(roots) : r < roots[i]})]
  IN  [id |-> id,
       next |-> [k \in ToSet(id) |->
                   {id[j] : j \in UNION {ToSet(graph[i]) : i \in {n \in DOMAIN graph : id[n] = k}}} \ {k}]]
Kosaraju(graph) == Numbered(graph, Roots(graph))

---------------------------------------------------------------------------
(* Type identifiers *)
RECURSIVE FullyDescriptive(_)
FullyDescriptive(t) ==
  \/ t.k \in {"prim", "string"}
  \/ t.k \in {"seq", "array", "opt"} /\ FullyDescriptive(t.of)

HashId(kind, obj) == [k |-> "hash", kind |-> kind, of |-> obj]
Zeros == <<>>

\* A strongly connected component: its classes by name, and its hash, zero
\* while the hash is computed.
SccId(scc, kind, index) ==
  [k |-> "scc", kind |-> kind, of |-> scc.hash[kind], length |-> Len(scc.classes), index |-> index]

\* What is in the cache comes before the component that is being hashed.
ResolveTypehash(db, scc, c, kind) ==
  IF c \in DOMAIN db THEN db[c][kind].id
  ELSE SccId(scc, kind, CHOOSE i \in DOMAIN scc.classes : scc.classes[i] = c)

TypeKind(p) == CASE p = "int" -> "int64" [] p = "float" -> "float64" [] OTHER -> p

RECURSIVE Bounds(_)
Bounds(t) == IF t.k = "array" THEN <<t.len>> \o Bounds(t.of) ELSE <<>>
RECURSIVE Element(_)
Element(t) == IF t.k = "array" THEN Element(t.of) ELSE t

EquivKind(t, kind) == IF FullyDescriptive(t) THEN "both" ELSE kind

RECURSIVE TypeIdentifier(_, _, _, _)
TypeIdentifier(db, scc, t, kind) ==
  CASE t.k = "none" -> NoType
    [] t.k = "opt" -> TypeIdentifier(db, scc, t.of, kind)
    [] t.k = "prim" -> [k |-> "prim", p |-> TypeKind(t.p)]
    [] t.k = "string" -> [k |-> "string", bound |-> IF t.bound = None THEN 0 ELSE t.bound]
    [] t.k = "seq" -> [k |-> "seq", equiv |-> EquivKind(t, kind),
                       bound |-> IF t.max = None THEN 0 ELSE t.max,
                       of |-> TypeIdentifier(db, scc, t.of, kind)]
    [] t.k = "array" -> [k |-> "array", equiv |-> EquivKind(t, kind), bounds |-> Bounds(t),
                         of |-> TypeIdentifier(db, scc, Element(t), kind)]
    [] t.k = "class" -> ResolveTypehash(db, scc, t.c, kind)

---------------------------------------------------------------------------
(* Type objects *)
TypeFlag(c) == [ext |-> c.ext, nested |-> c.nested, autoid |-> c.autoid]
TypeDetail(c, kind) == IF kind = "complete" THEN c.name ELSE None
\* The minimal object has a hash of the Python name, the complete one the name
\* of the IDL.
MemberDetail(m, kind) == IF kind = "complete" THEN m.real ELSE m.name

MemberFlag(m) ==
  m.flags \cup (IF m.type.k = "opt" THEN {"optional"} ELSE {})
          \cup (IF m.type.k = "default" THEN {"default"} ELSE {})

StructMember(env, db, scc, c, m, kind) ==
  [id |-> MemberIds(env, c)[m.name], flags |-> MemberFlag(m),
   type |-> TypeIdentifier(db, scc, m.type, kind), name |-> MemberDetail(m, kind)]

\* Members of the base are not listed again.
StructType(env, db, scc, c, kind) ==
  [k |-> "struct", flags |-> TypeFlag(env[c]), name |-> TypeDetail(env[c], kind),
   base |-> TypeIdentifier(db, scc, IF env[c].base = None THEN NoType ELSE Class(env[c].base), kind),
   members |-> [i \in DOMAIN env[c].members |->
                  StructMember(env, db, scc, c, env[c].members[i], kind)]]

Discriminator(db, scc, c, kind) ==
  [key |-> c.discKey, type |-> TypeIdentifier(db, scc, c.disc, kind)]

UnionMember(env, db, scc, c, m, kind) ==
  [id |-> MemberIds(env, c)[m.name], flags |-> MemberFlag(m),
   type |-> TypeIdentifier(db, scc, m.type.of, kind),
   labels |-> IF m.type.k = "case" THEN m.type.labels ELSE <<>>, name |-> MemberDetail(m, kind)]

UnionType(env, db, scc, c, kind) ==
  [k |-> "union", flags |-> TypeFlag(env[c]), name |-> TypeDetail(env[c], kind),
   disc |-> Discriminator(db, scc, env[c], kind),
   members |-> [i \in DOMAIN env[c].members |->
                  UnionMember(env, db, scc, c, env[c].members[i], kind)]]

BySecond(s) == SortSeq(s, LAMBDA a, b : a[2] < b[2])
\* Literals <<name, value>> and whether one is the default.
EnumType(c, kind) ==
  [k |-> "enum", flags |-> TypeFlag(c), name |-> TypeDetail(c, kind), bits |-> c.bits,
   literals |-> BySecond(c.literals), default |-> {x[1] : x \in {y \in ToSet(c.literals) : y[2] = c.default}}]
BitmaskType(c, kind) ==
  [k |-> "bitmask", flags |-> TypeFlag(c), name |-> TypeDetail(c, kind), bits |-> c.bits,
   bitflags |-> BySecond(c.positions)]

AliasType(db, scc, c, kind) ==
  [k |-> "alias", name |-> TypeDetail(c, kind), of |-> TypeIdentifier(db, scc, c.of, kind)]

TypeObject(env, db, scc, c, kind) ==
  CASE env[c].k = "struct" -> StructType(env, db, scc, c, kind)
    [] env[c].k = "union" -> UnionType(env, db, scc, c, kind)
    [] env[c].k = "enum" -> EnumType(env[c], kind)
    [] env[c].k = "bitmask" -> BitmaskType(env[c], kind)
    [] env[c].k = "typedef" -> AliasType(db, scc, env[c], kind)

TypeHash(env, db, c) ==
  [kind \in Kinds |->
     LET obj == TypeObject(env, db, None, c, kind) IN [id |-> HashId(kind, obj), obj |-> obj]]
\* The cache with the class in it.
Resolved(env, db, c) == IF c \in DOMAIN db THEN db ELSE (c :> TypeHash(env, db, c)) @@ db

---------------------------------------------------------------------------
(* Components *)

\* Mutant of SccObjects: the classes keep the order they were found in.
SccByDiscovery(classes) == classes
SccOrder(classes) == SortSeq(classes, LAMBDA a, b : Place(a[2]) < Place(b[2]))

SccObjects(env, db, scc) ==
  [kind \in Kinds |-> [i \in DOMAIN scc.classes |-> TypeObject(env, db, scc, scc.classes[i], kind)]]

\* The hash is taken with zeros in the place of the component's own hash, which
\* is then filled in.
HashComponent(env, db, classes) ==
  LET zero == [classes |-> SccOrder(classes), hash |-> [kind \in Kinds |-> Zeros]]
  IN  [zero EXCEPT !.hash = SccObjects(env, db, zero)]

SccEntry(objects, scc, i) ==
  [kind \in Kinds |-> [id |-> SccId(scc, kind, i), obj |-> objects[kind][i]]]
StoreComponent(db, objects, scc) ==
  [c \in ToSet(scc.classes) |->
     SccEntry(objects, scc, CHOOSE i \in DOMAIN scc.classes : scc.classes[i] = c)] @@ db

Identified(cls, entry) == [cls |-> cls, id |-> [kind \in Kinds |-> entry[kind].id]]
\* Index 0 stands for the component as a whole.
WholeComponent(scc) == [cls |-> None, id |-> [kind \in Kinds |-> SccId(scc, kind, 0)]]

AddScc(env, r, scc) ==
  [db |-> StoreComponent(r.db, SccObjects(env, r.db, scc), scc),
   ids |-> Append(r.ids, WholeComponent(scc))]
AddSingle(env, r, c) ==
  [db |-> Resolved(env, r.db, c), ids |-> Append(r.ids, Identified(c, Resolved(env, r.db, c)[c]))]

Members(g, k) == SelectSeq(g.nodes, LAMBDA c : \E i \in DOMAIN g.nodes : g.nodes[i] = c /\ g.comp.id[i] = k)
SelfReference(env, c) == c \in ToSet(DependsOn(env, c))

AddComponent(env, r, classes) ==
  IF Len(classes) = 1 /\ ~SelfReference(env, classes[1]) THEN AddSingle(env, r, classes[1])
  ELSE AddScc(env, r, HashComponent(env, r.db, classes))

\* A component comes after the components it depends on, once for each way to it.
RECURSIVE HandleComponent(_, _, _, _)
HandleComponent(env, g, r, k) ==
  AddComponent(env,
    FoldLeft(LAMBDA q, below : HandleComponent(env, g, q, below), r, SetToSortSeq(g.comp.next[k], <)),
    Members(g, k))

---------------------------------------------------------------------------
(* process_type *)

\* The information holds the identifiers of the type and of what it depends on;
\* the mapping holds the objects of all.
Information(entry, dependents, kind) ==
  [id |-> entry[kind].id,
   deps |-> LET ids == [i \in DOMAIN dependents |-> dependents[i].id[kind]]
            IN  IF kind = "minimal" THEN Distinct(ids) ELSE ids]
Result(db, top, dependents, all) ==
  [db |-> db,
   info |-> [kind \in Kinds |-> Information(db[top], dependents, kind)],
   mapping |-> [kind \in Kinds |-> {<<db[c][kind].id, db[c][kind].obj>> : c \in ToSet(all)}]]

\* Mutant of FullList: types that depend on no other are left out.
OnlyDependent(g) == g.nodes
FullList(g) == g.nodes \o g.noDeps

WithComponents(env, g, db, top) ==
  LET r == HandleComponent(env, g, [db |-> db, ids |-> <<>>], 0)
      noDeps == [i \in DOMAIN g.noDeps |-> Identified(g.noDeps[i], db[g.noDeps[i]])]
      others == SelectSeq(r.ids, LAMBDA d : d.cls # top)
  IN  Result(r.db, top, noDeps \o others, FullList(g))

WithGraph(env, gathered, db, top, order) ==
  IF gathered.nodes = <<>> THEN Result(db, top, <<>>, <<top>>)
  ELSE WithComponents(env, gathered @@ [comp |-> Kosaraju(Adjacency(env, gathered.nodes, order))], db, top)

ProcessType(env, db, top, order) ==
  LET g == GatherTypes(env, top)
  IN  WithGraph(env, g, FoldLeft(LAMBDA d, c : Resolved(env, d, c), db, g.noDeps), top, order)
=============================================================================
