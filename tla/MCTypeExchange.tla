--------------------------- MODULE MCTypeExchange ---------------------------
(* Every graph on three structures, and types with one of everything. *)
EXTENDS TypeExchange

MCOrders == {"up", "down"}
MCNameOrder == <<"A", "B", "C", "Choice", "Colour", "Flags", "Point", "Base", "List">>
MCKeywords == {"from"}
MCNameHash == [n \in {"x", "y", "_from", "_value", "c", "m", "list"} |->
                 CASE n = "x" -> 90 [] n = "y" -> 20 [] n = "_from" -> 70 [] n = "_value" -> 60
                   [] n = "c" -> 50 [] n = "m" -> 40 [] n = "list" -> 30]

C(name) == <<0, name>>
Opt(t) == [k |-> "opt", of |-> t]
Seq1(t, max) == [k |-> "seq", max |-> max, of |-> t]
Array(t, len) == [k |-> "array", len |-> len, of |-> t]
Prim(p) == [k |-> "prim", p |-> p]
Str(bound) == [k |-> "string", bound |-> bound]
CaseOf(labels, t) == [k |-> "case", labels |-> labels, of |-> t]
DefaultOf(t) == [k |-> "default", of |-> t]

M(name, type, flags) == [name |-> name, real |-> name, id |-> None, type |-> type, flags |-> flags]
Named(m, real) == [m EXCEPT !.real = real]
Numbered1(m, id) == [m EXCEPT !.id = id]
Flags(ext) == [ext |-> ext, nested |-> FALSE, autoid |-> "sequential"]
Class1 == [base |-> None, idsIn |-> None, ids |-> <<>>, inherits |-> TRUE]
Struct(name, members, ext) == [k |-> "struct", name |-> name, members |-> members] @@ Class1 @@ Flags(ext)
Derived(s, base) == [s EXCEPT !.base = base]
Hashed(s) == [s EXCEPT !.autoid = "hash"]
Union(name, disc, key, members) ==
  [k |-> "union", name |-> name, disc |-> disc, discKey |-> key, members |-> members] @@ Class1 @@ Flags("appendable")

Colour == [k |-> "enum", name |-> "Colour", bits |-> 32, default |-> 1,
           literals |-> <<<<"red", 1>>, <<"green", 3>>>>] @@ Flags("final")
FlagsMask == [k |-> "bitmask", name |-> "Flags", bits |-> 8,
              positions |-> <<<<"q", 4>>, <<"p", 1>>>>] @@ Flags("final")
Point == Struct("Point", <<M("x", Prim("float"), {}), M("y", Prim("int"), {})>>, "final")
Base == Struct("Base", <<M("y", Prim("int32"), {"key"}), M("_from", Str(8), {})>>, "mutable")
Base2 == [Base EXCEPT !.members[2].real = "from"]
List == [k |-> "typedef", name |-> "List", of |-> Seq1(Class(C("Point")), 4)]

\* A union on an enumeration, with a member the rebuilt class must rename.
Choice ==
  Union("Choice", Class(C("Colour")), TRUE,
        <<M("x", CaseOf(<<1>>, Array(Array(Prim("uint8"), 3), 2)), {}),
          Named(M("_value", CaseOf(<<3>>, Class(C("Point"))), {"external"}), "value"),
          M("c", DefaultOf(Prim("bool")), {})>>)
Signed ==
  Union("Choice", Prim("int"), FALSE,
        <<M("x", CaseOf(<<-1, 2>>, Prim("float")), {}), M("y", CaseOf(<<0>>, Class(C("Colour"))), {})>>)

Program(classes, pubs, top) == [env |-> classes, pubs |-> pubs, top |-> top]

Nodes == {"A", "B", "C"}
Graph(edges) ==
  [c \in {C(n) : n \in Nodes} |->
     LET to == SetToSortSeq({n \in Nodes : <<c[2], n>> \in edges}, LAMBDA a, b : Place(a) < Place(b))
     IN  Struct(c[2], [i \in DOMAIN to |-> M(to[i], Opt(Class(C(to[i]))), {})], "appendable")]
Edges == {e \in SUBSET (Nodes \X Nodes) : Cardinality(e) \in (0 .. 4) \cup {9}}
Graphs == {Program(Graph(edges), {C("A"), C("B")}, C("A")) : edges \in Edges}

\* A derived class with a key in its base, a union, a bitmask and an alias.
Everything ==
  Program(C("Colour") :> Colour @@ C("Flags") :> FlagsMask @@ C("Point") :> Point @@ C("Choice") :> Choice
            @@ C("Base") :> Base2 @@ C("List") :> List
            @@ C("A") :> Derived(Hashed(Struct("A", <<M("c", Class(C("Choice")), {}), M("m", Class(C("Flags")), {}),
                                                     M("list", Class(C("List")), {}), M("x", Opt(Str(None)), {})>>,
                                              "mutable")), C("Base")),
          {C("A"), C("Choice"), C("Base")}, C("A"))
\* Member ids given by hand, must_understand, a union on an integer at the top.
UnionOnTop ==
  Program(C("Colour") :> Colour @@ C("Choice") :> Signed, {C("Choice"), C("Colour")}, C("Choice"))
Numbers ==
  Program(C("Point") :> Point
            @@ C("B") :> Struct("B", <<Numbered1(M("x", Seq1(Class(C("Point")), None), {}), 7),
                                       M("y", Class(C("Point")), {"must_understand"})>>, "mutable"),
          {C("B"), C("Point")}, C("B"))
EnumOnTop == Program(C("Colour") :> Colour, {C("Colour")}, C("Colour"))

MCPrograms == Graphs \cup {Everything, UnionOnTop, Numbers, EnumOnTop}
=============================================================================
