------------------------------ MODULE MCXcdr ------------------------------
(* A universe of types for Xcdr: every kind of member, in structs of each     *)
(* extensibility, and pairs of versions of one type.                          *)
EXTENDS XcdrViews, FiniteSets, TLC

\* The recursion of the machines, as Recursion has it.  (The LETs keep TLC's
\* coverage from unfolding it without end.)
RECURSIVE MCMachineFor(_, _, _, _)
MCMachineFor(t, id, header, v2) == LET m == BuiltMachine(t, id, header, v2) IN m
RECURSIVE MCDefaultOf(_)
MCDefaultOf(m) == LET v == DefaultValue(m) IN v
RECURSIVE MCSerialize(_, _, _, _, _)
\* (Here TLC computes the buffer before it goes in, which keeps its stack short.)
MCSerialize(m, b, v, kind, enabled) ==
  LET after == Serialized(m, b, v, kind, enabled) IN IF b.pos \in Nat THEN after ELSE after
RECURSIVE MCDeserialize(_, _, _, _)
MCDeserialize(m, b, kind, enabled) == LET r == Deserialized(m, b, kind, enabled) IN r
RECURSIVE MCMutableMembers(_, _, _, _, _, _)
MCMutableMembers(m, b, data, kind, enabled, end) ==
  LET r == RestOfMutable(m, b, data, kind, enabled, end) IN r
\* That of the views, as ViewRecursion has it.
RECURSIVE MCZero(_)
MCZero(t) == LET v == ZeroValue(t) IN v
RECURSIVE MCView(_, _, _)
MCView(w, r, v) == LET x == ViewOf(w, r, v) IN x
RECURSIVE MCKeyView(_, _, _)
MCKeyView(t, v, top) == LET x == KeyViewOf(t, v, top) IN x

Prim(size) == [k |-> "prim", size |-> size]
Char == [k |-> "char"]
Str(bound) == [k |-> "string", bound |-> bound]
Bytes == [k |-> "bytes"]
Enum(bits) == [k |-> "enum", bits |-> bits, default |-> 5]
BitMask(bits) == [k |-> "bitmask", bits |-> bits]
Opt(t) == [k |-> "opt", of |-> t]
List(t) == [k |-> "list", of |-> t]
Seq_(t, max) == [k |-> "seq", of |-> t, max |-> max]
Array(t, len) == [k |-> "array", of |-> t, len |-> len]
Map(key, val) == [k |-> "map", key |-> key, val |-> val]
Member(name, id, type) == [name |-> name, id |-> id, type |-> type, mu |-> FALSE]
Must(name, id, type) == [name |-> name, id |-> id, type |-> type, mu |-> TRUE]
Struct(ext, keys, members) == [k |-> "struct", ext |-> ext, keys |-> keys, members |-> members]
Union(ext, disc, cases, default) ==
  [k |-> "union", ext |-> ext, disc |-> disc, cases |-> cases, default |-> default, defaultDisc |-> 0]

\* A small struct to put into others.
Inner(ext, keys) == Struct(ext, keys, <<Member("p", 0, Prim(1)), Member("q", 1, Prim(8))>>)
Choice(ext, default) == Union(ext, Prim(2), (1 :> Array(Prim(8), 1)) @@ (2 :> Str(None)), default)

\* Three members of each kind: the middle one after a byte, before a wide number.
Around(ext, t) == Struct(ext, {"a"}, <<Member("a", 4, Prim(1)), Member("b", 2, t), Member("c", 3, Prim(8))>>)

Kinds ==
  ("str" :> Str(2)) @@ ("bytes" :> Bytes) @@ ("enum8" :> Enum(8)) @@ ("enum" :> Enum(None))
  @@ ("enum12" :> Enum(12))
  @@ ("mask" :> BitMask(12)) @@ ("char" :> Char)
  @@ ("opt8" :> Opt(Prim(8))) @@ ("optstr" :> Opt(Str(None))) @@ ("optin" :> Opt(Inner("mutable", {})))
  @@ ("seq1" :> Seq_(Prim(1), None)) @@ ("seq2" :> Seq_(Prim(2), None)) @@ ("seq4" :> Seq_(Prim(4), 2))
  @@ ("seq8" :> Seq_(Prim(8), None)) @@ ("seqchar" :> Seq_(Char, None)) @@ ("seqstr" :> Seq_(Str(None), 2))
  @@ ("seqapp" :> Seq_(Inner("appendable", {}), None)) @@ ("list8" :> List(Prim(8)))
  @@ ("arr2" :> Array(Prim(2), 3)) @@ ("arrchar" :> Array(Char, 2))
  @@ ("arrapp" :> Array(Inner("appendable", {}), 2)) @@ ("arrarr" :> Array(Array(Inner("mutable", {}), 1), 2))
  @@ ("arrseq" :> Array(Seq_(Enum(8), None), 2)) @@ ("map" :> Map(Prim(1), Prim(8)))
  @@ ("union" :> Choice("final", None)) @@ ("union+" :> Choice("final", Array(Prim(4), 1)))
  @@ ("uniona+" :> Choice("appendable", Array(Prim(4), 1)))
  @@ ("final" :> Inner("final", {"q"})) @@ ("app" :> Inner("appendable", {"q"}))
  @@ ("mut" :> Inner("mutable", {"q"}))

KeyKind == {"str", "enum8", "arr2", "seqapp", "final", "app", "mut"}
Exts == {"final", "appendable", "mutable"}

\* Versions of one type: v1 and v2 for appendable, m1 to m3 for mutable.
A1 == Struct("appendable", {"a"}, <<Member("a", 0, Prim(4)), Member("s", 1, Seq_(Inner("appendable", {}), None))>>)
InnerPlus == Struct("appendable", {}, Inner("appendable", {}).members \o <<Member("r", 2, Str(None))>>)
A2 == Struct("appendable", {"a"}, <<Member("a", 0, Prim(4)), Member("s", 1, Seq_(InnerPlus, None)),
                                   Member("o", 2, Opt(Prim(8))), Member("e", 3, Enum(8))>>)
M1 == Struct("mutable", {"k", "l"}, <<Member("k", 7, Prim(2)), Member("x", 1, Seq_(Prim(8), None)), Member("l", 3, Str(None))>>)
M2 == Struct("mutable", {"k", "l"}, <<Member("l", 3, Str(None)), Member("k", 7, Prim(2)), Must("x", 1, Seq_(Prim(8), None))>>)
M3 == Struct("mutable", {"k", "l"}, <<Member("y", 9, Opt(Prim(8))), Member("l", 3, Str(None)), Member("z", 8, List(Prim(2))), Member("k", 7, Prim(2))>>)

MCTypes == {<<"around", e, x>> : e \in Exts, x \in DOMAIN Kinds}
  \cup {<<"key", e, x>> : e \in Exts, x \in KeyKind}
  \cup {<<"key", e, "opt8">> : e \in {"final", "appendable"}}
  \cup {<<"version", v>> : v \in {"A1", "A2", "M1", "M2", "M3"}}

MCDesc == [n \in MCTypes |->
  CASE n[1] = "around" -> Around(n[2], Kinds[n[3]])
    [] n[1] = "key" -> [Around(n[2], Kinds[n[3]]) EXCEPT !.keys = {"a", "b"}]
    [] OTHER -> CASE n[2] = "A1" -> A1 [] n[2] = "A2" -> A2 [] n[2] = "M1" -> M1
                  [] n[2] = "M2" -> M2 [] n[2] = "M3" -> M3]

MCEvolved == {<<t, t>> : t \in DOMAIN MCDesc}
  \cup {<<<<"version", p[1]>>, <<"version", p[2]>>>> :
          p \in {<<"A1", "A2">>, <<"A2", "A1">>, <<"M1", "M2">>, <<"M2", "M1">>,
                 <<"M1", "M3">>, <<"M3", "M1">>, <<"M3", "M2">>, <<"M2", "M3">>}}

\* Values: empty, short and full; every number differs from its neighbours.
RECURSIVE Values(_)
Values(t) ==
  CASE t.k = "prim" -> {t.size + 1}
    [] t.k = "char" -> {7}
    [] t.k = "bitmask" -> {<<3>>}
    [] t.k = "enum" -> IF t.bits = 12 THEN {5, 300} ELSE {5, 6}
    [] t.k = "string" -> {<<>>, <<1, 2>>}
    [] t.k = "bytes" -> {<<>>, <<1, 0, 1>>}
    [] t.k = "opt" -> {None} \cup Values(t.of)
    [] t.k \in {"list", "seq"} -> {<<>>} \cup {<<x>> : x \in Values(t.of)} \cup {<<x, x>> : x \in Values(t.of)}
    [] t.k = "array" -> {[i \in 1 .. t.len |-> x] : x \in Values(t.of)}
    [] t.k = "map" -> {<<>>} \cup {<<<<x, y>>>> : x \in Values(t.key), y \in Values(t.val)}
                        \cup {<<<<x, y>>, <<1, 4>>>> : x \in Values(t.key), y \in Values(t.val)}
    [] t.k = "struct" ->
         FoldLeft(LAMBDA S, x : {(x.name :> y) @@ v : y \in Values(x.type), v \in S},
                  {<<>>}, t.members)
    [] t.k = "union" ->
         UNION {{[d |-> label, v |-> x] : x \in Values(t.cases[label])} : label \in DOMAIN t.cases}
           \cup (IF t.default = None THEN {[d |-> 9, v |-> None]}
                 ELSE {[d |-> label, v |-> x] : label \in {None, 9}, x \in Values(t.default)})

(* What the types are made of.                                              *)
RECURSIVE Within(_)
Within(t) == {t} \cup UNION {Within(x) : x \in Parts(t)}
RECURSIVE DepthOf(_)
DepthOf(t) == LET below == {DepthOf(x) : x \in Parts(t)}
              IN  IF below = {} THEN 0 ELSE 1 + CHOOSE d \in below : \A e \in below : e <= d

MCDescs == UNION {Within(MCDesc[n]) : n \in DOMAIN MCDesc}
MCDepth == [t \in MCDescs |-> DepthOf(t)]
MCValuesOf == [t \in MCDescs |-> IF t.k = "prim" THEN 0 .. 20 ELSE Values(t)]

\* What is read as what, whole types and their parts.
RECURSIVE ReadWithin(_, _)
ReadWithin(w, r) == {<<w, r>>} \cup UNION {ReadWithin(p[1], p[2]) : p \in PartsReadAs(w, r)}
MCReadable == [version \in Versions |->
  UNION {ReadWithin(MCDesc[p[1]], MCDesc[p[2]]) : p \in {q \in MCEvolved : Assignable(q[1], q[2], version)}}]

RECURSIVE KeyedWithin(_, _, _)
KeyedWithin(w, r, enabled) ==
  {<<w, r, enabled>>} \cup UNION {KeyedWithin(q[1], q[2], q[3]) : q \in PartsInKey(w, r, enabled)}
MCKeyed == UNION {KeyedWithin(MCDesc[p[1]], MCDesc[p[2]], "InKeylist") : p \in MCEvolved}

RECURSIVE Encodes(_, _, _)
Encodes(t, e, v2) ==
  Writable(t, e, v2) /\ \A q \in PartsWritten(t, e, v2) : Encodes(q[1], q[2], v2)
MCEncodable == [version \in Versions |->
  {q \in MCDescs \X Extents : Encodes(q[1], q[2], version = 2)}]

MCSamples == [n \in DOMAIN MCDesc |-> Values(MCDesc[n])]

\* A buffer left behind by an encoding that failed inside an XCDR1 member.
LeftBehind == [NewBuffer EXCEPT !.pos = 21, !.size = 2 * InitialSize, !.offset = 18, !.endian = "Big",
                                !.cells = (6 :> [width |-> 8, unit |-> 8, endian |-> "Big", v |-> 1]),
                                !.error = "longer than bound"]
MCBuffers == {NewBuffer, LeftBehind}
=============================================================================
