----------------------------- MODULE XcdrViews -----------------------------
(***************************************************************************)
(* What deserialize and deserialize_key of idl/_main.py should make of a   *)
(* message, said on types and values without their encoding, and of which  *)
(* types.                                                                  *)
(***************************************************************************)
EXTENDS Xcdr

CONSTANTS
  Zero(_),             \* type -> the value of a member nobody sent
  View(_, _, _),       \* type written, type read, value written -> value read
  KeyView(_, _, _),    \* type, value, whether it is the whole sample -> its key
  Readable,            \* version -> pairs <<type written, type read>>
  Keyed                \* <<type, its other version, enabled>> of what keys are made of

---------------------------------------------------------------------------
(* What a reader should see *)

MemberNamed(t, name) == CHOOSE x \in ToSet(t.members) : x.name = name
Names(t) == {x.name : x \in ToSet(t.members)}

ZeroValue(t) ==
  CASE t.k \in {"prim", "char"} -> 0
    [] t.k = "enum" -> t.default
    [] t.k \in {"string", "bytes", "list", "seq", "map", "bitmask"} -> <<>>
    [] t.k = "opt" -> None
    [] t.k = "array" -> [i \in 1 .. t.len |-> Zero(t.of)]
    [] t.k = "struct" -> [name \in Names(t) |-> Zero(MemberNamed(t, name).type)]
    [] t.k = "union" -> [d |-> t.defaultDisc, v |-> IF t.default = None THEN None ELSE Zero(t.default)]

Same(w, x) == {y \in ToSet(w.members) : y.id = x.id}
\* A member of the reader's struct, from the writer's one.
MemberView(w, x, v) ==
  LET y == CHOOSE y \in Same(w, x) : TRUE
  IN  IF Same(w, x) = {} THEN Zero(x.type) ELSE View(y.type, x.type, v[y.name])

UnionView(w, r, v) ==
  CASE v.d \in DOMAIN w.cases -> View(w.cases[v.d], r.cases[v.d], v.v)
    [] v.d \notin DOMAIN w.cases /\ w.default # None -> View(w.default, r.default, v.v)
    [] OTHER -> None

\* v, written as type w, seen as type r: members go by their ids, and what the
\* writer lacks is zero.
ViewOf(w, r, v) ==
  CASE w.k \in {"list", "seq", "array"} -> [i \in DOMAIN v |-> View(w.of, r.of, v[i])]
    [] w.k = "map" -> [i \in DOMAIN v |-> <<View(w.key, r.key, v[i][1]), View(w.val, r.val, v[i][2])>>]
    [] w.k = "opt" -> IF v = None THEN None ELSE View(w.of, r.of, v)
    [] w.k = "union" -> [d |-> LabelOf(w, v), v |-> UnionView(w, r, v)]
    [] w.k = "struct" -> [name \in Names(r) |-> MemberView(w, MemberNamed(r, name), v)]
    [] OTHER -> v

\* The part of v that identifies the instance, the rest zero.
KeyViewOf(t, v, top) ==
  CASE t.k \in {"list", "seq", "array"} -> [i \in DOMAIN v |-> KeyView(t.of, v[i], FALSE)]
    [] t.k = "struct" ->
         [name \in Names(t) |->
            LET x == MemberNamed(t, name)
                isKey == name \in t.keys \/ (t.keys = {} /\ ~top)
            IN  IF isKey THEN KeyView(x.type, v[name], FALSE) ELSE Zero(x.type)]
    [] OTHER -> View(t, t, v)

\* What these operators stand for.
ViewRecursion ==
  /\ \A t : Zero(t) = ZeroValue(t)
  /\ \A w, r, v : View(w, r, v) = ViewOf(w, r, v)
  /\ \A t, v, top : KeyView(t, v, top) = KeyViewOf(t, v, top)

---------------------------------------------------------------------------
(* Which versions of a type meet *)

\* The reader lacks a member that was sent and that it must understand.
Misses(w, r, v) ==
  w.k = "struct" /\ w.ext = "mutable" /\
  \E x \in ToSet(w.members) :
    /\ x.mu /\ \A y \in ToSet(r.members) : y.id # x.id
    /\ ~(x.type.k = "opt" /\ v[x.name] = None)

\* A mutable struct is read by ids and has the reader's keys.  In XCDR2 one
\* version of an appendable struct may have more members than another, at the end.
AlikeStructs(w, r, version) ==
  /\ w.ext = r.ext
  /\ w.ext = "mutable" =>
       \A y \in ToSet(r.members) : y.name \in r.keys =>
         \E x \in ToSet(w.members) : x.id = y.id /\ x.type.k # "opt"
  /\ w.ext # "mutable" =>
       /\ \A i \in DOMAIN w.members \cap DOMAIN r.members : w.members[i].id = r.members[i].id
       /\ w.ext = "final" \/ version = 1 => Len(w.members) = Len(r.members)

Alike(w, r, version) ==
  /\ w.k = r.k
  /\ w.k = "prim" => w.size = r.size
  /\ w.k \in {"enum", "bitmask"} => w.bits = r.bits
  /\ w.k = "array" => w.len = r.len
  /\ w.k = "struct" => AlikeStructs(w, r, version)
  /\ w.k = "union" =>
       /\ w.ext = r.ext /\ w.defaultDisc = r.defaultDisc
       /\ DOMAIN w.cases = DOMAIN r.cases /\ (w.default = None <=> r.default = None)

\* What the parts of w are read as, when w is read as r.
PartsReadAs(w, r) ==
  CASE w.k \in {"opt", "list", "seq", "array"} -> {<<w.of, r.of>>}
    [] w.k = "map" -> {<<w.key, r.key>>, <<w.val, r.val>>}
    [] w.k = "struct" -> {<<p[1].type, p[2].type>> :
                            p \in {q \in ToSet(w.members) \X ToSet(r.members) : q[1].id = q[2].id}}
    [] w.k = "union" -> {<<w.disc, r.disc>>} \cup {<<w.cases[label], r.cases[label]>> : label \in DOMAIN w.cases}
                        \cup (IF w.default = None THEN {} ELSE {<<w.default, r.default>>})
    [] OTHER -> {}

\* Nothing that must be understood is missed further in.
Understood(w, r) == \A v \in ValuesOf[w] : ~Misses(w, r, v)

---------------------------------------------------------------------------
(* Which versions of a type have the same keys *)

Marks(members) == {<<x.id, x.mu>> : x \in members}

\* The same members are in the key, of a struct that is no mutable one in the
\* same places.
SameKey(w, r, enabled) ==
  /\ w.k = "string" => w.bound = r.bound
  /\ w.k = "seq" => w.max = r.max
  /\ w.k = "struct" =>
       /\ Marks(KeyMembers(w, enabled)) = Marks(KeyMembers(r, enabled))
       /\ w.ext # "mutable" =>
            {i \in DOMAIN w.members : w.members[i] \in KeyMembers(w, enabled)}
              = {i \in DOMAIN r.members : r.members[i] \in KeyMembers(r, enabled)}

\* What their keys are made of.
PartsInKey(w, r, enabled) ==
  CASE w.k \in {"list", "seq", "array"} -> {<<w.of, r.of, enabled>>}
    [] w.k = "map" -> {<<w.key, r.key, enabled>>, <<w.val, r.val, enabled>>}
    [] w.k = "struct" ->
         {<<InMember(w, p[1]), InMember(r, p[2]), "InKeylistOrKeyless">> :
            p \in {q \in KeyMembers(w, enabled) \X KeyMembers(r, enabled) : q[1].id = q[2].id}}
    [] w.k = "union" ->
         LET inside == IF w.ext = "appendable" THEN "InKeylist" ELSE "Never"
         IN  {<<w.disc, r.disc, IF w.ext = "appendable" THEN "InKeylist" ELSE enabled>>}
             \cup {<<w.cases[label], r.cases[label], inside>> : label \in DOMAIN w.cases}
             \cup (IF w.default = None THEN {} ELSE {<<w.default, r.default, inside>>})
    [] OTHER -> {}

ASSUME KeyedAssumption ==
  /\ \A w, r \in Types : <<w, r>> \in Evolved => <<Desc[w], Desc[r], "InKeylist">> \in Keyed
  /\ \A q \in Keyed : /\ <<q[1], q[2]>> \in Readable[2] /\ SameKey(q[1], q[2], q[3])
                       /\ PartsInKey(q[1], q[2], q[3]) \subseteq Keyed

ASSUME EndiansAssumption == Endians \subseteq {"Little", "Big"}

ASSUME ReadableAssumption == \A version \in Versions :
  /\ \A w, r \in Types : Assignable(w, r, version) => <<Desc[w], Desc[r]>> \in Readable[version]
  /\ \A p \in Readable[version] :
       /\ p \in Descs \X Descs /\ Alike(p[1], p[2], version)
       /\ \A q \in PartsReadAs(p[1], p[2]) : q \in Readable[version] /\ Understood(q[1], q[2])

\* None is the machine of no type, and only an optional value is seen as None.
ASSUME NoneAssumption ==
  /\ \A t \in Descs, v2 \in BOOLEAN : MachineFor(t, None, v2, v2) # None
  /\ \A version \in Versions : \A p \in Readable[version] : p[1].k # "opt" =>
       \A v \in ValuesOf[p[1]] : View(p[1], p[2], v) # None

\* A union that may gain cases, read with a label it knows nothing of, gets its
\* default label: such labels are left out.
ASSUME LabelsAssumption == \A t \in Descs : t.k = "union" /\ t.ext = "appendable" /\ t.default = None =>
  \A u \in ValuesOf[t] : LabelOf(t, u) \in DOMAIN t.cases \cup {t.defaultDisc}

---------------------------------------------------------------------------
\* A sample read with the writer's type, or with a version of it that has more,
\* fewer or reordered members, gives the members both know the values that were
\* written and the others their defaults; the reader ends where the bytes end.
\* Only a reader that lacks a member it must understand refuses the sample.
SampleReadBack ==
  seen # None /\ wire.kind = "DataSample" =>
    IF Misses(Desc[wire.type], Desc[seen.type], wire.value) THEN seen.error = "MustUnderstand" ELSE
    /\ seen.error = "none"
    /\ seen.value = View(Desc[wire.type], Desc[seen.type], wire.value)
    /\ seen.end = wire.bytes.length

\* What deserialize_key makes of a key has the key's members, and no others.
KeyReadBack ==
  seen # None /\ wire.kind = "KeyDefinitionOrder" =>
    /\ seen.error = "none"
    /\ seen.value = KeyView(Desc[wire.type], wire.value, TRUE)
    /\ seen.end = wire.bytes.length

\* Two versions of a type give the same normalized key for the same instance,
\* whatever else the versions have and in whatever order they list it; or the same
\* error.
NormalizedKeyIsCommon ==
  wire # None /\ wire.kind = "KeyNormalized" /\ wire.version = 2 =>
    \A r \in {t \in Types : <<wire.type, t>> \in Evolved} :
      LET v == View(Desc[wire.type], Desc[r], wire.value)
          b == SerializeInto(NewBuffer, r, 2, "Little", "KeyNormalized", FALSE, v)
      IN  b.error = wire.error /\ (wire.error = "none" => AsBytes(b) = wire.bytes)
=============================================================================
