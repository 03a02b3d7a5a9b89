--------------------------- MODULE XtInterpreter ---------------------------
(***************************************************************************)
(* XTInterpreter and XTTypeIdScanner of idl/_xt_builder.py: Python classes *)
(* made from complete type objects, with the metaclasses of idl/_main.py   *)
(* that check them.  A class is <<n, name>>; n counts the times classes    *)
(* were made from type objects and is 0 for the classes of the program.    *)
(* Type objects of collections and maps are left out: the builder makes    *)
(* none.  The fallible calls mark the state as failed, which is the        *)
(* exception.                                                              *)
(***************************************************************************)
EXTENDS XtBuilder

CONSTANT Keywords     \* the names Python reserves, as far as IDL uses them

\* XTParseState: what is resolved, what is being made, who waits for it.
ParseState(env, n, tmap) ==
  [env |-> env, n |-> n, tmap |-> tmap, resolved |-> <<>>, reentrant |-> {},
   waiting |-> <<>>, callbacks |-> <<>>, next |-> 1, failed |-> FALSE]

Made(t, s) == [t |-> t, s |-> s]
Fail(s) == Made(NoType, [s EXCEPT !.failed = TRUE])
Escaped(name) == "_" \o name
PythonName(name) == IF name \in Keywords THEN Escaped(name) ELSE name

---------------------------------------------------------------------------
(* Unions and bitmasks are checked as their class is made. *)

EnumValues(env, disc) == {l[2] : l \in ToSet(env[disc.c].literals)}
Unused(used) == CHOOSE n \in 0 .. Cardinality(used) : n \notin used /\ 0 .. (n - 1) \subseteq used

\* _union_default_finder; None when no value is free.
DefaultLabel(env, disc, used) ==
  CASE disc.k = "class" -> Unused(EnumValues(env, disc))
    [] disc.p = "bool" -> IF TRUE \notin used THEN TRUE ELSE IF FALSE \notin used THEN FALSE ELSE None
    [] disc.p \in {"int", "int8", "int16", "int32", "int64"} -> -1 - Unused({-1 - v : v \in used})
    [] OTHER -> Unused(used)

Labels(members) == FlattenSeq([i \in DOMAIN members |->
                     IF members[i].type.k = "case" THEN members[i].type.labels ELSE <<>>])
\* No member hides an attribute of the union, the labels differ, one default at
\* most, and a label is left for no case.
UnionAllowed(env, c) ==
  /\ \A i \in DOMAIN c.members : c.members[i].name \notin {"value", "discriminator"}
  /\ IsInjective(Labels(c.members))
  /\ Cardinality({i \in DOMAIN c.members : c.members[i].type.k = "default"}) <= 1
  /\ DefaultLabel(env, c.disc, ToSet(Labels(c.members))) # None

\* The bound is still 32 when the positions are checked.
BitmaskAllowed(positions) ==
  /\ \A i \in DOMAIN positions : positions[i][2] \in 0 .. 31
  /\ \A i, j \in DOMAIN positions : positions[i][2] = positions[j][2] => i = j

---------------------------------------------------------------------------
(* Types by identifier *)
RECURSIVE FromTypeid(_, _)

\* A type that is still being made is handed out as a promise.
Defer(s, id) ==
  Made([k |-> "deferred", d |-> s.next],
       [s EXCEPT !.next = @ + 1, !.waiting[id] = Append(@, s.next)])

SequenceOf(id, made) ==
  Made([k |-> "seq", max |-> IF id.bound = 0 THEN None ELSE id.bound, of |-> made.t], made.s)
ArrayOf(id, made) ==
  Made(FoldRight(LAMBDA n, inner : [k |-> "array", len |-> n, of |-> inner], id.bounds, made.t), made.s)

---------------------------------------------------------------------------
(* _resolve_reentrant *)
Member(env, c, name) == CHOOSE i \in DOMAIN env[c].members : env[c].members[i].name = name
\* Mutant of SetMember: the optional mark is lost.
SetMemberPlain(made, cb) ==
  [made.s EXCEPT !.env[cb.c].members[Member(made.s.env, cb.c, cb.name)].type = made.t]
SetMember(made, cb) ==
  [made.s EXCEPT !.env[cb.c].members[Member(made.s.env, cb.c, cb.name)].type =
     IF cb.opt THEN [k |-> "opt", of |-> made.t] ELSE made.t]
RunCallback(s, d) ==
  IF d \in DOMAIN s.callbacks THEN SetMember(FromTypeid(s, s.callbacks[d].id), s.callbacks[d]) ELSE s

ResolveReentrant(s, id, t) ==
  Made(t, [FoldLeft(RunCallback,
                    [s EXCEPT !.reentrant = @ \ {id}, !.resolved = (id :> t) @@ @],
                    s.waiting[id])
             EXCEPT !.waiting = [i \in DOMAIN @ \ {id} |-> @[i]]])

---------------------------------------------------------------------------
(* _make_complete_struct *)
FlagsKept(m) == m.flags \cap {"must_understand", "key", "external"}
\* Nothing is known of a deferred member yet.
MemberType(t, m) ==
  IF t.k = "deferred" THEN [k |-> "any"]
  ELSE IF "optional" \in m.flags THEN [k |-> "opt", of |-> t] ELSE t
Deferral(t, m, name) ==
  IF t.k = "deferred"
  THEN <<[d |-> t.d, name |-> name, id |-> m.type, opt |-> "optional" \in m.flags]>> ELSE <<>>

\* A derived class writes its ids in the dictionary of its base.
NoteId(s, base, name, id) ==
  IF base.k = "none" THEN s ELSE [s EXCEPT !.env[s.env[base.c].idsIn].ids = (name :> id) @@ @]

AddStructMember(r, base, m, made, name) ==
  [s |-> NoteId(made.s, base, name, m.id), ids |-> (name :> m.id) @@ r.ids,
   members |-> Append(r.members, [name |-> name, real |-> m.name, id |-> None,
                                  type |-> MemberType(made.t, m), flags |-> FlagsKept(m)]),
   defers |-> r.defers \o Deferral(made.t, m, name)]
StructMembers(base, obj) ==
  FoldLeft(LAMBDA r, m : AddStructMember(r, base.t, m, FromTypeid(r.s, m.type), PythonName(m.name)),
           [s |-> base.s, members |-> <<>>, ids |-> <<>>, defers |-> <<>>], obj.members)

\* The callbacks share the variables of the loop that makes them, so all of them
\* set the member the loop ended with.
OnlyLastDeferral(c, defers) ==
  [d \in {defers[i].d : i \in DOMAIN defers} |-> [c |-> c] @@ Last(defers)]

\* Own annotations replace those of the base.
Annotated(members) == \E i \in DOMAIN members : members[i].flags # {} \/ members[i].name # members[i].real

MakeIdlStruct(s, id, obj, base, c, r) ==
  ResolveReentrant(
    [s EXCEPT !.env = (c :> ([k |-> "struct", name |-> obj.name, base |-> IF base.k = "none" THEN None ELSE base.c,
                              members |-> r.members, inherits |-> ~Annotated(r.members),
                              idsIn |-> IF base.k = "none" THEN c ELSE s.env[base.c].idsIn,
                              ids |-> r.ids] @@ obj.flags)) @@ @,
              !.callbacks = OnlyLastDeferral(c, r.defers) @@ @],
    id, Class(c))
\* A base that is still being made has no ids to share.
StructFrom(id, obj, base, r) ==
  IF base.t.k = "deferred" \/ r.s.failed THEN Fail(r.s)
  ELSE MakeIdlStruct(r.s, id, obj, base.t, <<r.s.n, obj.name>>, r)
MakeCompleteStruct(id, obj, base) ==
  IF base.t.k = "deferred" THEN Fail(base.s)
  ELSE StructFrom(id, obj, base, StructMembers(base, obj))

---------------------------------------------------------------------------
(* _make_complete_union *)
\* Mutant of UnionName: only the names Python reserves are escaped.
UnionNameAsStruct(name) == PythonName(name)
UnionName(name) == IF name \in {"value", "discriminator"} THEN Escaped(name) ELSE PythonName(name)
Case(m, t) ==
  IF "default" \in m.flags \/ m.labels = <<>> THEN [k |-> "default", of |-> t]
  ELSE [k |-> "case", labels |-> m.labels, of |-> t]

\* A deferred member reads member_type_id, which a union member does not have.
AddUnionMember(r, m, made, name) ==
  [s |-> IF made.t.k = "deferred" THEN Fail(made.s).s ELSE made.s,
   ids |-> (name :> m.id) @@ r.ids,
   members |-> Append(r.members, [name |-> name, real |-> m.name, id |-> None, type |-> Case(m, made.t),
                                  flags |-> FlagsKept(m) \ {"key"}])]
UnionMembers(disc, obj) ==
  FoldLeft(LAMBDA r, m : AddUnionMember(r, m, FromTypeid(r.s, m.type), UnionName(m.name)),
           [s |-> disc.s, members |-> <<>>, ids |-> <<>>], obj.members)

UnionDecl(c, obj, disc, r) ==
  [k |-> "union", name |-> obj.name, disc |-> disc, discKey |-> obj.disc.key,
   members |-> r.members, inherits |-> FALSE, idsIn |-> c, ids |-> r.ids] @@ obj.flags
MakeIdlUnion(s, id, c, decl) ==
  IF s.failed \/ ~UnionAllowed(s.env, decl) THEN Fail(s)
  ELSE ResolveReentrant([s EXCEPT !.env = (c :> decl) @@ @], id, Class(c))
UnionFrom(id, obj, disc, r) ==
  MakeIdlUnion(r.s, id, <<r.s.n, obj.name>>, UnionDecl(<<r.s.n, obj.name>>, obj, disc.t, r))
MakeCompleteUnion(id, obj, disc) == UnionFrom(id, obj, disc, UnionMembers(disc, obj))

---------------------------------------------------------------------------
(* Bitmasks, enums and aliases *)
New(s, id, c, decl) == ResolveReentrant([s EXCEPT !.env = (c :> decl) @@ @], id, Class(c))

MakeCompleteBitmask(s, id, obj) ==
  IF ~BitmaskAllowed(obj.bitflags) THEN Fail(s)
  ELSE New(s, id, <<s.n, obj.name>>,
           [k |-> "bitmask", name |-> obj.name, bits |-> obj.bits, positions |-> obj.bitflags] @@ obj.flags)

\* make_idl_enum drops the default, so it is the first value, and nobody hands it
\* the bit bound.
MakeCompleteEnum(s, id, obj) ==
  New(s, id, <<s.n, obj.name>>,
      [k |-> "enum", name |-> obj.name, bits |-> 32, literals |-> obj.literals,
       default |-> obj.literals[1][2]] @@ obj.flags)

\* An alias of a promise is the promise; the alias stays unfinished.
MakeCompleteAlias(id, obj, inner) ==
  IF inner.t.k = "deferred" THEN inner
  ELSE New(inner.s, id, <<inner.s.n, obj.name>>, [k |-> "typedef", name |-> obj.name, of |-> inner.t])

---------------------------------------------------------------------------
MakeComplete(s, id, obj) ==
  CASE obj.k = "struct" -> MakeCompleteStruct(id, obj, FromTypeid(s, obj.base))
    [] obj.k = "union" -> MakeCompleteUnion(id, obj, FromTypeid(s, obj.disc.type))
    [] obj.k = "bitmask" -> MakeCompleteBitmask(s, id, obj)
    [] obj.k = "enum" -> MakeCompleteEnum(s, id, obj)
    [] obj.k = "alias" -> MakeCompleteAlias(id, obj, FromTypeid(s, obj.of))

FromTypeobject(s, id) ==
  CASE id \in DOMAIN s.resolved -> Made(s.resolved[id], s)
    [] id \in s.reentrant -> Defer(s, id)
    [] OTHER -> MakeComplete([s EXCEPT !.reentrant = @ \cup {id}, !.waiting = (id :> <<>>) @@ @],
                             id, s.tmap[id])

FromTypeid(s, id) ==
  CASE s.failed -> Made(NoType, s)
    [] id.k = "none" -> Made(NoType, s)
    [] id.k = "prim" -> Made([k |-> "prim", p |-> id.p], s)
    [] id.k = "string" -> Made([k |-> "string", bound |-> IF id.bound = 0 THEN None ELSE id.bound], s)
    [] id.k = "seq" -> SequenceOf(id, FromTypeid(s, id.of))
    [] id.k = "array" -> ArrayOf(id, FromTypeid(s, id.of))
    [] OTHER -> FromTypeobject(s, id)

XtToClass(env, n, id, tmap) == FromTypeid(ParseState(env, n, tmap), id)

---------------------------------------------------------------------------
(* XTTypeIdScanner *)
RECURSIVE ScanTypeId(_)
ScanTypeId(id) ==
  CASE id.k \in {"none", "prim", "string"} -> <<>>
    [] id.k \in {"seq", "array"} -> ScanTypeId(id.of)
    [] OTHER -> <<id>>

ScanMembers(obj) == FlattenSeq([i \in DOMAIN obj.members |-> ScanTypeId(obj.members[i].type)])
\* Mutant of FindAllTypeids: the discriminator is not scanned.
FindMemberTypeids(obj) ==
  CASE obj.k = "struct" -> (IF obj.base.k = "none" THEN <<>> ELSE <<obj.base>>) \o ScanMembers(obj)
    [] obj.k = "union" -> ScanMembers(obj)
    [] obj.k = "alias" -> ScanTypeId(obj.of)
    [] OTHER -> <<>>
FindAllTypeids(obj) ==
  CASE obj.k = "struct" -> (IF obj.base.k = "none" THEN <<>> ELSE <<obj.base>>) \o ScanMembers(obj)
    [] obj.k = "union" -> ScanTypeId(obj.disc.type) \o ScanMembers(obj)
    [] obj.k = "alias" -> ScanTypeId(obj.of)
    [] OTHER -> <<>>
=============================================================================
