--------------------------- MODULE XcdrMachines ---------------------------
(***************************************************************************)
(* The encoding machines of idl/_machinery.py, and the Builder of          *)
(* idl/_builder.py that makes one for a type.  A type is a record with its *)
(* kind "k"; a machine is a record with its class "m".  A struct has       *)
(* members <<[name, id, type, mu], ...>> and the set "keys" of key names.  *)
(* Machines are made of machines and call them: what calls itself that way *)
(* is a parameter, and Recursion says what it stands for.                  *)
(***************************************************************************)
EXTENDS XcdrBuffer, Sequences, SequencesExt

CONSTANTS
  None,                          \* Python's None
  MachineFor(_, _, _, _),        \* type, id, header, version 2 -> its machine
  DefaultOf(_),                  \* machine -> what its default_initialize gives
  Serialize(_, _, _, _, _),      \* machine, buffer, value, kind, enabled -> buffer
  Deserialize(_, _, _, _),       \* machine, buffer, kind, enabled -> buffer and value
  MutableMembers(_, _, _, _, _, _)   \* the rest of a mutable struct, read

KeyKinds == {"KeyDefinitionOrder", "KeyNormalized"}
ExtendedPid == 16129      \* PL_SHORT_PID_EXTENDED, 0x3f01
ListEnd == 16130          \* PL_SHORT_PID_LIST_END, 0x3f02

---------------------------------------------------------------------------
(* Building machines *)

\* int(log2(n)), where n is the bits of an enum or the bytes of a number.
MaxBits == 64
Log2(n) ==
  CASE n = 1 -> 0 [] n \in 2 .. 3 -> 1 [] n \in 4 .. 7 -> 2 [] n \in 8 .. 15 -> 3
    [] n \in 16 .. 31 -> 4 [] n \in 32 .. 63 -> 5 [] n = MaxBits -> 6

\* The holder of an enum: [uint8, uint16, uint32, uint64][int(log2(bound)) - 3],
\* where a negative index counts from the end.
EnumHolder(bits) == <<1, 2, 4, 8>>[((Log2(bits) - 3) % 4) + 1]
MaskHolder(bits) == CASE bits < 9 -> 1 [] bits \in 9 .. 16 -> 2
                      [] bits \in 17 .. 32 -> 4 [] OTHER -> 8

\* The arrays further in lost their headers when this one was made.
StripHeaders(m) == IF m.m = "Array" THEN [m EXCEPT !.header = FALSE] ELSE m
Innermost(m) == IF m.m = "Array" THEN m.inner ELSE m.m

\* How a member of a mutable struct announces its length in XCDR2.
LenType(m) ==
  CASE m.m \in {"Primitive", "BitBoundEnum", "BitMask"} -> Log2(m.size)
    [] m.m = "Char" -> 0
    [] m.m = "Enum" -> 2
    [] m.m = "PlainSequence" -> CASE m.size = 1 -> 5 [] m.size = 4 -> 6 [] m.size = 8 -> 7 [] OTHER -> 4
    [] m.m \in {"Sequence", "String"} -> 5
    [] m.m = "Array" -> IF m.header THEN 5 ELSE 4
    [] OTHER -> 4

MutableMember(member, v2) ==
  LET m == MachineFor(member.type, member.id, v2, v2)
      optional == m.m = "Optional"
      inner == IF optional THEN m.of ELSE m
  IN  [name |-> member.name, optional |-> optional, mu |-> member.mu, id |-> member.id,
       machine |-> inner, lentype |-> IF v2 THEN LenType(inner) ELSE 4]

PlainMember(member, v2) ==
  [name |-> member.name, machine |-> MachineFor(member.type, member.id, v2, v2)]

StructMachineFor(t, v2) ==
  IF t.ext = "mutable"
  THEN [m |-> "Mutable", v2 |-> v2, keys |-> t.keys,
        members |-> [i \in DOMAIN t.members |-> MutableMember(t.members[i], v2)]]
  ELSE [m |-> IF t.ext = "appendable" /\ v2 THEN "Delimited" ELSE "Struct", keys |-> t.keys,
        members |-> [i \in DOMAIN t.members |-> PlainMember(t.members[i], v2)]]

UnionMachineFor(t, v2) ==
  [m |-> IF t.ext = "appendable" /\ v2 THEN "DelimitedUnion" ELSE "Union",
   disc |-> MachineFor(t.disc, None, v2, v2),
   cases |-> [label \in DOMAIN t.cases |-> MachineFor(t.cases[label], None, v2, v2)],
   default |-> IF t.default = None THEN None ELSE MachineFor(t.default, None, v2, v2),
   defaultDisc |-> t.defaultDisc]

ArrayMachineFor(t, header, v2) ==
  LET sub == MachineFor(t.of, None, header, v2)
      plain == Innermost(sub) \in {"PlainArray", "Char"}
  IN  IF sub.m = "Primitive"
      THEN [m |-> "PlainArray", size |-> sub.size, len |-> t.len]
      ELSE [m |-> "Array", of |-> StripHeaders(sub), inner |-> Innermost(sub), len |-> t.len,
            header |-> header /\ ~plain]

SequenceMachineFor(t, header, v2) ==
  LET sub == MachineFor(t.of, None, header, v2)
  IN  IF sub.m = "Primitive"
      THEN [m |-> "PlainSequence", size |-> sub.size, max |-> t.max]
      ELSE [m |-> "Sequence", of |-> sub, max |-> t.max, header |-> header /\ sub.m # "Char"]

BuiltMachine(t, id, header, v2) ==
  CASE t.k = "prim" -> [m |-> "Primitive", size |-> t.size]
    [] t.k = "char" -> [m |-> "Char"]
    [] t.k = "string" -> [m |-> "String", bound |-> t.bound]
    [] t.k = "bytes" -> [m |-> "Bytes"]
    [] t.k = "enum" -> IF t.bits # None /\ v2
                       THEN [m |-> "BitBoundEnum", size |-> EnumHolder(t.bits), default |-> t.default]
                       ELSE [m |-> "Enum", default |-> t.default]
    [] t.k = "bitmask" -> [m |-> "BitMask", size |-> MaskHolder(t.bits)]
    [] t.k = "opt" -> [m |-> "Optional", of |-> MachineFor(t.of, None, header, v2), id |-> id, v2 |-> v2]
    [] t.k = "list" -> [m |-> "Sequence", of |-> MachineFor(t.of, None, header, v2),
                        max |-> None, header |-> header]
    [] t.k = "seq" -> SequenceMachineFor(t, header, v2)
    [] t.k = "array" -> ArrayMachineFor(t, header, v2)
    [] t.k = "map" -> [m |-> "Mapping", key |-> MachineFor(t.key, None, header, v2),
                       val |-> MachineFor(t.val, None, header, v2)]
    [] t.k = "struct" -> StructMachineFor(t, v2)
    [] t.k = "union" -> UnionMachineFor(t, v2)

---------------------------------------------------------------------------
(* default_initialize *)
DefaultStruct(m) ==
  [n \in {x.name : x \in ToSet(m.members)} |->
     DefaultOf((CHOOSE x \in ToSet(m.members) : x.name = n).machine)]
DefaultMutable(m) ==
  [n \in {x.name : x \in ToSet(m.members)} |->
     LET member == CHOOSE x \in ToSet(m.members) : x.name = n
     IN  IF member.optional THEN None ELSE DefaultOf(member.machine)]
DefaultUnion(m) ==
  [d |-> m.defaultDisc, v |-> IF m.default = None THEN None ELSE DefaultOf(m.default)]

DefaultValue(m) ==
  CASE m.m \in {"Primitive", "Char"} -> 0
    [] m.m \in {"Enum", "BitBoundEnum"} -> m.default
    [] m.m \in {"String", "Bytes", "Sequence", "PlainSequence", "Mapping", "BitMask"} -> <<>>
    [] m.m = "Array" -> [i \in 1 .. m.len |-> DefaultOf(m.of)]
    [] m.m = "PlainArray" -> [i \in 1 .. m.len |-> 0]
    [] m.m = "Optional" -> None
    [] m.m \in {"Struct", "Delimited"} -> DefaultStruct(m)
    [] m.m = "Mutable" -> DefaultMutable(m)
    [] m.m \in {"Union", "DelimitedUnion"} -> DefaultUnion(m)

\* Mutant of KeyEnabled: a struct without keys adds nothing to a key it is part of.
KeyEnabledListed(keys, name, enabled) ==
  IF enabled # "Never" /\ name \in keys THEN "InKeylistOrKeyless" ELSE "Never"

\* Which members a key holds: those of the key list, and inside a key member
\* all of a struct that has none.
KeyEnabled(keys, name, enabled) ==
  IF \/ enabled = "InKeylist" /\ name \in keys
     \/ enabled = "InKeylistOrKeyless" /\ (keys = {} \/ name \in keys)
  THEN "InKeylistOrKeyless" ELSE "Never"

---------------------------------------------------------------------------
(* serialize *)
WithinMax(m, b, v) == Check(b, m.max = None \/ Len(v) <= m.max, "longer than bound")
SumOf(s) == LET sum[i \in 0 .. Len(s)] == IF i = 0 THEN 0 ELSE sum[i - 1] + s[i] IN sum[Len(s)]
\* Mutant of Patch: the position stays behind the header.
PatchThere(b, pos, v) == Write(Seek(b, pos), 4, v)
\* Writes a size back to where its place was kept.
Patch(b, pos, v) == Seek(Write(Seek(b, pos), 4, v), b.pos)
SerializePrimitive(m, b, v) == Write(Align(b, m.size), m.size, v)
SerializeChar(b, v) == Write(b, 1, v)
SerializeEnum(b, v) == Write(Align(b, 4), 4, v)
SerializeBitBoundEnum(m, b, v) == Write(Align(b, m.size), m.size, v)

\* A bitmask object is <<mask>>.  Its machine's default is a plain number, here
\* <<>>, which has no as_mask().
SerializeBitMask(m, b, v) ==
  IF v = <<>> THEN Fail(b, "no as_mask") ELSE Write(Align(b, m.size), m.size, v[1])

Each(m, b, s, kind, enabled) ==
  LET after[i \in 0 .. Len(s)] ==
        IF i = 0 THEN b ELSE Serialize(m, after[i - 1], s[i], kind, enabled)
  IN  after[Len(s)]

\* The characters of a string are their widths in UTF-8; the bound counts characters.
SerializeString(m, b, v) ==
  LET fits == Check(b, m.bound = None \/ Len(v) <= m.bound, "longer than bound")
      sized == Write(Align(fits, 4), 4, SumOf(v) + 1)
  IN  Write(WriteBytes(sized, SumOf(v), v), 1, 0)

SerializeBytes(b, v) == WriteBytes(Write(Align(b, 4), 4, Len(v)), Len(v), v)

SerializeArray(m, b, v, kind, enabled) ==
  LET sized == Check(b, Len(v) = m.len, "assert")
      start == IF m.header THEN Write(Align(sized, 4), 4, 0) ELSE sized
      done == Each(m.of, start, v, kind, enabled)
  IN  IF m.header THEN Patch(done, start.pos - 4, done.pos - start.pos) ELSE done

SerializePlainArray(m, b, v) ==
  WriteMulti(Align(Check(b, Len(v) = m.len, "assert"), m.size), m.size * m.len, m.size, v)

SerializeSequence(m, b, v, kind, enabled) ==
  LET aligned == Align(WithinMax(m, b, v), 4)
      start == IF m.header THEN Write(aligned, 4, 0) ELSE aligned
      done == Each(m.of, Write(start, 4, Len(v)), v, kind, enabled)
  IN  IF m.header THEN Patch(done, start.pos - 4, done.pos - start.pos) ELSE done

SerializePlainSequence(m, b, v) ==
  LET counted == Write(Align(WithinMax(m, b, v), 4), 4, Len(v))
  IN  IF v = <<>> THEN counted ELSE WriteMulti(Align(counted, m.size), m.size * Len(v), m.size, v)

SerializeMapping(m, b, v, kind, enabled) ==
  LET after[i \in 0 .. Len(v)] ==
        IF i = 0 THEN Write(Align(b, 4), 4, Len(v))
        ELSE Serialize(m.val, Serialize(m.key, after[i - 1], v[i][1], kind, enabled),
                       v[i][2], kind, enabled)
  IN  after[Len(v)]

\* A key has no optional members, says the assertion in front.
SerializeOptional(m, b, v, kind) ==
  IF kind # "DataSample" THEN Fail(b, "AssertionError")
  ELSE IF m.v2
  THEN IF v = None THEN Write(b, 1, 0) ELSE Serialize(m.of, Write(b, 1, 1), v, kind, "Never")
  ELSE LET header == Write(Write(Write(Align(b, 4), 2, ExtendedPid), 2, 8), 4, m.id)
           start == Write(header, 4, 0)
           done == SetAlignOffset(
                     Serialize(m.of, SetAlignOffset(start, start.pos), v, kind, "Never"),
                     start.offset)
       IN  IF v = None THEN start ELSE Patch(done, header.pos, done.pos - start.pos)

\* The label that was set, or the one kept for the default case.
Label(m, u) == IF u.d = None THEN m.defaultDisc ELSE u.d

\* The contents of a union are written with no key members ("Never"), those of
\* an appendable one as at the top of a sample.
SerializeUnion(m, b, u, kind, enabled, inside) ==
  LET labelled == Serialize(m.disc, b, Label(m, u), kind, enabled)
  IN  CASE u.d \in DOMAIN m.cases -> Serialize(m.cases[u.d], labelled, u.v, kind, inside)
        [] u.d \notin DOMAIN m.cases /\ m.default # None ->
             Serialize(m.default, labelled, u.v, kind, inside)
        [] OTHER -> labelled

SerializeDelimitedUnion(m, b, u, kind) ==
  LET start == Write(Align(b, 4), 4, 0)
      done == SerializeUnion(m, start, u, kind, "InKeylist", "InKeylist")
  IN  Patch(done, start.pos - 4, done.pos - start.pos)

SerializeMember(m, b, member, v, kind, enabled) ==
  LET e == KeyEnabled(m.keys, member.name, enabled)
  IN  IF kind # "DataSample" /\ e = "Never" THEN b
      ELSE Serialize(member.machine, b, v[member.name], kind, e)

SerializeMembers(m, b, v, kind, enabled) ==
  LET after[i \in 0 .. Len(m.members)] ==
        IF i = 0 THEN b ELSE SerializeMember(m, after[i - 1], m.members[i], v, kind, enabled)
  IN  after[Len(m.members)]

SerializeDelimited(m, b, v, kind, enabled) ==
  LET start == Write(Align(b, 4), 4, 0)
      done == SerializeMembers(m, start, v, kind, enabled)
  IN  Patch(done, start.pos - 4, done.pos - start.pos)

\* Mutant of MemberHeader: no alignment before an XCDR2 header.
MemberHeaderUnaligned(m, b, member) ==
  IF m.v2 THEN Write(b, 4, [mu |-> member.mu, lc |-> member.lentype, id |-> member.id])
  ELSE Write(Write(Write(Align(b, 4), 2, ExtendedPid), 2, 8), 4, [mu |-> member.mu, id |-> member.id])

\* One member of a mutable struct, with its header and its length.
MemberHeader(m, b, member) ==
  IF m.v2 THEN Write(Align(b, 4), 4, [mu |-> member.mu, lc |-> member.lentype, id |-> member.id])
  ELSE Write(Write(Write(Align(b, 4), 2, ExtendedPid), 2, 8), 4, [mu |-> member.mu, id |-> member.id])

SerializeMutableMember(m, b, member, v, kind, enabled) ==
  LET header == MemberHeader(m, b, member)
      sized == IF member.lentype = 4 THEN Write(header, 4, 0) ELSE header
      origin == IF m.v2 THEN sized ELSE SetAlignOffset(sized, sized.pos)
      written == Serialize(member.machine, origin, v, kind, enabled)
      done == IF m.v2 THEN written ELSE Align(SetAlignOffset(written, sized.offset), 4)
  IN  IF member.lentype = 4 THEN Patch(done, header.pos, done.pos - header.pos - 4) ELSE done

\* Mutant of MemberOrder: a normalized key keeps the order of definition.
DefinitionOrder(m, kind) == m.members
ById(s) ==
  CHOOSE r \in [1 .. Len(s) -> ToSet(s)] : \A i, j \in 1 .. Len(s) : i < j => r[i].id < r[j].id
MemberOrder(m, kind) == IF kind = "KeyNormalized" THEN ById(m.members) ELSE m.members

MutableMemberOrNone(m, b, member, v, kind, enabled) ==
  LET e == KeyEnabled(m.keys, member.name, enabled)
  IN  IF \/ kind # "DataSample" /\ e = "Never"
         \/ member.optional /\ v[member.name] = None
      THEN b ELSE SerializeMutableMember(m, b, member, v[member.name], kind, e)

MutableMembersFrom(m, b, members, v, kind, enabled) ==
  LET after[i \in 0 .. Len(members)] ==
        IF i = 0 THEN b
        ELSE MutableMemberOrNone(m, after[i - 1], members[i], v, kind, enabled)
  IN  after[Len(members)]

SerializeMutable(m, b, v, kind, enabled) ==
  LET start == IF m.v2 THEN Write(Align(b, 4), 4, 0) ELSE b
      done == MutableMembersFrom(m, start, MemberOrder(m, kind), v, kind, enabled)
  IN  IF m.v2 THEN Patch(done, start.pos - 4, done.pos - start.pos)
      ELSE Write(Write(Align(done, 4), 2, ListEnd), 2, 0)

Serialized(m, b, v, kind, enabled) ==
  CASE m.m = "Primitive" -> SerializePrimitive(m, b, v)
    [] m.m = "Char" -> SerializeChar(b, v)
    [] m.m = "Enum" -> SerializeEnum(b, v)
    [] m.m = "BitBoundEnum" -> SerializeBitBoundEnum(m, b, v)
    [] m.m = "BitMask" -> SerializeBitMask(m, b, v)
    [] m.m = "String" -> SerializeString(m, b, v)
    [] m.m = "Bytes" -> SerializeBytes(b, v)
    [] m.m = "PlainArray" -> SerializePlainArray(m, b, v)
    [] m.m = "Array" -> SerializeArray(m, b, v, kind, enabled)
    [] m.m = "Sequence" -> SerializeSequence(m, b, v, kind, enabled)
    [] m.m = "PlainSequence" -> SerializePlainSequence(m, b, v)
    [] m.m = "Mapping" -> SerializeMapping(m, b, v, kind, enabled)
    [] m.m = "Optional" -> SerializeOptional(m, b, v, kind)
    [] m.m = "Union" -> SerializeUnion(m, b, v, kind, enabled, "Never")
    [] m.m = "DelimitedUnion" -> SerializeDelimitedUnion(m, b, v, kind)
    [] m.m = "Struct" -> SerializeMembers(m, b, v, kind, enabled)
    [] m.m = "Delimited" -> SerializeDelimited(m, b, v, kind, enabled)
    [] m.m = "Mutable" -> SerializeMutable(m, b, v, kind, enabled)

---------------------------------------------------------------------------
(* deserialize: the buffer behind the value, and the value *)
Number(b, n) == Read(Align(b, n), n)
Got(r, v) == [b |-> r.b, v |-> v]

DeserializePrimitive(m, b) == Number(b, m.size)
DeserializeChar(b) == Read(b, 1)
DeserializeEnum(b) == Number(b, 4)
DeserializeBitBoundEnum(m, b) == Number(b, m.size)
DeserializeBitMask(m, b) == LET n == Number(b, m.size) IN Got(n, <<n.v>>)

DeserializeString(b) ==
  LET n == Number(b, 4)
      chars == ReadBytes(n.b, n.v - 1)
  IN  [b |-> Read(chars.b, 1).b, v |-> chars.v]

DeserializeBytes(b) == LET n == Number(b, 4) IN ReadBytes(n.b, n.v)

\* How often a loop over range(n) goes round: not at all for a negative n.
Rounds(n) == IF n > 0 THEN n ELSE 0

\* One after the other into a sequence.
Collect(m, b, n, kind, enabled) ==
  LET read[i \in 0 .. Rounds(n)] ==
        IF i = 0 THEN [b |-> b, v |-> <<>>]
        ELSE LET x == Deserialize(m, read[i - 1].b, kind, enabled)
             IN  [b |-> x.b, v |-> Append(read[i - 1].v, x.v)]
  IN  read[Rounds(n)]

DeserializeArray(m, b, kind, enabled) ==
  LET n == Number(b, 4)
      r == Collect(m.of, IF m.header THEN n.b ELSE b, m.len, kind, enabled)
  IN  IF m.header /\ r.b.pos # n.b.pos + n.v THEN [r EXCEPT !.b = Fail(@, "assert")] ELSE r

DeserializePlainArray(m, b) == Read(Align(b, m.size), m.size * m.len)

DeserializeSequence(m, b, kind, enabled) ==
  LET aligned == Align(b, 4)
      n == Read(aligned, 4)
      count == IF m.header THEN Read(n.b, 4) ELSE n
      r == Collect(m.of, count.b, count.v, kind, enabled)
  IN  IF m.header THEN [r EXCEPT !.b = Seek(@, n.b.pos + n.v)] ELSE r

DeserializePlainSequence(m, b) ==
  LET n == Number(b, 4)
  IN  IF n.v = 0 THEN Got(n, <<>>) ELSE Read(Align(n.b, m.size), m.size * n.v)

DeserializeMapping(m, b, kind, enabled) ==
  LET n == Number(b, 4)
      read[i \in 0 .. Rounds(n.v)] ==
        IF i = 0 THEN Got(n, <<>>)
        ELSE LET key == Deserialize(m.key, read[i - 1].b, kind, enabled)
                 val == Deserialize(m.val, key.b, kind, enabled)
             IN  [b |-> val.b, v |-> Append(read[i - 1].v, <<key.v, val.v>>)]
  IN  read[Rounds(n.v)]

DeserializeOptional(m, b, kind) ==
  IF m.v2
  THEN LET there == Read(b, 1)
       IN  IF there.v = 1 THEN Deserialize(m.of, there.b, kind, "Never") ELSE Got(there, None)
  ELSE LET header == Read(Align(b, 4), 2)
           short == Read(header.b, 2)
           long == Read(Read(short.b, 4).b, 4)
           size == IF header.v = ExtendedPid THEN long ELSE short
           inner == SetAlignOffset(size.b, size.b.pos)
           r == Deserialize(m.of, inner, kind, "Never")
       IN  IF size.v = 0 THEN Got(size, None)
           ELSE [b |-> SetAlignOffset(r.b, size.b.offset), v |-> r.v]

DeserializeUnion(m, b, kind, enabled) ==
  LET label == Deserialize(m.disc, b, kind, enabled)
      content == IF label.v \in DOMAIN m.cases THEN m.cases[label.v] ELSE m.default
      r == Deserialize(content, label.b, kind, "Never")
  IN  IF content = None THEN Got(label, [d |-> label.v, v |-> None])
      ELSE Got(r, [d |-> label.v, v |-> r.v])

DeserializeDelimitedUnion(m, b, kind) ==
  LET n == Number(b, 4)
      label == Deserialize(m.disc, n.b, kind, "InKeylist")
      known == label.v \in DOMAIN m.cases
      empty == label.b.pos = n.b.pos + n.v
      content == IF known THEN m.cases[label.v] ELSE m.default
      r == Deserialize(content, label.b, kind, "InKeylist")
      ended == Seek(label.b, n.b.pos + n.v)
  IN  CASE empty /\ ~known -> Got(label, DefaultOf(m))
        [] empty /\ known -> [b |-> ended, v |-> [d |-> label.v, v |-> DefaultOf(content)]]
        [] ~empty /\ content = None -> [b |-> ended, v |-> [d |-> label.v, v |-> None]]
        [] OTHER -> [b |-> Seek(r.b, n.b.pos + n.v), v |-> [d |-> label.v, v |-> r.v]]

\* The members of an object are set one after the other.
NoMembers == [name \in {} |-> None]
Put(data, name, x) == [n \in DOMAIN data \cup {name} |-> IF n = name THEN x ELSE data[n]]

DeserializeMember(m, r, member, kind, enabled) ==
  LET e == KeyEnabled(m.keys, member.name, enabled)
      x == Deserialize(member.machine, r.b, kind, e)
  IN  IF kind # "DataSample" /\ e = "Never"
      THEN Got(r, Put(r.v, member.name, DefaultOf(member.machine)))
      ELSE [b |-> x.b, v |-> Put(r.v, member.name, x.v)]

DeserializeStruct(m, b, kind, enabled) ==
  LET read[i \in 0 .. Len(m.members)] ==
        IF i = 0 THEN [b |-> b, v |-> NoMembers]
        ELSE DeserializeMember(m, read[i - 1], m.members[i], kind, enabled)
  IN  read[Len(m.members)]

\* Members behind the end of what the writer sent get their defaults.
DeserializeIfSent(m, r, member, kind, enabled, start, size) ==
  LET e == KeyEnabled(m.keys, member.name, enabled)
      absent == \/ r.b.pos - start >= size
                \/ kind # "DataSample" /\ e = "Never"
      x == Deserialize(member.machine, r.b, kind, e)
      next == IF absent THEN r.b ELSE x.b
  IN  [b |-> IF next.pos - start > size THEN Fail(next, "corrupt") ELSE next,
       v |-> Put(r.v, member.name, IF absent THEN DefaultOf(member.machine) ELSE x.v)]

DeserializeDelimited(m, b, kind, enabled) ==
  LET n == Number(b, 4)
      read[i \in 0 .. Len(m.members)] ==
        IF i = 0 THEN [b |-> n.b, v |-> NoMembers]
        ELSE DeserializeIfSent(m, read[i - 1], m.members[i], kind, enabled, n.b.pos, n.v)
      r == read[Len(m.members)]
  IN  [r EXCEPT !.b = Seek(@, n.b.pos + n.v)]

\* The bytes behind the header that a length code stands for, with the number there.
Announced(lc, n) ==
  CASE lc < 4 -> 2 ^ lc [] lc = 4 -> n [] lc = 5 -> n + 4 [] lc = 6 -> 4 * n + 4 [] lc = 7 -> 8 * n + 4

\* The header of a member: its id, whether it must be understood, where its
\* bytes start and how many they are.
Header2(b) ==
  LET h == Read(b, 4)
      n == Read(h.b, 4)
  IN  [end |-> FALSE, b |-> IF h.v.lc = 4 THEN n.b ELSE h.b, id |-> h.v.id, mu |-> h.v.mu,
       size |-> Announced(h.v.lc, n.v)]
Header1(b) ==
  LET pid == Read(b, 2)
      short == Read(pid.b, 2)
      long == Read(short.b, 4)
      size == Read(long.b, 4)
  IN  IF pid.v \in {ListEnd, Garbled} THEN [end |-> TRUE, b |-> short.b, id |-> None, mu |-> FALSE, size |-> 0]
      ELSE [end |-> FALSE, b |-> size.b, id |-> long.v.id, mu |-> long.v.mu, size |-> size.v]

\* A member, unless it is no part of the key that is read.
KnownMember(m, h, x, data, kind, enabled) ==
  LET e == KeyEnabled(m.keys, x.name, enabled)
      r == Deserialize(x.machine, IF m.v2 THEN h.b ELSE SetAlignOffset(h.b, h.b.pos), kind, e)
  IN  IF kind # "DataSample" /\ e = "Never" THEN [b |-> h.b, v |-> data]
      ELSE [b |-> SetAlignOffset(r.b, h.b.offset), v |-> [data EXCEPT ![x.name] = r.v]]
UnknownMember(h, data) == [b |-> IF h.mu THEN Fail(h.b, "MustUnderstand") ELSE h.b, v |-> data]

MemberBehind(m, h, data, kind, enabled) ==
  LET known == {x \in ToSet(m.members) : x.id = h.id}
  IN  IF known = {} THEN UnknownMember(h, data)
      ELSE KnownMember(m, h, CHOOSE x \in known : TRUE, data, kind, enabled)

MemberThenRest(m, h, data, kind, enabled, end) ==
  LET r == MemberBehind(m, h, data, kind, enabled)
  IN  IF h.end THEN [b |-> h.b, v |-> data]
      ELSE MutableMembers(m, Seek(r.b, h.b.pos + h.size), r.v, kind, enabled, end)

RestOfMutable(m, b, data, kind, enabled, end) ==
  IF b.error # "none" \/ (m.v2 /\ b.pos >= end) THEN [b |-> b, v |-> data]
  ELSE MemberThenRest(m, IF m.v2 THEN Header2(Align(b, 4)) ELSE Header1(Align(b, 4)),
                      data, kind, enabled, end)

\* Members nobody sent get their defaults; a key member must be sent.
FillMissing(m, b, data) ==
  LET missing == {x \in ToSet(m.members) : data[x.name] = None}
      filled(name) == LET x == CHOOSE y \in ToSet(m.members) : y.name = name
                      IN  IF x \in missing /\ ~x.optional THEN DefaultOf(x.machine) ELSE data[name]
  IN  [b |-> IF \E x \in missing : x.name \in m.keys THEN Fail(b, "KeyFieldNotProvided") ELSE b,
       v |-> [name \in DOMAIN data |-> filled(name)]]

DeserializeMutable(m, b, kind, enabled) ==
  LET n == Number(b, 4)
      start == IF m.v2 THEN n.b ELSE b
      end == n.b.pos + n.v
      absent == [x \in {y.name : y \in ToSet(m.members)} |-> None]
      r == MutableMembers(m, start, absent, kind, enabled, end)
  IN  FillMissing(m, IF m.v2 THEN Seek(r.b, end) ELSE r.b, r.v)

Deserialized(m, b, kind, enabled) ==
  CASE m.m = "Primitive" -> DeserializePrimitive(m, b)
    [] m.m = "Char" -> DeserializeChar(b)
    [] m.m = "Enum" -> DeserializeEnum(b)
    [] m.m = "BitBoundEnum" -> DeserializeBitBoundEnum(m, b)
    [] m.m = "BitMask" -> DeserializeBitMask(m, b)
    [] m.m = "String" -> DeserializeString(b)
    [] m.m = "Bytes" -> DeserializeBytes(b)
    [] m.m = "PlainArray" -> DeserializePlainArray(m, b)
    [] m.m = "Array" -> DeserializeArray(m, b, kind, enabled)
    [] m.m = "Sequence" -> DeserializeSequence(m, b, kind, enabled)
    [] m.m = "PlainSequence" -> DeserializePlainSequence(m, b)
    [] m.m = "Mapping" -> DeserializeMapping(m, b, kind, enabled)
    [] m.m = "Optional" -> DeserializeOptional(m, b, kind)
    [] m.m = "Union" -> DeserializeUnion(m, b, kind, enabled)
    [] m.m = "DelimitedUnion" -> DeserializeDelimitedUnion(m, b, kind)
    [] m.m = "Struct" -> DeserializeStruct(m, b, kind, enabled)
    [] m.m = "Delimited" -> DeserializeDelimited(m, b, kind, enabled)
    [] m.m = "Mutable" -> DeserializeMutable(m, b, kind, enabled)

---------------------------------------------------------------------------
\* What the operators that machines call each other by stand for.
Recursion ==
  /\ \A t, id, header, v2 : MachineFor(t, id, header, v2) = BuiltMachine(t, id, header, v2)
  /\ \A m : DefaultOf(m) = DefaultValue(m)
  /\ \A m, b, v, kind, enabled :
       Serialize(m, b, v, kind, enabled) = Serialized(m, b, v, kind, enabled)
  /\ \A m, b, kind, enabled : Deserialize(m, b, kind, enabled) = Deserialized(m, b, kind, enabled)
  /\ \A m, b, data, kind, enabled, end :
       MutableMembers(m, b, data, kind, enabled, end) = RestOfMutable(m, b, data, kind, enabled, end)
=============================================================================
