------------------------------- MODULE Xcdr -------------------------------
(***************************************************************************)
(* IDL.serialize, serialize_key, deserialize and deserialize_key of        *)
(* idl/_main.py: one message at a time, written with one type and read     *)
(* with the same or with another version of it.  "wire" is the message,    *)
(* with what was written and how; "seen" is what a reader made of it.      *)
(***************************************************************************)
EXTENDS XcdrMachines

CONSTANTS
  Types,           \* names of types
  Desc,            \* name -> description of the type
  Samples,         \* name -> values of that type
  Evolved,         \* pairs <<writer's type, reader's type>> the C layer matches
  Endians,
  Buffers,         \* buffers a program passes: new ones, or used before
  Descs,           \* the descriptions of the types and of all they are made of
  Depth,           \* description -> how deep it goes
  ValuesOf,        \* description -> its values
  Encodable        \* version -> pairs <<description, extent>> that raise no error

Versions == {1, 2}

\* What a type is made of.
Parts(t) ==
  CASE t.k \in {"opt", "list", "seq", "array"} -> {t.of}
    [] t.k = "map" -> {t.key, t.val}
    [] t.k = "struct" -> {x.type : x \in ToSet(t.members)}
    [] t.k = "union" -> {t.disc} \cup {t.cases[label] : label \in DOMAIN t.cases}
                        \cup ({t.default} \ {None})
    [] OTHER -> {}

IsDescription(t) ==
  \/ t.k \in {"char", "string", "bytes", "opt", "list", "seq", "map"}
  \/ t.k = "prim" /\ t.size \in {1, 2, 4, 8}
  \/ t.k = "enum" /\ t.bits \in {None} \cup (1 .. MaxBits)
  \/ t.k = "bitmask" /\ t.bits \in 1 .. MaxBits
  \/ t.k = "array" /\ t.len \in Nat \ {0}
  \/ /\ t.k = "struct" /\ t.ext \in {"final", "appendable", "mutable"}
     /\ t.members \in Seq(ToSet(t.members)) /\ t.members # <<>>
     /\ \A i, j \in DOMAIN t.members :
          i # j => t.members[i].name # t.members[j].name /\ t.members[i].id # t.members[j].id
     /\ \A i \in DOMAIN t.members : t.members[i].id \in Nat
  \/ /\ t.k = "union" /\ t.ext \in {"final", "appendable"}
     /\ t.disc.k \in {"prim", "char", "enum"}
     /\ {None, t.defaultDisc} \cap DOMAIN t.cases = {}

\* The label that goes out for a union.
LabelOf(t, u) == IF u.d = None THEN t.defaultDisc ELSE u.d

\* Values within the bounds of their type.
Bounded(v, bound) == bound = None \/ Len(v) <= bound
IsValue(t, v) ==
  CASE t.k = "prim" -> v \in Int /\ InRange(t.size, v)
    [] t.k = "char" -> v \in Int /\ InRange(1, v)
    [] t.k = "enum" -> v \in Int
    [] t.k = "string" -> v \in Seq(1 .. 4) /\ Bounded(v, t.bound)
    [] t.k = "bytes" -> v \in Seq(Int)
    [] t.k = "bitmask" -> v \in Seq(Int) /\ Len(v) = 1 /\ InRange(MaskHolder(t.bits), v[1])
    [] t.k = "opt" -> v \in {None} \cup ValuesOf[t.of]
    [] t.k = "list" -> v \in Seq(ValuesOf[t.of])
    [] t.k = "seq" -> v \in Seq(ValuesOf[t.of]) /\ Bounded(v, t.max)
    [] t.k = "array" -> v \in Seq(ValuesOf[t.of]) /\ Len(v) = t.len
    [] t.k = "map" -> v \in Seq(ValuesOf[t.key] \X ValuesOf[t.val])
    [] t.k = "struct" -> \A x \in ToSet(t.members) : v[x.name] \in ValuesOf[x.type]
    [] t.k = "union" ->
         /\ LabelOf(t, v) \in ValuesOf[t.disc]
         /\ v.d \in DOMAIN t.cases => v.v \in ValuesOf[t.cases[v.d]]
         /\ v.d \notin DOMAIN t.cases /\ t.default # None => v.v \in ValuesOf[t.default]

ASSUME TypesAssumption ==
  /\ \A n \in Types : Desc[n] \in Descs /\ Desc[n].k = "struct" /\ Samples[n] \subseteq ValuesOf[Desc[n]]
  /\ Depth \in [Descs -> Nat]
  /\ \A t \in Descs : IsDescription(t) /\ \A x \in Parts(t) : x \in Descs /\ Depth[x] < Depth[t]

ASSUME ValuesAssumption == \A t \in Descs : \A v \in ValuesOf[t] : IsValue(t, v)

\* How much of a value is written: all of it, or what belongs to a key where it is
\* met with this KeyEnabled.
Extents == {"Whole", "InKeylist", "InKeylistOrKeyless", "Never"}
Extent(kind, enabled) == IF kind = "DataSample" THEN "Whole" ELSE enabled

KeyMembers(t, enabled) ==
  {x \in ToSet(t.members) : KeyEnabled(t.keys, x.name, enabled) # "Never"}
\* A mutable struct has no member for an optional one that is None.
InMember(t, x) == IF t.ext = "mutable" /\ x.type.k = "opt" THEN x.type.of ELSE x.type

PartsOfKey(t, e, v2) ==
  CASE t.k \in {"list", "seq", "array", "map"} -> {<<x, e>> : x \in Parts(t)}
    [] t.k = "struct" -> {<<InMember(t, x), "InKeylistOrKeyless">> : x \in KeyMembers(t, e)}
    [] t.k = "union" /\ t.ext = "appendable" /\ v2 -> {<<x, "InKeylist">> : x \in Parts(t)}
    [] t.k = "union" /\ ~(t.ext = "appendable" /\ v2) ->
         {<<t.disc, e>>} \cup {<<x, "Never">> : x \in Parts(t)}
    [] OTHER -> {}
PartsWritten(t, e, v2) ==
  IF e = "Whole" THEN {<<x, "Whole">> : x \in Parts(t)} ELSE PartsOfKey(t, e, v2)

\* Two things raise an error: a value too large for the holder of its enum (one of
\* 9 to 15 bits gets one byte), and an optional member in a key.
FitsHolder(t, v2) ==
  t.k = "enum" /\ t.bits # None /\ v2 => \A v \in ValuesOf[t] : InRange(EnumHolder(t.bits), v)
Writable(t, e, v2) == FitsHolder(t, v2) /\ (t.k = "opt" => e = "Whole")

ASSUME EncodableAssumption == \A version \in Versions :
  Encodable[version] =
    {q \in Descs \X Extents : /\ Writable(q[1], q[2], version = 2)
                               /\ PartsWritten(q[1], q[2], version = 2) \subseteq Encodable[version]}

ASSUME BuffersAssumption ==
  \A b \in Buffers : IsBufferRecord(b) /\ b.size \in Nat \ {0}

VARIABLES wire, seen

vars == <<wire, seen>>

MachineOf(t, version) == MachineFor(Desc[t], None, version = 2, version = 2)

\* Mutant of XcdrHead: the encoding follows from the extensibility alone.
XcdrHeadUnversioned(t, version) ==
  CASE Desc[t].ext = "mutable" -> 2 [] Desc[t].ext = "appendable" -> 8 [] OTHER -> 0

\* The second byte of the header: encoding and byte order.
XcdrHead(t, version) ==
  CASE version = 1 -> IF Desc[t].ext = "mutable" THEN 2 ELSE 0
    [] version = 2 /\ Desc[t].ext = "appendable" -> 8
    [] version = 2 /\ Desc[t].ext = "mutable" -> 10
    [] OTHER -> 6
Encoding(t, version, endian) == XcdrHead(t, version) + (IF endian = "Little" THEN 1 ELSE 0)

\* The buffer may come from an earlier message, even one that failed half way.
Prepare(b, version, endian) ==
  [SetEndianness(SetAlignOffset(ZeroOut(Seek(b, 0)), 0), endian)
     EXCEPT !.alignMax = IF version = 2 THEN 4 ELSE 8, !.error = "none"]

PrependHeader(b, encoding) ==
  SetAlignOffset(Write(Write(Write(Write(b, 1, 0), 1, encoding), 1, 0), 1, 0), 4)

SerializeInto(b, t, version, endian, kind, prependHeader, v) ==
  LET clean == Prepare(b, version, endian)
      start == IF prependHeader THEN PrependHeader(clean, Encoding(t, version, endian)) ELSE clean
  IN  Serialize(MachineOf(t, version), start, v, kind, "InKeylist")

Message(t, version, kind, header, v, b) ==
  [type |-> t, version |-> version, kind |-> kind, header |-> header, value |-> v,
   endian |-> b.endian, bytes |-> AsBytes(b), sent |-> b.pos, error |-> b.error]

SerializeSample(t, v, version, endian, b) ==
  /\ wire = None
  /\ wire' = Message(t, version, "DataSample", TRUE, v,
                     SerializeInto(b, t, version, endian, "DataSample", TRUE, v))
  /\ UNCHANGED seen

\* A writer's dispose, unregister and look-up send the key with a header
\* (IdlStruct.serialize_key); IDL.serialize_key and serialize_key_normalized give
\* it bare and in one byte order.
SerializeKey(t, v, version, kind, header, endian, b) ==
  /\ wire = None
  /\ IF header THEN kind = "KeyDefinitionOrder" ELSE endian = "Little"
  /\ wire' = Message(t, version, kind, header, v,
                     SerializeInto(b, t, version, endian, kind, header, v))
  /\ UNCHANGED seen

\* With a header its second byte gives version and byte order, without one the
\* caller does.
Open(w) ==
  LET b == BufferOf(w.bytes, IF w.header THEN 4 ELSE 0)
      encoding == Read(Read(b, 1).b, 1)
      version == IF w.header THEN IF encoding.v > 3 THEN 2 ELSE 1 ELSE w.version
      endian == IF w.header THEN IF encoding.v % 2 = 1 THEN "Little" ELSE "Big" ELSE "Little"
      behind == IF w.header THEN Read(Read(encoding.b, 1).b, 1).b ELSE b
  IN  [version |-> version,
       b |-> [SetEndianness(behind, endian) EXCEPT !.alignMax = IF version = 2 THEN 4 ELSE 8]]

DeserializeAs(t, w, kind) ==
  LET open == Open(w)
  IN  Deserialize(MachineOf(t, open.version), open.b, kind, "InKeylist")

Reading(t, r) == [type |-> t, value |-> r.v, error |-> r.b.error, end |-> r.b.pos]

\* Types the C layer lets meet.  XCDR1 has no room for another version of an
\* appendable type.
Assignable(w, r, version) ==
  <<w, r>> \in Evolved /\ (w = r \/ version = 2 \/ Desc[w].ext = "mutable")

DeserializeSample(t) ==
  /\ wire # None /\ seen = None
  /\ wire.kind = "DataSample" /\ wire.error = "none"
  /\ Assignable(wire.type, t, wire.version)
  /\ seen' = Reading(t, DeserializeAs(t, wire, "DataSample"))
  /\ UNCHANGED wire

DeserializeKey(t) ==
  /\ wire # None /\ seen = None
  /\ wire.kind = "KeyDefinitionOrder" /\ wire.error = "none"
  /\ t = wire.type
  /\ seen' = Reading(t, DeserializeAs(t, wire, "KeySample"))
  /\ UNCHANGED wire

Init == wire = None /\ seen = None

Next ==
  \/ \E t \in Types, version \in Versions, e \in Endians, b \in Buffers :
       \E v \in Samples[t] : SerializeSample(t, v, version, e, b)
  \/ \E t \in Types, version \in Versions, kind \in KeyKinds, header \in BOOLEAN,
        e \in Endians, b \in Buffers :
       \E v \in Samples[t] : SerializeKey(t, v, version, kind, header, e, b)
  \/ \E t \in Types : DeserializeSample(t) \/ DeserializeKey(t)

Spec == Init /\ [][Next]_vars

---------------------------------------------------------------------------
\* A message is of a known type, and its numbers lie inside its bytes.
TypeOK ==
  /\ wire # None =>
       /\ wire.type \in Types /\ wire.value \in Samples[wire.type]
       /\ wire.kind \in KeyKinds \cup {"DataSample"}
       /\ \A p \in DOMAIN wire.bytes.cells :
            p >= 0 /\ p + wire.bytes.cells[p].width <= wire.bytes.length
  /\ seen # None => wire # None /\ seen.type \in Types

\* Every sample within its bounds can be encoded, and every key, but for enums with
\* values that are too large for their holder and optional members in keys; and all
\* bytes of a message are sent: the array has grown to the last position
\* (Buffer.ensure_size, asbytes).
EncodingIsWhole ==
  wire # None =>
    /\ <<Desc[wire.type], Extent(wire.kind, "InKeylist")>> \in Encodable[wire.version]
         => wire.error = "none"
    /\ wire.error = "none" => wire.bytes.length = wire.sent

\* In XCDR2 every number lies at a multiple of its width or of 4 after the
\* header, which the C layer requires of the bytes it gets.
NumbersAligned ==
  wire # None /\ wire.version = 2 =>
    \A p \in DOMAIN wire.bytes.cells :
      LET cell == wire.bytes.cells[p]
          origin == IF wire.header THEN 4 ELSE 0
      IN  cell.endian # "any" => (p - origin) % AtMost(cell.unit, 4) = 0
=============================================================================
