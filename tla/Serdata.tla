------------------------------- MODULE Serdata -------------------------------
(***************************************************************************)
(* The serialised samples of clayer/pysertype.c.  A payload is what its    *)
(* four byte header claims and what follows the header; the body keeps the *)
(* version and byte order it was really written in, so that reading it by  *)
(* a wrong header is seen.  A serdata is a payload and its key, which is   *)
(* kept in XCDR2 and native byte order whatever the payload was.           *)
(***************************************************************************)
EXTENDS Naturals, Sequences, SequencesExt

CONSTANTS
  Keys, NoKey, Garbage,
  NativeLE,     \* the byte order of this machine
  FragChains    \* the ways a payload of PayloadLen units arrives in fragments <<min, maxp1>>

PayloadLen == 3

ASSUME SerdataAssumption ==
  /\ NativeLE \in BOOLEAN
  /\ NoKey \notin Keys
  /\ Garbage \notin Keys \cup {NoKey}
  /\ \A c \in FragChains :  \* sorted by their start, without gaps, and to the end
       /\ c \in Seq((0 .. PayloadLen) \X (0 .. PayloadLen)) /\ Len(c) > 0
       /\ c[1][1] = 0
       /\ \A n \in 2 .. Len(c) : \E m \in 1 .. n - 1 : c[n][1] \in c[m][1] .. c[m][2]
       /\ \E n \in 1 .. Len(c) : c[n][2] = PayloadLen

\* A type is whether it has no key, and the first operation of its descriptor.
Types == [keyless : BOOLEAN, op : {"DLC", "PLC", "other"}]
V2Encodings == {"CDR2", "D_CDR2", "PL_CDR2"}
Encodings == {"CDR", "PL_CDR"} \cup V2Encodings
Versions == {1, 2}
Body == [version : Versions, le : BOOLEAN, kind : {"data", "key"},
         key : Keys \cup {NoKey, Garbage}, wellFormed : BOOLEAN]
Payloads == [enc : Encodings, le : BOOLEAN, body : Body]
KeyBytes == [version : Versions, le : BOOLEAN, key : Keys \cup {NoKey, Garbage}]
Untyped == [key : KeyBytes, v2 : BOOLEAN]

\* The header the code writes for a type, in either version.
Encoding(type, v2) ==
  IF v2 THEN CASE type.op = "DLC" -> "D_CDR2" [] type.op = "PLC" -> "PL_CDR2" [] OTHER -> "CDR2"
        ELSE IF type.op = "PLC" THEN "PL_CDR" ELSE "CDR"

KeyOf(type, k) == IF type.keyless THEN NoKey ELSE k

\* IDL.serialize; a value that fits no case of its unions makes a body of no type.
Serialize(type, v, le, kind, k, wellFormed) ==
  [enc |-> Encoding(type, v = 2), le |-> le,
   body |-> [version |-> v, le |-> le, kind |-> kind, key |-> KeyOf(type, k), wellFormed |-> wellFormed]]

IsV2(b) == b.enc \in V2Encodings
Version(v2) == IF v2 THEN 2 ELSE 1
Readable(b) == b.body.wellFormed /\ b.body.le = b.le /\ b.body.version = Version(IsV2(b))

\* IDL.deserialize and deserialize_key: by what the header says.
Deserialize(b) == IF Readable(b) THEN b.body.key ELSE Garbage

\* dds_stream_normalize refuses what no reader of the type could read, and swaps
\* the rest to the byte order of the machine.
Normalizes(b, kind) == Readable(b) /\ b.body.kind = kind

\* Mutant of Normalize: the header goes on claiming the order of the sender.
HeaderStays(b) == [b EXCEPT !.body.le = IF b.le # NativeLE THEN ~@ ELSE @]
Normalize(b) ==
  IF b.le # NativeLE THEN [b EXCEPT !.body.le = ~@, !.le = ~@] ELSE b

\* Mutant of ExtractKey: the key stays in the version of its payload.
KeyAsItCame(b) == [version |-> b.body.version, le |-> b.body.le, key |-> b.body.key]
ExtractKey(b) == [version |-> 2, le |-> b.body.le, key |-> b.body.key]

\* serdata_from_common, when the payload is well formed.
FromCommon(b) ==
  LET n == Normalize(b) IN [data |-> n, key |-> ExtractKey(n), v2 |-> IsV2(b)]

\* serdata_from_ser: each fragment adds what the ones before it did not bring.
Unit(frag, at) == frag[1] + at + 1
Reassembled(chain) ==
  LET got[n \in 0 .. Len(chain)] ==
        IF n = 0 THEN <<>>
        ELSE got[n - 1] \o [i \in 1 .. chain[n][2] - Len(got[n - 1]) |->
                             Unit(chain[n], Len(got[n - 1]) - chain[n][1] + i - 1)]
  IN  got[Len(chain)]
FromSer(b, chain) ==
  IF Reassembled(chain) = [i \in 1 .. PayloadLen |-> i]
  THEN b ELSE [b EXCEPT !.body.key = Garbage]

\* serdata_eqkey.
EqKey(type, a, b) == type.keyless \/ a.key = b.key

ToUntyped(sd) == [key |-> sd.key, v2 |-> sd.v2]

\* Mutant of UntypedToSample: an XCDR1 header in front of the key as it is kept.
NotConverted(type, u) ==
  [enc |-> Encoding(type, u.v2), le |-> NativeLE,
   body |-> [version |-> u.key.version, le |-> u.key.le, kind |-> "key", key |-> u.key.key,
             wellFormed |-> TRUE]]
\* serdata_typeless_to_sample: the key in the version the serdata had.
UntypedToSample(type, u) ==
  [enc |-> Encoding(type, u.v2), le |-> NativeLE,
   body |-> [version |-> Version(u.v2), le |-> u.key.le, kind |-> "key", key |-> u.key.key,
             wellFormed |-> TRUE]]
=============================================================================
