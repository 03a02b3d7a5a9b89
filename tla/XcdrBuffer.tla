---------------------------- MODULE XcdrBuffer ----------------------------
(***************************************************************************)
(* The Buffer of idl/_support.py: a byte array with a position, an origin  *)
(* for alignment and a maximal alignment.  A number or a block of bytes    *)
(* that was written is one cell at its first position, with its width and  *)
(* the byte order it was written in.  Bytes nobody wrote are zero.         *)
(***************************************************************************)
EXTENDS Integers

CONSTANT InitialSize     \* bytes of a new buffer, 512 in the code

ASSUME InitialSizeAssumption == InitialSize \in Nat \ {0}

\* What a read returns that does not see what was written there.
Garbled == -1

NoCells == [p \in {} |-> 0]

NewBuffer == [pos |-> 0, size |-> InitialSize, offset |-> 0, alignMax |-> 8,
              endian |-> "Little", cells |-> NoCells, error |-> "none"]

IsBufferRecord(b) ==
  b = [pos |-> b.pos, size |-> b.size, offset |-> b.offset, alignMax |-> b.alignMax,
       endian |-> b.endian, cells |-> b.cells, error |-> b.error]

\* The bytes of a message, to be read.  An empty message gives a new buffer.
BufferOf(bytes, alignOffset) ==
  [NewBuffer EXCEPT !.size = IF bytes.length = 0 THEN InitialSize ELSE bytes.length,
                    !.cells = bytes.cells, !.offset = alignOffset]

SetEndianness(b, e) == [b EXCEPT !.endian = e]
ZeroOut(b) == [b EXCEPT !.cells = NoCells]
SetAlignOffset(b, offset) == [b EXCEPT !.offset = offset]
Seek(b, pos) == [b EXCEPT !.pos = pos]
Fail(b, error) == IF b.error = "none" THEN [b EXCEPT !.error = error] ELSE b

AtMost(a, b) == IF a <= b THEN a ELSE b

\* The next multiple of the alignment, counted from the origin.
Aligned(pos, offset, a) == ((pos - offset + a - 1) \div a) * a + offset
Align(b, alignment) ==
  [b EXCEPT !.pos = Aligned(b.pos, b.offset, AtMost(alignment, b.alignMax))]

\* Doubled until there is room.
Grown(size, need) ==
  LET doubled[s \in Nat] == IF need > s THEN doubled[2 * s] ELSE s IN doubled[size]
\* Mutant of EnsureSize: room for n bytes, wherever the position is.
EnsureSizeFromStart(b, n) == [b EXCEPT !.size = Grown(b.size, n)]
EnsureSize(b, n) == [b EXCEPT !.size = Grown(b.size, b.pos + n)]

PutCell(cells, pos, n, cell) ==
  [p \in (DOMAIN cells \ (pos .. pos + n - 1)) \cup {pos} |->
     IF p = pos THEN cell ELSE cells[p]]

\* n bytes that hold v, in units of the given width.
WriteIn(b, n, unit, endian, v) ==
  LET g == EnsureSize(b, n)
      cell == [width |-> n, unit |-> unit, endian |-> endian, v |-> v]
  IN  IF n = 0 THEN g
      ELSE [g EXCEPT !.pos = b.pos + n, !.cells = PutCell(b.cells, b.pos, n, cell)]

\* Whether struct.pack_into takes v as a number of n bytes.  Signed or not, such a
\* number is one of as many values, here the ones from 0.  Those of the model, which
\* are TLC's integers, fit into 4 or 8 bytes.
InRange(n, v) == (n = 1 => v \in 0 .. 255) /\ (n = 2 => v \in 0 .. 65535)
\* An error ends the call in the code.  Here the first one stays, and nobody uses
\* what is written after it.
Check(b, holds, error) == IF holds THEN b ELSE Fail(b, error)

Write(b, n, v) ==
  Check(WriteIn(b, n, n, IF n = 1 THEN "any" ELSE b.endian, v), InRange(n, v), "struct.error")
WriteMulti(b, n, unit, v) ==
  Check(WriteIn(b, n, unit, IF unit = 1 THEN "any" ELSE b.endian, v),
        \A i \in DOMAIN v : InRange(unit, v[i]), "struct.error")
WriteBytes(b, n, v) == WriteIn(b, n, 1, "any", v)

\* A number behind the end of the buffer cannot be unpacked.
Short(b, n) == b.pos + n > b.size
Past(b, n) == IF Short(b, n) THEN Fail(b, "short") ELSE [b EXCEPT !.pos = @ + n]
Unpacked(b, n) ==
  LET cell == b.cells[b.pos]
  IN  IF Short(b, n) THEN Garbled
      ELSE IF b.pos \notin DOMAIN b.cells THEN 0
      ELSE IF cell.width = n /\ cell.endian \in {"any", b.endian} THEN cell.v ELSE Garbled
Read(b, n) == [b |-> Past(b, n), v |-> Unpacked(b, n)]

\* A slice: shorter at the end of the buffer, and empty when nothing is asked for.
ReadBytes(b, n) ==
  IF n <= 0 THEN [b |-> [b EXCEPT !.pos = b.pos + n], v |-> <<>>]
  ELSE LET moved == [b EXCEPT !.pos = b.pos + n]
           seen == b.pos \in DOMAIN b.cells /\ b.cells[b.pos].width = n
                     /\ b.pos + n <= b.size
       IN  [b |-> moved, v |-> IF seen THEN b.cells[b.pos].v ELSE Garbled]

\* What is sent: the bytes up to the position, as far as the array reaches.
AsBytes(b) == [length |-> AtMost(b.pos, b.size), cells |-> b.cells]
=============================================================================
