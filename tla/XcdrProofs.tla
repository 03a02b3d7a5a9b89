----------------------------- MODULE XcdrProofs -----------------------------
(***************************************************************************)
(* What the encoding machines write, for any types, samples and buffers:   *)
(* all of it is sent, nothing is refused that can be encoded, and in XCDR2 *)
(* every number is aligned.  The machines call each other as Recursion     *)
(* says; the proofs go by the depth of the types.  Also what both the      *)
(* writer and a reader of a message need of buffers, and of the machines   *)
(* without parts.                                                          *)
(***************************************************************************)
EXTENDS Xcdr, WellFoundedInduction, TLAPS

(***************************************************************************)
(* Induction, stated with sets in place of predicates.                     *)
(***************************************************************************)
LEMMA LeastNumber ==
  ASSUME NEW T \in SUBSET Nat, T # {}
  PROVE  \E m \in T : \A k \in T : m <= k
<1> DEFINE R == OpToRel(<, Nat)
<1>1. \A x, y \in T : <<y, x>> \in R <=> y < x
  BY DEF OpToRel
<1>2. IsWellFoundedOn(R, Nat)
  BY NatLessThanWellFounded
<1> HIDE DEF R
<1>3. PICK x \in T : \A y \in T : <<y, x>> \notin R
  BY <1>2, WFMin, Zenon
<1>4. \A k \in T : ~(k < x)
  BY <1>1, <1>3, Zenon
<1> QED
  BY <1>4

LEMMA SetInduction ==
  ASSUME NEW T \in SUBSET Nat, 0 \in T, \A n \in T : n + 1 \in T
  PROVE  T = Nat
<1> SUFFICES ASSUME Nat \ T # {} PROVE FALSE
  OBVIOUS
<1>1. PICK m \in Nat \ T : \A k \in Nat \ T : m <= k
  BY LeastNumber, Nat \ T \in SUBSET Nat
<1>2. m # 0 /\ m - 1 \in Nat /\ m - 1 \in T
  BY <1>1
<1> QED
  BY <1>1, <1>2

LEMMA IntervalInduction ==
  ASSUME NEW N \in Nat, NEW T, 0 \in T, \A n \in 0 .. N - 1 : n \in T => n + 1 \in T
  PROVE  0 .. N \subseteq T
<1> DEFINE U == {n \in Nat : n <= N => n \in T}
<1>1. 0 \in U
  OBVIOUS
<1>2. \A n \in U : n + 1 \in U
  OBVIOUS
<1>3. U = Nat
  <2>1. U \in SUBSET Nat
    OBVIOUS
  <2> HIDE DEF U
  <2> QED
    BY <1>1, <1>2, <2>1, SetInduction
<1> QED
  BY <1>3

(***************************************************************************)
(* Recursive functions: one step after another there is a value.           *)
(***************************************************************************)
Steps(N, X) == [(1 .. N) \X X -> X]
Follows(f, step, base, N, X) ==
  /\ f \in [0 .. N -> X]
  /\ f[0] = base /\ \A n \in 1 .. N : f[n] = step[<<n, f[n - 1]>>]

LEMMA StepByStep ==
  ASSUME NEW X, NEW base \in X, NEW N \in Nat, NEW step \in Steps(N, X)
  PROVE  \E f : Follows(f, step, base, N, X)
<1> USE DEF Steps
<1> DEFINE Upto(m) == {f \in [0 .. m -> X] :
                         f[0] = base /\ \A n \in 1 .. m : f[n] = step[<<n, f[n - 1]>>]}
           T == {m \in Nat : m <= N => Upto(m) # {}}
<1>1. 0 \in T
  <2> DEFINE f == [n \in 0 .. 0 |-> base]
  <2>1. f \in [0 .. 0 -> X] /\ f[0] = base
    OBVIOUS
  <2> HIDE DEF f
  <2> QED
    BY <2>1
<1>2. ASSUME NEW m \in T PROVE m + 1 \in T
  <2> SUFFICES ASSUME m + 1 <= N PROVE Upto(m + 1) # {}
    OBVIOUS
  <2>1. PICK f \in [0 .. m -> X] : f[0] = base /\ \A n \in 1 .. m : f[n] = step[<<n, f[n - 1]>>]
    OBVIOUS
  <2> DEFINE g == [n \in 0 .. m + 1 |-> IF n <= m THEN f[n] ELSE step[<<m + 1, f[m]>>]]
  <2>2. f[m] \in X /\ m + 1 \in 1 .. N
    OBVIOUS
  <2>3. step[<<m + 1, f[m]>>] \in X
    BY <2>2
  <2>4. g \in [0 .. m + 1 -> X]
    BY <2>3
  <2>5. g[0] = base
    BY <2>1
  <2>6. ASSUME NEW n \in 1 .. m + 1 PROVE g[n] = step[<<n, g[n - 1]>>]
    <3>1. CASE n <= m
      <4>1. n \in 1 .. m /\ n - 1 \in 0 .. m /\ n - 1 <= m
        BY <3>1
      <4>2. g[n] = f[n] /\ g[n - 1] = f[n - 1]
        BY <4>1
      <4> QED
        BY <2>1, <4>1, <4>2
    <3>2. CASE n = m + 1
      <4>1. g[n] = step[<<m + 1, f[m]>>] /\ g[n - 1] = f[m]
        BY <3>2
      <4> QED
        BY <3>2, <4>1
    <3> QED
      BY <3>1, <3>2
  <2> HIDE DEF g
  <2>7. g \in Upto(m + 1)
    BY <2>4, <2>5, <2>6
  <2> QED
    BY <2>7
<1>3. T = Nat
  <2>1. T \in SUBSET Nat
    OBVIOUS
  <2> HIDE DEF T
  <2> QED
    BY <1>1, <1>2, <2>1, SetInduction
<1>4. N \in T
  BY <1>3
<1>5. PICK f : f \in Upto(N)
  BY <1>4
<1> QED
  BY <1>5 DEF Follows

(***************************************************************************)
(* Buffers.  A buffer is sound when its cells lie before its position.     *)
(***************************************************************************)
Widths == {1, 2, 4, 8}

IsCell(c) ==
  /\ c = [width |-> c.width, unit |-> c.unit, endian |-> c.endian, v |-> c.v]
  /\ c.width \in Nat \ {0} /\ c.unit \in Widths

CellsBefore(cells, pos) ==
  /\ DOMAIN cells \subseteq Nat
  /\ \A p \in DOMAIN cells : IsCell(cells[p]) /\ p + cells[p].width <= pos

Sound(b) ==
  /\ IsBufferRecord(b)
  /\ b.pos \in Nat /\ b.size \in Nat \ {0} /\ b.offset \in Int /\ b.alignMax \in {4, 8}
  /\ CellsBefore(b.cells, b.pos)

OnGrid(p, offset, a) == (p - offset) % a = 0

CellsAligned(cells, offset) ==
  \A p \in DOMAIN cells : cells[p].endian # "any" => OnGrid(p, offset, AtMost(cells[p].unit, 4))

\* Every number in the buffer is aligned as XCDR2 wants it.
Regular(b) == b.alignMax = 4 /\ CellsAligned(b.cells, b.offset)

\* What was written before position p is left alone.
SameBefore(cells, later, p) ==
  \A q \in Nat : q < p => /\ q \in DOMAIN later <=> q \in DOMAIN cells
                          /\ q \in DOMAIN cells => later[q] = cells[q]

\* A buffer that comes of another one by writing behind its position.
Wrote(v2, b, r) ==
  /\ Sound(r) /\ b.pos <= r.pos /\ b.size <= r.size
  /\ r.offset = b.offset /\ r.alignMax = b.alignMax /\ r.endian = b.endian
  /\ SameBefore(b.cells, r.cells, b.pos)
  /\ v2 /\ Regular(b) => Regular(r)

Room(b) == b.pos <= b.size

Encoded(v2, b, r) == Wrote(v2, b, r) /\ (Room(b) => Room(r))

LEMMA WroteNothing ==
  ASSUME NEW v2, NEW b, Sound(b)
  PROVE  Encoded(v2, b, b)
BY DEF Encoded, Wrote, SameBefore, Sound

LEMMA WroteMore ==
  ASSUME NEW v2, NEW b, NEW c, NEW d, Sound(b), Wrote(v2, b, c), Wrote(v2, c, d)
  PROVE  Wrote(v2, b, d)
<1>1. b.pos \in Nat /\ c.pos \in Nat /\ d.pos \in Nat /\ b.pos <= c.pos /\ c.pos <= d.pos
  BY DEF Wrote, Sound
<1>2. b.size <= c.size /\ c.size <= d.size /\ b.size \in Nat /\ c.size \in Nat /\ d.size \in Nat
  BY DEF Wrote, Sound
<1>3. SameBefore(b.cells, d.cells, b.pos)
  <2> SUFFICES ASSUME NEW q \in Nat, q < b.pos
               PROVE  /\ q \in DOMAIN d.cells <=> q \in DOMAIN b.cells
                      /\ q \in DOMAIN b.cells => d.cells[q] = b.cells[q]
    BY DEF SameBefore
  <2>1. /\ q \in DOMAIN c.cells <=> q \in DOMAIN b.cells
        /\ q \in DOMAIN b.cells => c.cells[q] = b.cells[q]
    BY DEF Wrote, SameBefore
  <2>2. q < c.pos
    BY <1>1
  <2>3. /\ q \in DOMAIN d.cells <=> q \in DOMAIN c.cells
        /\ q \in DOMAIN c.cells => d.cells[q] = c.cells[q]
    BY <2>2 DEF Wrote, SameBefore
  <2> QED
    BY <2>1, <2>3
<1>4. v2 /\ Regular(b) => Regular(d)
  BY DEF Wrote
<1> QED
  BY <1>1, <1>2, <1>3, <1>4 DEF Wrote

LEMMA EncodedMore ==
  ASSUME NEW v2, NEW b, NEW c, NEW d, Sound(b), Encoded(v2, b, c), Encoded(v2, c, d)
  PROVE  Encoded(v2, b, d)
BY WroteMore DEF Encoded

\* The next multiple of a.
LEMMA NextMultiple ==
  ASSUME NEW x \in Int, NEW a \in Widths
  PROVE  LET y == ((x + a - 1) \div a) * a IN y \in Int /\ x <= y /\ y < x + a /\ y % a = 0
<1>1. CASE a = 1
  BY <1>1
<1>2. CASE a = 2
  BY <1>2
<1>3. CASE a = 4
  BY <1>3
<1>4. CASE a = 8
  BY <1>4
<1> QED
  BY <1>1, <1>2, <1>3, <1>4 DEF Widths

LEMMA AlignedFacts ==
  ASSUME NEW b, Sound(b), NEW a \in Widths
  PROVE  /\ IsBufferRecord(Align(b, a))
         /\ Align(b, a).pos \in Nat /\ b.pos <= Align(b, a).pos
         /\ OnGrid(Align(b, a).pos, b.offset, AtMost(a, b.alignMax))
         /\ Align(b, a).size = b.size /\ Align(b, a).offset = b.offset
         /\ Align(b, a).alignMax = b.alignMax /\ Align(b, a).endian = b.endian
         /\ Align(b, a).cells = b.cells /\ Align(b, a).error = b.error
<1> DEFINE w == AtMost(a, b.alignMax)
           x == b.pos - b.offset
           y == ((x + w - 1) \div w) * w
<1>1. w \in Widths /\ x \in Int
  BY DEF Sound, Widths, AtMost
<1>2. Align(b, a) = [b EXCEPT !.pos = y + b.offset]
  BY DEF Align, Aligned
<1> HIDE DEF w, x
<1>3. y \in Int /\ x <= y /\ y % w = 0
  BY <1>1, NextMultiple
<1> HIDE DEF y
<1>4. b.pos = x + b.offset /\ b.offset \in Int /\ b.pos \in Nat
  BY DEF x, Sound
<1>5. Align(b, a).pos = y + b.offset
  BY <1>2 DEF Sound, IsBufferRecord
<1>6. OnGrid(y + b.offset, b.offset, w)
  <2>1. (y + b.offset) - b.offset = y
    BY <1>3, <1>4
  <2> QED
    BY <1>3, <2>1 DEF OnGrid
<1>7. /\ IsBufferRecord(Align(b, a))
      /\ Align(b, a).size = b.size /\ Align(b, a).offset = b.offset
      /\ Align(b, a).alignMax = b.alignMax /\ Align(b, a).endian = b.endian
      /\ Align(b, a).cells = b.cells /\ Align(b, a).error = b.error
  BY <1>2 DEF Sound, IsBufferRecord
<1>8. y + b.offset \in Nat /\ b.pos <= y + b.offset
  BY <1>1, <1>3, <1>4
<1>9. OnGrid(Align(b, a).pos, b.offset, AtMost(a, b.alignMax))
  BY <1>5, <1>6 DEF w
<1>10. Align(b, a).pos \in Nat /\ b.pos <= Align(b, a).pos
  BY <1>5, <1>8
<1> QED
  BY <1>7, <1>9, <1>10

LEMMA AlignWrote ==
  ASSUME NEW v2, NEW b, Sound(b), NEW a \in Widths
  PROVE  Wrote(v2, b, Align(b, a))
<1> DEFINE c == Align(b, a)
<1>1. /\ IsBufferRecord(c) /\ c.pos \in Nat /\ b.pos <= c.pos
      /\ c.size = b.size /\ c.offset = b.offset /\ c.alignMax = b.alignMax
      /\ c.endian = b.endian /\ c.cells = b.cells /\ c.error = b.error
  BY AlignedFacts
<1> HIDE DEF c
<1>2. CellsBefore(c.cells, c.pos)
  BY <1>1 DEF Sound, CellsBefore, IsCell
<1>3. Sound(c)
  BY <1>1, <1>2 DEF Sound
<1>4. b.size <= c.size
  BY <1>1 DEF Sound
<1> QED
  BY <1>1, <1>3, <1>4 DEF Wrote, SameBefore, Regular, c

\* Doubling ends.
LEMMA GrownEnough ==
  ASSUME NEW size \in Nat \ {0}, NEW need \in Nat
  PROVE  Grown(size, need) \in Nat /\ size <= Grown(size, need) /\ need <= Grown(size, need)
<1> DEFINE Doubles(f) == f = [s \in Nat |-> IF need > s THEN f[2 * s] ELSE s]
           doubled == CHOOSE f : Doubles(f)
           Large(d) == {s \in Nat \ {0} : s + d >= need}
           Part(d, h) == /\ h \in [Large(d) -> Nat]
                         /\ \A s \in Large(d) : h[s] = IF need > s THEN h[2 * s] ELSE s
           T == {d \in Nat : \E h : Part(d, h)}
<1>1. 0 \in T
  <2> DEFINE h == [s \in Large(0) |-> s]
  <2>1. Part(0, h)
    OBVIOUS
  <2> QED
    BY <2>1
<1>2. ASSUME NEW d \in T PROVE d + 1 \in T
  <2>1. PICK h : Part(d, h)
    OBVIOUS
  <2> DEFINE g == [s \in Large(d + 1) |-> IF s \in Large(d) THEN h[s] ELSE h[2 * s]]
  <2>2. \A s \in Large(d + 1) : 2 * s \in Large(d)
    OBVIOUS
  <2>3. g \in [Large(d + 1) -> Nat]
    BY <2>1, <2>2
  <2>4. ASSUME NEW s \in Large(d + 1) PROVE g[s] = IF need > s THEN g[2 * s] ELSE s
    <3>1. 2 * s \in Large(d) /\ 2 * s \in Large(d + 1)
      BY <2>2
    <3>2. g[2 * s] = h[2 * s]
      BY <3>1
    <3>3. CASE s \in Large(d)
      BY <2>1, <3>2, <3>3
    <3>4. CASE s \notin Large(d)
      <4>1. need > s
        BY <3>4
      <4> QED
        BY <3>2, <3>4, <4>1
    <3> QED
      BY <3>3, <3>4
  <2> HIDE DEF g
  <2>5. Part(d + 1, g)
    BY <2>3, <2>4
  <2> QED
    BY <2>5
<1>3. T = Nat
  <2>1. T \in SUBSET Nat
    OBVIOUS
  <2> HIDE DEF T
  <2> QED
    BY <1>1, <1>2, <2>1, SetInduction
<1>4. PICK h : Part(need, h)
  BY <1>3
<1>5. Large(need) = Nat \ {0}
  OBVIOUS
<1>6. \E f : Doubles(f)
  <2> DEFINE f == [s \in Nat |-> IF s = 0 THEN 0 ELSE h[s]]
  <2>1. ASSUME NEW s \in Nat PROVE f[s] = IF need > s THEN f[2 * s] ELSE s
    BY <1>4, <1>5
  <2>2. f = [s \in Nat |-> f[s]]
    OBVIOUS
  <2> HIDE DEF f
  <2>3. Doubles(f)
    BY <2>1, <2>2
  <2> QED
    BY <2>3
<1>7. Doubles(doubled)
  BY <1>6
<1>8. Grown(size, need) = doubled[size]
  BY DEF Grown
<1> HIDE DEF doubled
<1>9. \A s \in Nat : doubled[s] = IF need > s THEN doubled[2 * s] ELSE s
  BY <1>7
<1> DEFINE Ends(s) == doubled[s] \in Nat /\ s <= doubled[s] /\ need <= doubled[s]
           U == {d \in Nat : \A s \in Large(d) : Ends(s)}
<1>10. 0 \in U
  BY <1>9
<1>11. ASSUME NEW d \in U PROVE d + 1 \in U
  <2> SUFFICES ASSUME NEW s \in Large(d + 1) PROVE Ends(s)
    OBVIOUS
  <2>1. CASE need > s
    <3>1. 2 * s \in Large(d) /\ s <= 2 * s
      BY <2>1
    <3>2. doubled[s] = doubled[2 * s]
      BY <1>9, <2>1
    <3>3. Ends(2 * s)
      BY <3>1
    <3> QED
      BY <3>1, <3>2, <3>3
  <2>2. CASE ~(need > s)
    BY <1>9, <2>2
  <2> QED
    BY <2>1, <2>2
<1>12. U = Nat
  <2>1. U \in SUBSET Nat
    OBVIOUS
  <2> HIDE DEF U
  <2> QED
    BY <1>10, <1>11, <2>1, SetInduction
<1>13. Ends(size)
  BY <1>5, <1>12
<1> QED
  BY <1>8, <1>13

LEMMA WriteInFacts ==
  ASSUME NEW b, IsBufferRecord(b), b.pos \in Nat, b.size \in Nat \ {0}, NEW n \in Nat, NEW unit, NEW endian, NEW v
  PROVE  LET w == WriteIn(b, n, unit, endian, v)
             cell == [width |-> n, unit |-> unit, endian |-> endian, v |-> v]
         IN  /\ IsBufferRecord(w) /\ w.pos = b.pos + n
             /\ w.size \in Nat \ {0} /\ b.size <= w.size /\ Room(w)
             /\ w.offset = b.offset /\ w.alignMax = b.alignMax /\ w.endian = b.endian
             /\ w.error = b.error
             /\ w.cells = IF n = 0 THEN b.cells ELSE PutCell(b.cells, b.pos, n, cell)
<1> DEFINE w == WriteIn(b, n, unit, endian, v)
           cell == [width |-> n, unit |-> unit, endian |-> endian, v |-> v]
           size == Grown(b.size, b.pos + n)
           g == [b EXCEPT !.size = size]
<1>0. b.pos \in Nat /\ b.pos + n \in Nat /\ b.size \in Nat \ {0}
  OBVIOUS
<1>1. size \in Nat /\ b.size <= size /\ b.pos + n <= size /\ b.pos \in Nat /\ b.size \in Nat \ {0}
  BY <1>0, GrownEnough
<1> HIDE DEF size
<1>2. w = IF n = 0 THEN g ELSE [g EXCEPT !.pos = b.pos + n, !.cells = PutCell(b.cells, b.pos, n, cell)]
  BY DEF WriteIn, EnsureSize, size
<1>3. IsBufferRecord(g) /\ g.size = size /\ g.pos = b.pos /\ g.offset = b.offset
      /\ g.alignMax = b.alignMax /\ g.endian = b.endian /\ g.error = b.error /\ g.cells = b.cells
  BY DEF IsBufferRecord, Sound
<1> HIDE DEF g, w, cell
<1>4. CASE n = 0
  BY <1>1, <1>2, <1>3, <1>4 DEF Room, w, cell
<1>5. CASE n # 0
  <2>1. w = [g EXCEPT !.pos = b.pos + n, !.cells = PutCell(b.cells, b.pos, n, cell)]
    BY <1>2, <1>5
  <2>2. /\ IsBufferRecord(w) /\ w.pos = b.pos + n /\ w.cells = PutCell(b.cells, b.pos, n, cell)
        /\ w.size = g.size /\ w.offset = g.offset /\ w.alignMax = g.alignMax
        /\ w.endian = g.endian /\ w.error = g.error
    BY <1>3, <2>1 DEF IsBufferRecord
  <2> QED
    BY <1>1, <1>3, <1>5, <2>2 DEF Room, w, cell
<1> QED
  BY <1>4, <1>5

\* A number, or a block of bytes, that is put where it is allowed to be.
Placed(pos, offset, n, unit, endian) ==
  n = 0 \/ endian = "any" \/ OnGrid(pos, offset, AtMost(unit, 4))

\* One cell more, in the place of those it covers.
LEMMA CellWritten ==
  ASSUME NEW old, NEW last \in Nat, CellsBefore(old, last), NEW pos \in Nat, NEW n \in Nat \ {0},
         NEW end \in Nat, last <= end, pos + n <= end, NEW unit \in Widths, NEW endian, NEW v, NEW cells,
         cells = PutCell(old, pos, n, [width |-> n, unit |-> unit, endian |-> endian, v |-> v])
  PROVE  /\ CellsBefore(cells, end)
         /\ SameBefore(old, cells, pos)
         /\ \A offset : CellsAligned(old, offset) /\ Placed(pos, offset, n, unit, endian)
                          => CellsAligned(cells, offset)
<1> DEFINE cell == [width |-> n, unit |-> unit, endian |-> endian, v |-> v]
<1>1. IsCell(cell) /\ cell.width = n /\ cell.unit = unit /\ cell.endian = endian
  BY DEF IsCell
<1>2. cells = PutCell(old, pos, n, cell)
  OBVIOUS
<1> HIDE DEF cell
<1>4. /\ DOMAIN cells = (DOMAIN old \ (pos .. pos + n - 1)) \cup {pos}
      /\ cells[pos] = cell
      /\ \A p \in DOMAIN old \ (pos .. pos + n - 1) : cells[p] = old[p]
  <2>1. pos \in pos .. pos + n - 1
    OBVIOUS
  <2> QED
    BY <1>2, <2>1 DEF PutCell
<1>5. ASSUME NEW p \in DOMAIN cells, p # pos PROVE p \in DOMAIN old /\ cells[p] = old[p]
  BY <1>4, <1>5
<1>6. \A p \in DOMAIN cells : p \in Nat
  BY <1>5 DEF CellsBefore
<1>7. ASSUME NEW p \in DOMAIN cells PROVE IsCell(cells[p]) /\ p + cells[p].width <= end
  <2>1. CASE p = pos
    BY <1>1, <1>4, <2>1
  <2>2. CASE p # pos
    <3>1. p \in DOMAIN old /\ cells[p] = old[p]
      BY <1>5, <2>2
    <3>2. IsCell(old[p]) /\ p + old[p].width <= last /\ p \in Nat
      BY <3>1 DEF CellsBefore
    <3>3. old[p].width \in Nat
      BY <3>2 DEF IsCell
    <3> QED
      BY <3>1, <3>2, <3>3
  <2> QED
    BY <2>1, <2>2
<1>8. CellsBefore(cells, end)
  BY <1>6, <1>7 DEF CellsBefore
<1>9. SameBefore(old, cells, pos)
  BY <1>4 DEF SameBefore
<1>10. ASSUME NEW offset, CellsAligned(old, offset), Placed(pos, offset, n, unit, endian)
       PROVE  CellsAligned(cells, offset)
  <2> SUFFICES ASSUME NEW p \in DOMAIN cells, cells[p].endian # "any"
               PROVE  OnGrid(p, offset, AtMost(cells[p].unit, 4))
    BY DEF CellsAligned
  <2>1. CASE p = pos
    BY <1>1, <1>4, <1>10, <2>1 DEF Placed
  <2>2. CASE p # pos
    BY <1>5, <1>10, <2>2 DEF CellsAligned
  <2> QED
    BY <2>1, <2>2
<1> QED
  BY <1>8, <1>9, <1>10

MayWrite(v2, b, n, unit, endian) ==
  v2 /\ Regular(b) => Placed(b.pos, b.offset, n, unit, endian)
Written(v2, b, n, w) == Encoded(v2, b, w) /\ Room(w) /\ w.pos = b.pos + n

LEMMA WriteInEncoded ==
  ASSUME NEW v2, NEW b, Sound(b), NEW n \in Nat, NEW unit \in Widths, NEW endian, NEW v,
         MayWrite(v2, b, n, unit, endian)
  PROVE  Written(v2, b, n, WriteIn(b, n, unit, endian, v))
<1> DEFINE w == WriteIn(b, n, unit, endian, v)
           cell == [width |-> n, unit |-> unit, endian |-> endian, v |-> v]
<1>1. /\ IsBufferRecord(w) /\ w.pos = b.pos + n
      /\ w.size \in Nat \ {0} /\ b.size <= w.size /\ Room(w)
      /\ w.offset = b.offset /\ w.alignMax = b.alignMax /\ w.endian = b.endian
      /\ w.error = b.error
      /\ w.cells = IF n = 0 THEN b.cells ELSE PutCell(b.cells, b.pos, n, cell)
  BY WriteInFacts DEF Sound
<1> HIDE DEF w
<1>2. b.pos \in Nat /\ w.pos \in Nat /\ b.pos <= w.pos
  BY <1>1 DEF Sound
<1>3. CASE n = 0
  <2>1. w.cells = b.cells /\ w.pos = b.pos
    BY <1>1, <1>2, <1>3
  <2>2. Sound(w)
    BY <1>1, <2>1 DEF Sound
  <2> QED
    BY <1>1, <1>2, <2>1, <2>2 DEF Wrote, Encoded, Written, SameBefore, Regular, w
<1>4. CASE n # 0
  <2>1. w.cells = PutCell(b.cells, b.pos, n, cell) /\ n \in Nat \ {0}
    BY <1>1, <1>4
  <2>0. CellsBefore(b.cells, b.pos)
    BY DEF Sound
  <2>2. /\ CellsBefore(w.cells, w.pos)
        /\ SameBefore(b.cells, w.cells, b.pos)
        /\ CellsAligned(b.cells, b.offset) /\ Placed(b.pos, b.offset, n, unit, endian) => CellsAligned(w.cells, b.offset)
    BY <1>1, <1>2, <2>0, <2>1, CellWritten
  <2>3. Sound(w)
    BY <1>1, <1>2, <2>2 DEF Sound
  <2>4. v2 /\ Regular(b) => Regular(w)
    BY <1>1, <2>2 DEF Regular, MayWrite
  <2> QED
    BY <1>1, <1>2, <2>2, <2>3, <2>4 DEF Wrote, Encoded, Written, w
<1> QED
  BY <1>3, <1>4

\* A check leaves the buffer as it is, but for its error.
LEMMA CheckFacts ==
  ASSUME NEW b, IsBufferRecord(b), NEW holds, NEW error
  PROVE  LET r == Check(b, holds, error)
         IN  /\ IsBufferRecord(r) /\ r.pos = b.pos /\ r.size = b.size /\ r.offset = b.offset
             /\ r.alignMax = b.alignMax /\ r.endian = b.endian /\ r.cells = b.cells
<1> DEFINE r == Check(b, holds, error)
<1>1. r = b \/ r = [b EXCEPT !.error = error]
  BY DEF Check, Fail
<1> QED
  BY <1>1 DEF IsBufferRecord

LEMMA CheckEncoded ==
  ASSUME NEW v2, NEW b, NEW w, NEW holds, NEW error, Encoded(v2, b, w)
  PROVE  Encoded(v2, b, Check(w, holds, error))
<1> DEFINE r == Check(w, holds, error)
<1>1. Sound(w)
  BY DEF Encoded, Wrote
<1>2. /\ IsBufferRecord(r) /\ r.pos = w.pos /\ r.size = w.size /\ r.offset = w.offset
      /\ r.alignMax = w.alignMax /\ r.endian = w.endian /\ r.cells = w.cells
  BY <1>1, CheckFacts DEF Sound
<1> HIDE DEF r
<1>3. Sound(r)
  BY <1>1, <1>2 DEF Sound
<1>4. Wrote(v2, b, r)
  BY <1>2, <1>3 DEF Encoded, Wrote, Regular
<1> QED
  BY <1>2, <1>4 DEF Encoded, Room, r

LEMMA CheckWritten ==
  ASSUME NEW v2, NEW b, NEW n, NEW w, NEW holds, NEW error, Written(v2, b, n, w)
  PROVE  Written(v2, b, n, Check(w, holds, error))
<1>1. Encoded(v2, b, w) /\ Room(w) /\ w.pos = b.pos + n /\ IsBufferRecord(w)
  BY DEF Written, Encoded, Wrote, Sound
<1>2. Encoded(v2, b, Check(w, holds, error))
  BY <1>1, CheckEncoded
<1>3. Check(w, holds, error).pos = w.pos /\ Check(w, holds, error).size = w.size
  BY <1>1, CheckFacts
<1> QED
  BY <1>1, <1>2, <1>3 DEF Written, Room

\* A number of 1, 2, 4 or 8 bytes, aligned.
LEMMA NumberEncoded ==
  ASSUME NEW v2, NEW b, Sound(b), NEW a \in Widths, NEW v
  PROVE  /\ Encoded(v2, b, Write(Align(b, a), a, v)) /\ Room(Write(Align(b, a), a, v))
         /\ Write(Align(b, a), a, v).pos = Align(b, a).pos + a
<1> DEFINE c == Align(b, a)
           e == IF a = 1 THEN "any" ELSE c.endian
           w == WriteIn(c, a, a, e, v)
           r == Check(w, InRange(a, v), "struct.error")
<1>1. Wrote(v2, b, c) /\ Sound(c)
  BY AlignWrote DEF Wrote
<1>2. OnGrid(c.pos, b.offset, AtMost(a, b.alignMax)) /\ c.offset = b.offset /\ c.alignMax = b.alignMax
  BY AlignedFacts
<1>3. Write(c, a, v) = r
  BY DEF Write
<1> HIDE DEF c, e
<1>4. a \in Nat
  BY DEF Widths
<1>5. MayWrite(v2, c, a, a, e)
  BY <1>2 DEF Regular, Placed, MayWrite
<1>6. Written(v2, c, a, r)
  BY <1>1, <1>4, <1>5, WriteInEncoded, CheckWritten
<1> HIDE DEF r
<1>7. Encoded(v2, b, r)
  BY <1>1, <1>6, WroteMore DEF Encoded, Written
<1> QED
  BY <1>3, <1>6, <1>7 DEF c, Written

\* A byte goes anywhere.
LEMMA ByteEncoded ==
  ASSUME NEW v2, NEW b, Sound(b), NEW v
  PROVE  Encoded(v2, b, Write(b, 1, v)) /\ Room(Write(b, 1, v)) /\ Write(b, 1, v).pos = b.pos + 1
<1> DEFINE holds == InRange(1, v)
           error == "struct.error"
<1>1. Write(b, 1, v) = Check(WriteIn(b, 1, 1, "any", v), holds, error)
  BY DEF Write
<1> HIDE DEF holds, error
<1>2. 1 \in Widths /\ 1 \in Nat /\ MayWrite(v2, b, 1, 1, "any")
  BY DEF Widths, Placed, MayWrite
<1> DEFINE n == 1
           e == "any"
<1>3. n \in Nat /\ n \in Widths /\ MayWrite(v2, b, n, n, e)
  BY <1>2
<1> HIDE DEF n, e
<1>4. Written(v2, b, n, Check(WriteIn(b, n, n, e, v), holds, error))
  BY <1>3, WriteInEncoded, CheckWritten
<1> QED
  BY <1>1, <1>4 DEF n, e, Written

\* A number where the buffer stands, if that is on its grid.
LEMMA WriteEncoded ==
  ASSUME NEW v2, NEW b, Sound(b), NEW n \in Widths, NEW v,
         v2 /\ Regular(b) => OnGrid(b.pos, b.offset, AtMost(n, 4))
  PROVE  Encoded(v2, b, Write(b, n, v)) /\ Room(Write(b, n, v)) /\ Write(b, n, v).pos = b.pos + n
<1> DEFINE e == IF n = 1 THEN "any" ELSE b.endian
           w == Check(WriteIn(b, n, n, e, v), InRange(n, v), "struct.error")
<1>1. Write(b, n, v) = w
  BY DEF Write
<1>2. n \in Nat /\ MayWrite(v2, b, n, n, e)
  BY DEF Widths, Placed, MayWrite
<1> HIDE DEF e
<1>3. Written(v2, b, n, w)
  BY <1>2, WriteInEncoded, CheckWritten
<1> HIDE DEF w
<1> QED
  BY <1>1, <1>3 DEF Written

\* Bytes go anywhere.
LEMMA BytesEncoded ==
  ASSUME NEW v2, NEW b, Sound(b), NEW n \in Nat, NEW v
  PROVE  Encoded(v2, b, WriteBytes(b, n, v)) /\ Room(WriteBytes(b, n, v))
<1> DEFINE e == "any"
           u == 1
<1>1. WriteBytes(b, n, v) = WriteIn(b, n, u, e, v)
  BY DEF WriteBytes
<1>2. u \in Widths /\ MayWrite(v2, b, n, u, e)
  BY DEF Widths, Placed, MayWrite
<1> HIDE DEF e, u
<1>3. Written(v2, b, n, WriteIn(b, n, u, e, v))
  BY <1>2, WriteInEncoded
<1> QED
  BY <1>1, <1>3 DEF Written

\* A block of numbers of one width.
LEMMA BlockEncoded ==
  ASSUME NEW v2, NEW b, Sound(b), NEW n \in Nat, NEW a \in Widths, NEW v
  PROVE  /\ Encoded(v2, b, WriteMulti(Align(b, a), n, a, v))
         /\ Room(WriteMulti(Align(b, a), n, a, v))
<1> DEFINE c == Align(b, a)
           e == IF a = 1 THEN "any" ELSE c.endian
           holds == \A i \in DOMAIN v : InRange(a, v[i])
           w == Check(WriteIn(c, n, a, e, v), holds, "struct.error")
<1>1. Wrote(v2, b, c) /\ Sound(c)
  BY AlignWrote DEF Wrote
<1>2. OnGrid(c.pos, b.offset, AtMost(a, b.alignMax)) /\ c.offset = b.offset /\ c.alignMax = b.alignMax
  BY AlignedFacts
<1>3. WriteMulti(Align(b, a), n, a, v) = w
  BY DEF WriteMulti
<1> HIDE DEF c, e, holds
<1>4. MayWrite(v2, c, n, a, e)
  BY <1>2 DEF Regular, Placed, MayWrite
<1>5. Written(v2, c, n, w)
  BY <1>1, <1>4, WriteInEncoded, CheckWritten
<1> HIDE DEF w
<1>6. Encoded(v2, b, w)
  BY <1>1, <1>5, WroteMore DEF Encoded, Written
<1> QED
  BY <1>3, <1>5, <1>6 DEF Written

\* A size that is written back to its place.
LEMMA PatchEncoded ==
  ASSUME NEW v2, NEW b, NEW c, Sound(b), Wrote(v2, b, c), NEW q \in Nat, b.pos <= q, q + 4 <= c.pos,
         NEW v, v2 /\ Regular(b) => OnGrid(q, b.offset, 4)
  PROVE  Wrote(v2, b, Patch(c, q, v)) /\ (Room(c) => Room(Patch(c, q, v)))
         /\ Patch(c, q, v).pos = c.pos
<1> DEFINE s == Seek(c, q)
           n == 4
           w == WriteIn(s, n, n, s.endian, v)
           r == Seek(w, c.pos)
           cell == [width |-> n, unit |-> n, endian |-> s.endian, v |-> v]
<1>1. Patch(c, q, v) = r
  BY DEF Patch, Write, Check, InRange
<1>2. Sound(c)
  BY DEF Wrote
<1>3. /\ IsBufferRecord(s) /\ s.pos = q /\ s.size = c.size /\ s.offset = c.offset
      /\ s.alignMax = c.alignMax /\ s.endian = c.endian /\ s.cells = c.cells
  BY <1>2 DEF Seek, IsBufferRecord, Sound
<1>4. n \in Nat /\ n # 0 /\ s.pos \in Nat /\ s.size \in Nat \ {0} /\ n \in Widths
  BY <1>2, <1>3 DEF Sound, Widths
<1> HIDE DEF s, n, r
<1>5. /\ IsBufferRecord(w) /\ w.size \in Nat \ {0} /\ s.size <= w.size
      /\ w.offset = s.offset /\ w.alignMax = s.alignMax /\ w.endian = s.endian
      /\ w.cells = IF n = 0 THEN s.cells ELSE PutCell(s.cells, s.pos, n, cell)
  BY <1>3, <1>4, WriteInFacts
<1>6. w.cells = PutCell(c.cells, q, n, cell)
  BY <1>3, <1>4, <1>5
<1> HIDE DEF w
<1>7. /\ IsBufferRecord(r) /\ r.pos = c.pos /\ r.size = w.size /\ r.offset = c.offset
      /\ r.alignMax = c.alignMax /\ r.endian = c.endian /\ r.cells = w.cells
  BY <1>3, <1>5 DEF r, Seek, IsBufferRecord
<1>8. n \in Nat \ {0} /\ c.pos \in Nat /\ CellsBefore(c.cells, c.pos) /\ q + n <= c.pos /\ c.pos <= c.pos
  BY <1>2, <1>4 DEF Sound, n
<1>9. /\ CellsBefore(w.cells, c.pos) /\ SameBefore(c.cells, w.cells, q)
      /\ \A offset : CellsAligned(c.cells, offset) /\ Placed(q, offset, n, n, s.endian)
                       => CellsAligned(w.cells, offset)
  BY <1>4, <1>6, <1>8, CellWritten
<1>10. c.size <= r.size /\ r.size \in Nat \ {0}
  BY <1>3, <1>5, <1>7
<1>11. Sound(r)
  BY <1>2, <1>7, <1>9, <1>10 DEF Sound
<1>12. b.pos \in Nat /\ b.size \in Nat /\ c.size \in Nat /\ b.size <= c.size
  BY <1>2 DEF Sound, Wrote
<1>13. SameBefore(b.cells, r.cells, b.pos)
  <2> SUFFICES ASSUME NEW p \in Nat, p < b.pos
               PROVE  /\ p \in DOMAIN r.cells <=> p \in DOMAIN b.cells
                      /\ p \in DOMAIN b.cells => r.cells[p] = b.cells[p]
    BY DEF SameBefore
  <2>1. /\ p \in DOMAIN c.cells <=> p \in DOMAIN b.cells
        /\ p \in DOMAIN b.cells => c.cells[p] = b.cells[p]
    BY DEF Wrote, SameBefore
  <2>2. p < q
    BY <1>12
  <2>3. /\ p \in DOMAIN w.cells <=> p \in DOMAIN c.cells
        /\ p \in DOMAIN c.cells => w.cells[p] = c.cells[p]
    BY <1>9, <2>2 DEF SameBefore
  <2> QED
    BY <1>7, <2>1, <2>3
<1>14. ASSUME v2, Regular(b) PROVE Regular(r)
  <2>1. Regular(c) /\ c.offset = b.offset
    BY <1>14 DEF Wrote
  <2>2. OnGrid(q, c.offset, AtMost(n, 4))
    BY <1>14, <2>1 DEF AtMost, n
  <2>3. CellsAligned(w.cells, c.offset)
    BY <1>9, <2>1, <2>2 DEF Regular, Placed
  <2> QED
    BY <1>7, <2>1, <2>3 DEF Regular
<1>15. c.pos \in Nat /\ b.pos <= c.pos
  BY <1>8 DEF Wrote
<1>16. Wrote(v2, b, r)
  <2>1. r.offset = b.offset /\ r.alignMax = b.alignMax /\ r.endian = b.endian
    BY <1>7 DEF Wrote
  <2>2. b.pos <= r.pos /\ b.size <= r.size
    BY <1>7, <1>10, <1>12, <1>15
  <2> QED
    BY <1>11, <1>13, <1>14, <2>1, <2>2 DEF Wrote
<1>17. Room(c) => Room(r)
  BY <1>7, <1>10, <1>12, <1>15 DEF Room
<1> QED
  BY <1>1, <1>7, <1>16, <1>17

\* What stands behind a place for its size.
LEMMA SizedEncoded ==
  ASSUME NEW v2, NEW b, Sound(b), NEW start, start = Write(Align(b, 4), 4, 0), NEW done,
         Wrote(v2, start, done), NEW v
  PROVE  /\ Wrote(v2, b, Patch(done, start.pos - 4, v))
         /\ Room(done) => Room(Patch(done, start.pos - 4, v))
<1> DEFINE a == 4
           z == 0
           q == Align(b, a).pos
<1>1. a \in Widths
  BY DEF Widths
<1>2. start = Write(Align(b, a), a, z)
  OBVIOUS
<1> HIDE DEF z
<1>3. OnGrid(q, b.offset, AtMost(a, b.alignMax)) /\ q \in Nat /\ b.pos <= q
  BY <1>1, AlignedFacts
<1>4. OnGrid(q, b.offset, 4)
  BY <1>3 DEF Sound, AtMost
<1> HIDE DEF a
<1>5. Encoded(v2, b, start) /\ start.pos = q + a
  BY <1>1, <1>2, NumberEncoded
<1> HIDE DEF q
<1>6. Wrote(v2, b, done)
  BY <1>5, WroteMore DEF Encoded
<1>7. start.pos \in Nat /\ done.pos \in Nat /\ start.pos <= done.pos
  BY <1>5 DEF Encoded, Wrote, Sound
<1>8. q + 4 <= done.pos /\ start.pos - 4 = q
  BY <1>3, <1>5, <1>7 DEF a
<1> QED
  BY <1>3, <1>4, <1>6, <1>8, PatchEncoded

(***************************************************************************)
(* Machines without parts.                                                 *)
(***************************************************************************)
LEMMA SumOfType ==
  ASSUME NEW s \in Seq(Nat)
  PROVE  SumOf(s) \in Nat /\ ((\A i \in 1 .. Len(s) : s[i] > 0) => Len(s) <= SumOf(s))
<1> DEFINE N == Len(s)
           Sums(f) == f = [i \in 0 .. N |-> IF i = 0 THEN 0 ELSE f[i - 1] + s[i]]
           sum == CHOOSE f : Sums(f)
           X == Nat
           step == [x \in (1 .. N) \X X |-> x[2] + s[x[1]]]
           base == 0
<1>0. N \in Nat /\ \A i \in 1 .. N : s[i] \in Nat
  OBVIOUS
<1>1. step \in Steps(N, X) /\ base \in X
  BY <1>0 DEF Steps
<1>2. \A i \in 1 .. N, x \in X : step[<<i, x>>] = x + s[i]
  OBVIOUS
<1> HIDE DEF N, X, step, base
<1>3. PICK f : Follows(f, step, base, N, X)
  BY <1>0, <1>1, StepByStep
<1>4. f \in [0 .. N -> X] /\ f[0] = base /\ \A i \in 1 .. N : f[i] = step[<<i, f[i - 1]>>]
  BY <1>3 DEF Follows
<1>5. ASSUME NEW i \in 0 .. N PROVE f[i] = IF i = 0 THEN 0 ELSE f[i - 1] + s[i]
  <2>1. CASE i = 0
    BY <1>4, <2>1 DEF base
  <2>2. CASE i # 0
    <3>1. i \in 1 .. N /\ i - 1 \in 0 .. N
      BY <1>0, <2>2
    <3>2. f[i - 1] \in X
      BY <1>4, <3>1
    <3> QED
      BY <1>2, <1>4, <2>2, <3>1, <3>2
  <2> QED
    BY <2>1, <2>2
<1>6. f = [i \in 0 .. N |-> f[i]]
  BY <1>4
<1>7. \E g : Sums(g)
  <2>1. Sums(f)
    BY <1>5, <1>6
  <2> QED
    BY <2>1
<1>8. Sums(sum)
  BY <1>7
<1>9. SumOf(s) = sum[N]
  BY DEF SumOf, N
<1> HIDE DEF sum
<1>10. \A i \in 0 .. N : sum[i] = IF i = 0 THEN 0 ELSE sum[i - 1] + s[i]
  BY <1>8
<1> DEFINE Positive == \A i \in 1 .. N : s[i] > 0
<1> HIDE DEF Positive
<1> DEFINE T == {i \in Nat : sum[i] \in Nat /\ (Positive => i <= sum[i])}
<1>11. 0 \in T
  BY <1>0, <1>10
<1>12. ASSUME NEW i \in 0 .. N - 1, i \in T PROVE i + 1 \in T
  <2>1. i + 1 \in 0 .. N /\ i + 1 \in 1 .. N /\ i + 1 # 0 /\ (i + 1) - 1 = i
    BY <1>0
  <2>2. sum[i + 1] = sum[i] + s[i + 1]
    BY <1>10, <2>1
  <2>3. s[i + 1] \in Nat /\ (Positive => s[i + 1] > 0)
    BY <1>0, <2>1 DEF Positive
  <2> QED
    BY <1>12, <2>2, <2>3
<1> HIDE DEF T
<1>13. 0 .. N \subseteq T
  BY <1>0, <1>11, <1>12, IntervalInduction
<1>14. sum[N] \in Nat /\ (Positive => N <= sum[N])
  BY <1>0, <1>13 DEF T
<1> QED
  BY <1>9, <1>14 DEF N, Positive

LEMMA EncodedString ==
  ASSUME NEW v2, NEW m, NEW b, Sound(b), NEW v \in Seq(Nat), Bounded(v, m.bound)
  PROVE  Encoded(v2, b, SerializeString(m, b, v))
<1> DEFINE a == 4
           n == SumOf(v)
           x == n + 1
           z == 0
           sized == Write(Align(b, a), a, x)
           bytes == WriteBytes(sized, n, v)
<1>1. SerializeString(m, b, v) = Write(bytes, 1, z)
  BY DEF SerializeString, Check, Bounded
<1>2. a \in Widths /\ n \in Nat
  BY SumOfType DEF Widths
<1> HIDE DEF a, n, x, z
<1>3. Encoded(v2, b, sized)
  BY <1>2, NumberEncoded
<1> HIDE DEF sized
<1>4. Encoded(v2, sized, bytes)
  BY <1>2, <1>3, BytesEncoded DEF Encoded, Wrote
<1> HIDE DEF bytes
<1>5. Encoded(v2, bytes, Write(bytes, 1, z))
  BY <1>4, ByteEncoded DEF Encoded, Wrote
<1>6. Encoded(v2, b, bytes)
  BY <1>3, <1>4, EncodedMore
<1> QED
  BY <1>1, <1>5, <1>6, EncodedMore

LEMMA EncodedBytes ==
  ASSUME NEW v2, NEW b, Sound(b), NEW v, Len(v) \in Nat
  PROVE  Encoded(v2, b, SerializeBytes(b, v))
<1> DEFINE a == 4
           n == Len(v)
           sized == Write(Align(b, a), a, n)
<1>1. SerializeBytes(b, v) = WriteBytes(sized, n, v)
  BY DEF SerializeBytes
<1>2. a \in Widths /\ n \in Nat
  BY DEF Widths
<1> HIDE DEF a, n
<1>3. Encoded(v2, b, sized)
  BY <1>2, NumberEncoded
<1> HIDE DEF sized
<1>4. Encoded(v2, sized, WriteBytes(sized, n, v))
  BY <1>2, <1>3, BytesEncoded DEF Encoded, Wrote
<1> QED
  BY <1>1, <1>3, <1>4, EncodedMore

LEMMA EncodedPlainArray ==
  ASSUME NEW v2, NEW m, m.size \in Widths, m.len \in Nat, NEW b, Sound(b), NEW v, Len(v) = m.len
  PROVE  Encoded(v2, b, SerializePlainArray(m, b, v))
<1> DEFINE n == m.size * m.len
<1>1. SerializePlainArray(m, b, v) = WriteMulti(Align(b, m.size), n, m.size, v)
  BY DEF SerializePlainArray, Check
<1>2. n \in Nat
  BY DEF Widths
<1> HIDE DEF n
<1> QED
  BY <1>1, <1>2, BlockEncoded

LEMMA EncodedPlainSequence ==
  ASSUME NEW v2, NEW m, m.size \in Widths, NEW b, Sound(b), NEW v, Len(v) \in Nat, Bounded(v, m.max)
  PROVE  Encoded(v2, b, SerializePlainSequence(m, b, v))
<1> DEFINE a == 4
           k == Len(v)
           n == m.size * k
           counted == Write(Align(b, a), a, k)
           block == WriteMulti(Align(counted, m.size), n, m.size, v)
<1>1. SerializePlainSequence(m, b, v) = IF v = <<>> THEN counted ELSE block
  BY DEF SerializePlainSequence, WithinMax, Check, Bounded
<1>2. n \in Nat /\ a \in Widths
  BY DEF Widths
<1> HIDE DEF n, a, k
<1>3. Encoded(v2, b, counted)
  BY <1>2, NumberEncoded
<1> HIDE DEF counted
<1>4. Encoded(v2, counted, block)
  BY <1>2, <1>3, BlockEncoded DEF Encoded, Wrote
<1> QED
  BY <1>1, <1>3, <1>4, EncodedMore

(***************************************************************************)
(* Machines that call other ones.                                          *)
(***************************************************************************)

\* A machine that writes any of these values, into any good buffer.
Encodes(m, V, v2) ==
  \A b, v, kind, enabled :
    Sound(b) /\ v \in V => Encoded(v2, b, Serialize(m, b, v, kind, enabled))

LEMMA EncodedSound ==
  ASSUME NEW v2, NEW b, NEW r, Sound(b), Wrote(v2, b, r)
  PROVE  Sound(r)
BY DEF Wrote

\* The buffers on the way through a sequence.
EachRuns(after, m, b, s, kind, enabled) ==
  /\ after[0] = b
  /\ \A i \in 1 .. Len(s) : after[i] = Serialize(m, after[i - 1], s[i], kind, enabled)
  /\ Each(m, b, s, kind, enabled) = after[Len(s)]

LEMMA EachSteps ==
  ASSUME NEW m, NEW b, NEW s, Len(s) \in Nat, NEW kind, NEW enabled
  PROVE  \E after : EachRuns(after, m, b, s, kind, enabled)
<1> DEFINE N == Len(s)
           Step(x, i) == Serialize(m, x, s[i], kind, enabled)
           Runs(f, k) == f = [i \in 0 .. k |-> IF i = 0 THEN b ELSE Step(f[i - 1], i)]
           T == {k \in Nat : \E f : Runs(f, k)}
           after == CHOOSE f : Runs(f, N)
<1>1. Each(m, b, s, kind, enabled) = after[N] /\ N \in Nat
  BY DEF Each
<1> HIDE DEF N
<1>2. 0 \in T
  <2> DEFINE g == [i \in 0 .. 0 |-> b]
  <2>1. Runs(g, 0)
    OBVIOUS
  <2> QED
    BY <2>1
<1>3. ASSUME NEW k \in T PROVE k + 1 \in T
  <2>1. PICK f : Runs(f, k)
    OBVIOUS
  <2> DEFINE g == [i \in 0 .. k + 1 |-> IF i <= k THEN f[i] ELSE Step(f[k], i)]
  <2> HIDE DEF Step
  <2>2. \A i \in 0 .. k : f[i] = IF i = 0 THEN b ELSE Step(f[i - 1], i)
    BY <2>1
  <2>3. ASSUME NEW i \in 0 .. k + 1 PROVE g[i] = IF i = 0 THEN b ELSE Step(g[i - 1], i)
    <3>1. CASE i <= k
      <4>1. g[i] = f[i] /\ (i # 0 => g[i - 1] = f[i - 1])
        BY <3>1
      <4> QED
        BY <2>2, <3>1, <4>1
    <3>2. CASE i = k + 1
      BY <3>2
    <3> QED
      BY <3>1, <3>2
  <2>4. g = [i \in 0 .. k + 1 |-> g[i]]
    OBVIOUS
  <2> HIDE DEF g
  <2>5. Runs(g, k + 1)
    BY <2>3, <2>4
  <2>6. k + 1 \in Nat
    OBVIOUS
  <2> HIDE DEF Runs
  <2> QED
    BY <2>5, <2>6
<1>4. T = Nat
  <2>1. T \in SUBSET Nat
    OBVIOUS
  <2> HIDE DEF T
  <2> QED
    BY <1>2, <1>3, <2>1, SetInduction
<1>5. Runs(after, N)
  BY <1>1, <1>4
<1> HIDE DEF after, Step
<1>6. \A i \in 0 .. N : after[i] = IF i = 0 THEN b ELSE Step(after[i - 1], i)
  BY <1>5
<1>7. after[0] = b /\ \A i \in 1 .. N : after[i] = Step(after[i - 1], i)
  BY <1>1, <1>6
<1>8. EachRuns(after, m, b, s, kind, enabled)
  BY <1>1, <1>7 DEF N, Step, EachRuns
<1> QED
  BY <1>8

LEMMA EachEncoded ==
  ASSUME NEW v2, NEW m, NEW V, Encodes(m, V, v2), NEW s \in Seq(V), NEW b, Sound(b), NEW kind, NEW enabled
  PROVE  Encoded(v2, b, Each(m, b, s, kind, enabled))
<1>1. Len(s) \in Nat /\ \A i \in 1 .. Len(s) : s[i] \in V
  OBVIOUS
<1>6. PICK after : EachRuns(after, m, b, s, kind, enabled)
  BY <1>1, EachSteps
<1>2. /\ after[0] = b
      /\ \A i \in 1 .. Len(s) : after[i] = Serialize(m, after[i - 1], s[i], kind, enabled)
      /\ Each(m, b, s, kind, enabled) = after[Len(s)]
  BY <1>6 DEF EachRuns
<1> DEFINE T == {i \in Nat : Encoded(v2, b, after[i])}
<1>3. 0 \in T
  BY <1>2, WroteNothing
<1>4. ASSUME NEW i \in 0 .. Len(s) - 1, i \in T PROVE i + 1 \in T
  <2>1. i + 1 \in 1 .. Len(s) /\ (i + 1) - 1 = i
    BY <1>1
  <2>2. after[i + 1] = Serialize(m, after[i], s[i + 1], kind, enabled) /\ s[i + 1] \in V
    BY <1>1, <1>2, <2>1
  <2>3. Encoded(v2, b, after[i]) /\ Sound(after[i])
    BY <1>4, EncodedSound DEF Encoded
  <2>4. Encoded(v2, after[i], after[i + 1])
    BY <2>2, <2>3 DEF Encodes
  <2>5. Encoded(v2, b, after[i + 1])
    BY <2>3, <2>4, EncodedMore
  <2> QED
    BY <1>4, <2>5
<1> HIDE DEF T
<1>5. 0 .. Len(s) \subseteq T
  BY <1>1, <1>3, <1>4, IntervalInduction
<1> QED
  BY <1>1, <1>2, <1>5 DEF T

LEMMA EncodedArray ==
  ASSUME NEW v2, NEW m, NEW V, Encodes(m.of, V, v2), NEW v \in Seq(V), Len(v) = m.len,
         NEW b, Sound(b), NEW kind, NEW enabled
  PROVE  Encoded(v2, b, SerializeArray(m, b, v, kind, enabled))
<1> DEFINE a == 4
           z == 0
           sized == Write(Align(b, a), a, z)
           start == IF m.header THEN sized ELSE b
           done == Each(m.of, start, v, kind, enabled)
           size == done.pos - start.pos
<1>1. SerializeArray(m, b, v, kind, enabled) = IF m.header THEN Patch(done, start.pos - 4, size) ELSE done
  BY DEF SerializeArray, Check
<1>2. a \in Widths /\ Sound(b)
  BY DEF Widths
<1> HIDE DEF a, z
<1>3. Encoded(v2, b, sized) /\ Room(sized)
  BY <1>2, NumberEncoded
<1>4. Sound(start)
  BY <1>3, EncodedSound DEF Encoded
<1> HIDE DEF start
<1>5. Encoded(v2, start, done)
  BY <1>4, EachEncoded
<1> HIDE DEF done, size
<1>6. CASE m.header
  <2>1. start = sized
    BY <1>6 DEF start
  <2>2. Wrote(v2, start, done) /\ Room(done)
    BY <1>3, <1>5, <2>1 DEF Encoded
  <2>3. start = Write(Align(b, 4), 4, 0)
    BY <2>1 DEF a, z
  <2>4. /\ Wrote(v2, b, Patch(done, start.pos - 4, size))
        /\ Room(done) => Room(Patch(done, start.pos - 4, size))
    BY <1>2, <2>2, <2>3, SizedEncoded
  <2> QED
    BY <1>1, <1>6, <2>2, <2>4 DEF Encoded
<1>7. CASE ~m.header
  BY <1>1, <1>5, <1>7 DEF start
<1> QED
  BY <1>6, <1>7

LEMMA EncodedSequence ==
  ASSUME NEW v2, NEW m, NEW V, Encodes(m.of, V, v2), NEW v \in Seq(V), Bounded(v, m.max),
         NEW b, Sound(b), NEW kind, NEW enabled
  PROVE  Encoded(v2, b, SerializeSequence(m, b, v, kind, enabled))
<1> DEFINE a == 4
           z == 0
           k == Len(v)
           aligned == Align(b, a)
           sized == Write(aligned, a, z)
           start == IF m.header THEN sized ELSE aligned
           counted == Write(start, a, k)
           done == Each(m.of, counted, v, kind, enabled)
           size == done.pos - start.pos
<1>1. SerializeSequence(m, b, v, kind, enabled) = IF m.header THEN Patch(done, start.pos - 4, size) ELSE done
  BY DEF SerializeSequence, WithinMax, Check, Bounded
<1>2. a \in Widths /\ Sound(b)
  BY DEF Widths
<1> HIDE DEF a, z, k
<1>3. Encoded(v2, b, sized) /\ Room(sized) /\ sized.pos = aligned.pos + a
  BY <1>2, NumberEncoded
<1>4. OnGrid(aligned.pos, b.offset, AtMost(a, b.alignMax)) /\ aligned.pos \in Nat
  BY <1>2, AlignedFacts
<1>5. CASE m.header
  <2>1. start = sized
    BY <1>5
  <2> HIDE DEF start, aligned
  <2>2. start.offset = b.offset /\ start.alignMax = b.alignMax /\ Sound(start)
    BY <1>3, <2>1 DEF Encoded, Wrote
  <2>3. ASSUME Regular(start) PROVE OnGrid(start.pos, start.offset, AtMost(a, 4))
    <3>1. OnGrid(aligned.pos, b.offset, 4)
      BY <1>4, <2>2, <2>3 DEF Regular, a, AtMost
    <3>2. b.offset \in Int
      BY <1>2 DEF Sound
    <3>3. OnGrid(aligned.pos + 4, b.offset, 4)
      BY <1>4, <3>1, <3>2 DEF OnGrid
    <3> QED
      BY <1>3, <2>1, <2>2, <3>3 DEF a, AtMost
  <2>4. Encoded(v2, start, counted)
    BY <1>2, <2>2, <2>3, WriteEncoded
  <2>5. Sound(start)
    BY <1>3, <2>1, EncodedSound DEF Encoded
  <2> HIDE DEF counted
  <2>6. Sound(counted)
    BY <2>4, <2>5, EncodedSound DEF Encoded
  <2>7. Encoded(v2, counted, done)
    BY <2>6, EachEncoded
  <2> HIDE DEF done
  <2>8. Encoded(v2, start, done)
    BY <2>2, <2>4, <2>7, EncodedMore
  <2>9. Wrote(v2, start, done) /\ Room(done)
    BY <1>3, <2>1, <2>8 DEF Encoded
  <2>10. start = Write(Align(b, 4), 4, 0)
    BY <2>1 DEF a, z, aligned
  <2> HIDE DEF size
  <2>11. /\ Wrote(v2, b, Patch(done, start.pos - 4, size))
         /\ Room(done) => Room(Patch(done, start.pos - 4, size))
    BY <1>2, <2>9, <2>10, SizedEncoded
  <2> QED
    BY <1>1, <1>5, <2>9, <2>11 DEF Encoded
<1>6. CASE ~m.header
  <2>1. counted = Write(Align(b, a), a, k)
    BY <1>6
  <2> HIDE DEF counted
  <2>2. Encoded(v2, b, counted)
    BY <1>2, <2>1, NumberEncoded
  <2>3. Sound(counted)
    BY <2>2, EncodedSound DEF Encoded
  <2>4. Encoded(v2, counted, done)
    BY <2>3, EachEncoded
  <2> HIDE DEF done
  <2> QED
    BY <1>1, <1>2, <1>6, <2>2, <2>4, EncodedMore
<1> QED
  BY <1>5, <1>6

\* In XCDR1 the origin of a part moves, and comes back.
LEMMA OriginMoved ==
  ASSUME NEW v2, ~v2, NEW b, Sound(b), NEW o \in Int
  PROVE  /\ Sound(SetAlignOffset(b, o)) /\ SetAlignOffset(b, o).pos = b.pos
         /\ \A r : Encoded(v2, SetAlignOffset(b, o), r) => Encoded(v2, b, SetAlignOffset(r, b.offset))
<1> DEFINE c == SetAlignOffset(b, o)
<1>1. /\ IsBufferRecord(c) /\ c.pos = b.pos /\ c.size = b.size /\ c.offset = o
      /\ c.alignMax = b.alignMax /\ c.endian = b.endian /\ c.cells = b.cells
  BY DEF SetAlignOffset, IsBufferRecord, Sound
<1> HIDE DEF c
<1>2. Sound(c)
  BY <1>1 DEF Sound
<1>3. ASSUME NEW r, Encoded(v2, c, r) PROVE Encoded(v2, b, SetAlignOffset(r, b.offset))
  <2> DEFINE d == SetAlignOffset(r, b.offset)
  <2>1. Sound(r) /\ b.offset \in Int
    BY <1>3 DEF Encoded, Wrote, Sound
  <2>2. /\ IsBufferRecord(d) /\ d.pos = r.pos /\ d.size = r.size /\ d.offset = b.offset
        /\ d.alignMax = r.alignMax /\ d.endian = r.endian /\ d.cells = r.cells
    BY <2>1 DEF SetAlignOffset, IsBufferRecord, Sound
  <2> HIDE DEF d
  <2>3. Sound(d)
    BY <2>1, <2>2 DEF Sound
  <2>4. Wrote(v2, b, d)
    BY <1>1, <1>3, <2>2, <2>3 DEF Encoded, Wrote
  <2>5. Room(b) => Room(d)
    BY <1>1, <1>3, <2>2 DEF Encoded, Room
  <2> QED
    BY <2>4, <2>5 DEF Encoded, d
<1> QED
  BY <1>1, <1>2, <1>3 DEF c

LEMMA EncodedOptional ==
  ASSUME NEW m, NEW v2 \in BOOLEAN, m.v2 = v2, NEW V, Encodes(m.of, V, v2), NEW v, v \in {None} \cup V,
         NEW b, Sound(b), NEW kind
  PROVE  Encoded(v2, b, SerializeOptional(m, b, v, kind))
<1> DEFINE z == 0
           x == 1
           never == "Never"
<1>1. Sound(b) /\ (v = None \/ v \in V)
  OBVIOUS
<1>0. CASE kind # "DataSample"
  <2> DEFINE holds == FALSE
             error == "AssertionError"
  <2>1. SerializeOptional(m, b, v, kind) = Check(b, holds, error)
    BY <1>0 DEF SerializeOptional, Check
  <2> HIDE DEF holds, error
  <2> QED
    BY <2>1, WroteNothing, CheckEncoded
<1>2. CASE v2 /\ kind = "DataSample"
  <2>1. SerializeOptional(m, b, v, kind)
          = IF v = None THEN Write(b, 1, z) ELSE Serialize(m.of, Write(b, 1, x), v, kind, never)
    BY <1>2 DEF SerializeOptional
  <2> HIDE DEF z, x, never
  <2>2. Encoded(v2, b, Write(b, 1, z)) /\ Encoded(v2, b, Write(b, 1, x))
    BY <1>1, ByteEncoded
  <2>3. Sound(Write(b, 1, x))
    BY <2>2, EncodedSound DEF Encoded
  <2>4. v # None => Encoded(v2, Write(b, 1, x), Serialize(m.of, Write(b, 1, x), v, kind, never))
    BY <1>1, <2>3 DEF Encodes
  <2> QED
    BY <1>1, <2>1, <2>2, <2>4, EncodedMore
<1>3. CASE ~v2 /\ kind = "DataSample"
  <2> DEFINE a == 4
             h == 2
             eight == 8
             aligned == Align(b, a)
             pid == Write(aligned, h, ExtendedPid)
             short == Write(pid, h, eight)
             header == Write(short, a, m.id)
             start == Write(header, a, z)
             inner == SetAlignOffset(start, start.pos)
             r == Serialize(m.of, inner, v, kind, never)
             done == SetAlignOffset(r, start.offset)
             size == done.pos - start.pos
  <2>1. SerializeOptional(m, b, v, kind) = IF v = None THEN start ELSE Patch(done, header.pos, size)
    BY <1>3 DEF SerializeOptional
  <2>2. a \in Widths /\ h \in Widths
    BY DEF Widths
  <2> HIDE DEF a, h, z, eight, never
  <2>3. Wrote(v2, b, aligned) /\ Sound(aligned)
    BY <1>1, <2>2, AlignWrote DEF Wrote
  <2> HIDE DEF aligned
  <2>4. Encoded(v2, aligned, pid) /\ Room(pid) /\ Sound(pid)
    BY <1>3, <2>2, <2>3, WriteEncoded DEF Encoded, Wrote
  <2> HIDE DEF pid
  <2>5. Encoded(v2, pid, short) /\ Room(short) /\ Sound(short)
    BY <1>3, <2>2, <2>4, WriteEncoded DEF Encoded, Wrote
  <2> HIDE DEF short
  <2>6. Encoded(v2, short, header) /\ Room(header) /\ Sound(header)
    BY <1>3, <2>2, <2>5, WriteEncoded DEF Encoded, Wrote
  <2> HIDE DEF header
  <2>7. Encoded(v2, header, start) /\ Room(start) /\ Sound(start) /\ start.pos = header.pos + a
    BY <1>3, <2>2, <2>6, WriteEncoded DEF Encoded, Wrote
  <2> HIDE DEF start
  <2>8. Wrote(v2, b, pid)
    BY <1>1, <2>3, <2>4, WroteMore DEF Encoded
  <2>9. Wrote(v2, b, short)
    BY <1>1, <2>5, <2>8, WroteMore DEF Encoded
  <2>10. Wrote(v2, b, header)
    BY <1>1, <2>6, <2>9, WroteMore DEF Encoded
  <2>11. Wrote(v2, b, start)
    BY <1>1, <2>7, <2>10, WroteMore DEF Encoded
  <2>12. Sound(start)
    BY <2>11, EncodedSound
  <2>13. start.pos \in Int
    BY <2>7 DEF Sound
  <2>14. Sound(inner)
    BY <1>3, <2>12, <2>13, OriginMoved
  <2>15. CASE v # None
    <3>1. Encoded(v2, inner, r)
      BY <1>1, <2>14, <2>15 DEF Encodes
    <3> HIDE DEF r
    <3>2. Encoded(v2, start, done)
      BY <1>3, <2>12, <2>13, <3>1, OriginMoved
    <3> HIDE DEF done, inner, size
    <3>3. Wrote(v2, b, done) /\ Room(done)
      BY <1>1, <2>7, <2>11, <3>2, WroteMore DEF Encoded
    <3>4. header.pos \in Nat /\ b.pos <= header.pos
      BY <2>10 DEF Wrote, Sound
    <3>5. start.pos \in Nat /\ done.pos \in Nat /\ start.pos <= done.pos
      BY <2>7, <3>2 DEF Encoded, Wrote, Sound
    <3>6. header.pos + 4 <= done.pos
      BY <2>7, <3>4, <3>5 DEF a
    <3>7. /\ Wrote(v2, b, Patch(done, header.pos, size))
          /\ Room(done) => Room(Patch(done, header.pos, size))
      BY <1>1, <1>3, <3>3, <3>4, <3>6, PatchEncoded
    <3> QED
      BY <2>1, <2>15, <3>3, <3>7 DEF Encoded
  <2>16. CASE v = None
    BY <2>1, <2>7, <2>11, <2>16 DEF Encoded
  <2> QED
    BY <2>15, <2>16
<1> QED
  BY <1>0, <1>2, <1>3

LEMMA EncodedUnion ==
  ASSUME NEW v2, NEW m, NEW D, Encodes(m.disc, D, v2), NEW u, Label(m, u) \in D, NEW V, u.v \in V,
         u.d \in DOMAIN m.cases => Encodes(m.cases[u.d], V, v2),
         u.d \notin DOMAIN m.cases /\ m.default # None => Encodes(m.default, V, v2),
         NEW b, Sound(b), NEW kind, NEW enabled, NEW inside
  PROVE  Encoded(v2, b, SerializeUnion(m, b, u, kind, enabled, inside))
<1> DEFINE labelled == Serialize(m.disc, b, Label(m, u), kind, enabled)
           out == SerializeUnion(m, b, u, kind, enabled, inside)
<1>1. Encoded(v2, b, labelled) /\ Sound(b)
  BY DEF Encodes
<1>2. Sound(labelled)
  BY <1>1, EncodedSound DEF Encoded
<1>3. \/ out = labelled
      \/ u.d \in DOMAIN m.cases /\ out = Serialize(m.cases[u.d], labelled, u.v, kind, inside)
      \/ u.d \notin DOMAIN m.cases /\ m.default # None /\ out = Serialize(m.default, labelled, u.v, kind, inside)
  BY DEF SerializeUnion
<1> HIDE DEF labelled, out
<1>4. out = labelled \/ Encoded(v2, labelled, out)
  BY <1>2, <1>3 DEF Encodes
<1>5. Encoded(v2, b, out)
  BY <1>1, <1>4, EncodedMore
<1> QED
  BY <1>5 DEF out

LEMMA EncodedDelimitedUnion ==
  ASSUME NEW v2, NEW m, NEW D, Encodes(m.disc, D, v2), NEW u, Label(m, u) \in D, NEW V, u.v \in V,
         u.d \in DOMAIN m.cases => Encodes(m.cases[u.d], V, v2),
         u.d \notin DOMAIN m.cases /\ m.default # None => Encodes(m.default, V, v2),
         NEW b, Sound(b), NEW kind
  PROVE  Encoded(v2, b, SerializeDelimitedUnion(m, b, u, kind))
<1> DEFINE a == 4
           z == 0
           start == Write(Align(b, a), a, z)
           keys == "InKeylist"
           done == SerializeUnion(m, start, u, kind, keys, keys)
           size == done.pos - start.pos
<1>1. SerializeDelimitedUnion(m, b, u, kind) = Patch(done, start.pos - 4, size)
  BY DEF SerializeDelimitedUnion
<1>2. a \in Widths /\ Sound(b) /\ start = Write(Align(b, 4), 4, 0)
  BY DEF Widths
<1> HIDE DEF a, z, keys
<1>3. Encoded(v2, b, start) /\ Room(start)
  BY <1>2, NumberEncoded
<1> HIDE DEF start
<1>4. Sound(start)
  BY <1>3, EncodedSound DEF Encoded
<1>5. Encoded(v2, start, done)
  BY <1>4, EncodedUnion
<1> HIDE DEF done, size
<1>6. Wrote(v2, start, done) /\ Room(done)
  BY <1>3, <1>5 DEF Encoded
<1>7. /\ Wrote(v2, b, Patch(done, start.pos - 4, size))
      /\ Room(done) => Room(Patch(done, start.pos - 4, size))
  BY <1>2, <1>6, SizedEncoded
<1> QED
  BY <1>1, <1>6, <1>7 DEF Encoded

MappingRuns(after, m, b, v, kind, enabled) ==
  /\ after[0] = Write(Align(b, 4), 4, Len(v))
  /\ \A i \in 1 .. Len(v) :
       after[i] = Serialize(m.val, Serialize(m.key, after[i - 1], v[i][1], kind, enabled), v[i][2], kind, enabled)
  /\ SerializeMapping(m, b, v, kind, enabled) = after[Len(v)]

LEMMA MappingSteps ==
  ASSUME NEW m, NEW b, NEW v, Len(v) \in Nat, NEW kind, NEW enabled
  PROVE  \E after : MappingRuns(after, m, b, v, kind, enabled)
<1> DEFINE N == Len(v)
           base == Write(Align(b, 4), 4, N)
           Step(x, i) == Serialize(m.val, Serialize(m.key, x, v[i][1], kind, enabled),
                                   v[i][2], kind, enabled)
           Runs(f, k) == f = [i \in 0 .. k |-> IF i = 0 THEN base ELSE Step(f[i - 1], i)]
           T == {k \in Nat : \E f : Runs(f, k)}
           after == CHOOSE f : Runs(f, N)
<1>1. SerializeMapping(m, b, v, kind, enabled) = after[N] /\ N \in Nat
  BY DEF SerializeMapping
<1> HIDE DEF N, base
<1>2. 0 \in T
  <2> DEFINE g == [i \in 0 .. 0 |-> base]
  <2>1. Runs(g, 0)
    OBVIOUS
  <2> QED
    BY <2>1
<1>3. ASSUME NEW k \in T PROVE k + 1 \in T
  <2>1. PICK f : Runs(f, k)
    OBVIOUS
  <2> DEFINE g == [i \in 0 .. k + 1 |-> IF i <= k THEN f[i] ELSE Step(f[k], i)]
  <2> HIDE DEF Step
  <2>2. \A i \in 0 .. k : f[i] = IF i = 0 THEN base ELSE Step(f[i - 1], i)
    BY <2>1
  <2>3. ASSUME NEW i \in 0 .. k + 1 PROVE g[i] = IF i = 0 THEN base ELSE Step(g[i - 1], i)
    <3>1. CASE i <= k
      <4>1. g[i] = f[i] /\ (i # 0 => g[i - 1] = f[i - 1])
        BY <3>1
      <4> QED
        BY <2>2, <3>1, <4>1
    <3>2. CASE i = k + 1
      BY <3>2
    <3> QED
      BY <3>1, <3>2
  <2>4. g = [i \in 0 .. k + 1 |-> g[i]]
    OBVIOUS
  <2> HIDE DEF g
  <2>5. Runs(g, k + 1)
    BY <2>3, <2>4
  <2>6. k + 1 \in Nat
    OBVIOUS
  <2> HIDE DEF Runs
  <2> QED
    BY <2>5, <2>6
<1>4. T = Nat
  <2>1. T \in SUBSET Nat
    OBVIOUS
  <2> HIDE DEF T
  <2> QED
    BY <1>2, <1>3, <2>1, SetInduction
<1>5. Runs(after, N)
  BY <1>1, <1>4
<1> HIDE DEF after, Step
<1>6. \A i \in 0 .. N : after[i] = IF i = 0 THEN base ELSE Step(after[i - 1], i)
  BY <1>5
<1>7. after[0] = base /\ \A i \in 1 .. N : after[i] = Step(after[i - 1], i)
  BY <1>1, <1>6
<1>8. MappingRuns(after, m, b, v, kind, enabled)
  BY <1>1, <1>7 DEF N, Step, base, MappingRuns
<1> QED
  BY <1>8

LEMMA EncodedMapping ==
  ASSUME NEW v2, NEW m, NEW K, NEW V, Encodes(m.key, K, v2), Encodes(m.val, V, v2),
         NEW v \in Seq(K \X V), NEW b, Sound(b), NEW kind, NEW enabled
  PROVE  Encoded(v2, b, SerializeMapping(m, b, v, kind, enabled))
<1> DEFINE N == Len(v)
<1>1. N \in Nat /\ \A i \in 1 .. N : v[i][1] \in K /\ v[i][2] \in V
  OBVIOUS
<1>9. PICK after : MappingRuns(after, m, b, v, kind, enabled)
  BY <1>1, MappingSteps
<1>2. /\ after[0] = Write(Align(b, 4), 4, N)
      /\ \A i \in 1 .. N :
           after[i] = Serialize(m.val, Serialize(m.key, after[i - 1], v[i][1], kind, enabled),
                                v[i][2], kind, enabled)
      /\ SerializeMapping(m, b, v, kind, enabled) = after[N]
  BY <1>9 DEF MappingRuns
<1> HIDE DEF N
<1> DEFINE T == {i \in Nat : Encoded(v2, b, after[i])}
<1>3. 0 \in T
  <2> DEFINE a == 4
  <2>1. a \in Widths /\ Sound(b)
    BY DEF Widths
  <2> HIDE DEF a
  <2>2. Encoded(v2, b, Write(Align(b, a), a, N))
    BY <2>1, NumberEncoded
  <2> QED
    BY <1>2, <2>2 DEF a
<1>4. ASSUME NEW i \in 0 .. N - 1, i \in T PROVE i + 1 \in T
  <2> DEFINE x == v[i + 1]
             key == Serialize(m.key, after[i], x[1], kind, enabled)
             val == Serialize(m.val, key, x[2], kind, enabled)
  <2>1. i + 1 \in 1 .. N /\ (i + 1) - 1 = i
    BY <1>1
  <2>2. after[i + 1] = val
    BY <1>2, <2>1
  <2>3. x[1] \in K /\ x[2] \in V
    BY <1>1, <2>1
  <2> HIDE DEF x
  <2>4. Encoded(v2, b, after[i]) /\ Sound(after[i])
    BY <1>4, EncodedSound DEF Encoded
  <2>5. Encoded(v2, after[i], key)
    BY <2>3, <2>4 DEF Encodes
  <2> HIDE DEF key
  <2>6. Sound(key)
    BY <2>4, <2>5, EncodedSound DEF Encoded
  <2>7. Encoded(v2, key, val)
    BY <2>3, <2>6 DEF Encodes
  <2> HIDE DEF val
  <2>8. Encoded(v2, b, key)
    BY <2>4, <2>5, EncodedMore
  <2>9. Encoded(v2, b, after[i + 1])
    BY <2>2, <2>7, <2>8, EncodedMore
  <2> QED
    BY <1>4, <2>9
<1> HIDE DEF T
<1>5. 0 .. N \subseteq T
  BY <1>1, <1>3, <1>4, IntervalInduction
<1> QED
  BY <1>1, <1>2, <1>5 DEF T

MembersRuns(after, m, b, v, kind, enabled) ==
  /\ after[0] = b
  /\ \A i \in 1 .. Len(m.members) : after[i] = SerializeMember(m, after[i - 1], m.members[i], v, kind, enabled)
  /\ SerializeMembers(m, b, v, kind, enabled) = after[Len(m.members)]

LEMMA MembersSteps ==
  ASSUME NEW m, Len(m.members) \in Nat, NEW b, NEW v, NEW kind, NEW enabled
  PROVE  \E after : MembersRuns(after, m, b, v, kind, enabled)
<1> DEFINE N == Len(m.members)
           Step(x, i) == SerializeMember(m, x, m.members[i], v, kind, enabled)
           Runs(f, k) == f = [i \in 0 .. k |-> IF i = 0 THEN b ELSE Step(f[i - 1], i)]
           T == {k \in Nat : \E f : Runs(f, k)}
           after == CHOOSE f : Runs(f, N)
<1>1. SerializeMembers(m, b, v, kind, enabled) = after[N] /\ N \in Nat
  BY DEF SerializeMembers
<1> HIDE DEF N
<1>2. 0 \in T
  <2> DEFINE g == [i \in 0 .. 0 |-> b]
  <2>1. Runs(g, 0)
    OBVIOUS
  <2> QED
    BY <2>1
<1>3. ASSUME NEW k \in T PROVE k + 1 \in T
  <2>1. PICK f : Runs(f, k)
    OBVIOUS
  <2> DEFINE g == [i \in 0 .. k + 1 |-> IF i <= k THEN f[i] ELSE Step(f[k], i)]
  <2> HIDE DEF Step
  <2>2. \A i \in 0 .. k : f[i] = IF i = 0 THEN b ELSE Step(f[i - 1], i)
    BY <2>1
  <2>3. ASSUME NEW i \in 0 .. k + 1 PROVE g[i] = IF i = 0 THEN b ELSE Step(g[i - 1], i)
    <3>1. CASE i <= k
      <4>1. g[i] = f[i] /\ (i # 0 => g[i - 1] = f[i - 1])
        BY <3>1
      <4> QED
        BY <2>2, <3>1, <4>1
    <3>2. CASE i = k + 1
      BY <3>2
    <3> QED
      BY <3>1, <3>2
  <2>4. g = [i \in 0 .. k + 1 |-> g[i]]
    OBVIOUS
  <2> HIDE DEF g
  <2>5. Runs(g, k + 1)
    BY <2>3, <2>4
  <2>6. k + 1 \in Nat
    OBVIOUS
  <2> HIDE DEF Runs
  <2> QED
    BY <2>5, <2>6
<1>4. T = Nat
  <2>1. T \in SUBSET Nat
    OBVIOUS
  <2> HIDE DEF T
  <2> QED
    BY <1>2, <1>3, <2>1, SetInduction
<1>5. Runs(after, N)
  BY <1>1, <1>4
<1> HIDE DEF after, Step
<1>6. \A i \in 0 .. N : after[i] = IF i = 0 THEN b ELSE Step(after[i - 1], i)
  BY <1>5
<1>7. after[0] = b /\ \A i \in 1 .. N : after[i] = Step(after[i - 1], i)
  BY <1>1, <1>6
<1>8. MembersRuns(after, m, b, v, kind, enabled)
  BY <1>1, <1>7 DEF N, Step, MembersRuns
<1> QED
  BY <1>8

LEMMA EncodedMembers ==
  ASSUME NEW v2, NEW m, Len(m.members) \in Nat, NEW v,
         \A i \in 1 .. Len(m.members) : Encodes(m.members[i].machine, {v[m.members[i].name]}, v2),
         NEW b, Sound(b), NEW kind, NEW enabled
  PROVE  Encoded(v2, b, SerializeMembers(m, b, v, kind, enabled))
<1> DEFINE N == Len(m.members)
<1>1. N \in Nat
  OBVIOUS
<1>9. PICK after : MembersRuns(after, m, b, v, kind, enabled)
  BY MembersSteps
<1>2. /\ after[0] = b
      /\ \A i \in 1 .. N : after[i] = SerializeMember(m, after[i - 1], m.members[i], v, kind, enabled)
      /\ SerializeMembers(m, b, v, kind, enabled) = after[N]
  BY <1>9 DEF MembersRuns
<1>3. \A i \in 1 .. N : Encodes(m.members[i].machine, {v[m.members[i].name]}, v2)
  OBVIOUS
<1> HIDE DEF N
<1> DEFINE T == {i \in Nat : Encoded(v2, b, after[i])}
<1>4. 0 \in T
  BY <1>2, WroteNothing
<1>5. ASSUME NEW i \in 0 .. N - 1, i \in T PROVE i + 1 \in T
  <2> DEFINE x == m.members[i + 1]
             e == KeyEnabled(m.keys, x.name, enabled)
             y == Serialize(x.machine, after[i], v[x.name], kind, e)
  <2>1. i + 1 \in 1 .. N /\ (i + 1) - 1 = i
    BY <1>1
  <2>2. after[i + 1] = SerializeMember(m, after[i], x, v, kind, enabled)
    BY <1>2, <2>1
  <2>3. after[i + 1] = after[i] \/ after[i + 1] = y
    BY <2>2 DEF SerializeMember
  <2>4. Encodes(x.machine, {v[x.name]}, v2)
    BY <1>3, <2>1
  <2> HIDE DEF x, e
  <2>5. Encoded(v2, b, after[i]) /\ Sound(after[i])
    BY <1>5, EncodedSound DEF Encoded
  <2>6. Encoded(v2, after[i], y)
    BY <2>4, <2>5 DEF Encodes
  <2> HIDE DEF y
  <2>7. Encoded(v2, b, after[i + 1])
    BY <2>3, <2>5, <2>6, EncodedMore
  <2> QED
    BY <1>5, <2>7
<1> HIDE DEF T
<1>6. 0 .. N \subseteq T
  BY <1>1, <1>4, <1>5, IntervalInduction
<1> QED
  BY <1>1, <1>2, <1>6 DEF T

LEMMA EncodedDelimited ==
  ASSUME NEW v2, NEW m, Len(m.members) \in Nat, NEW v,
         \A i \in 1 .. Len(m.members) : Encodes(m.members[i].machine, {v[m.members[i].name]}, v2),
         NEW b, Sound(b), NEW kind, NEW enabled
  PROVE  Encoded(v2, b, SerializeDelimited(m, b, v, kind, enabled))
<1> DEFINE a == 4
           z == 0
           start == Write(Align(b, a), a, z)
           done == SerializeMembers(m, start, v, kind, enabled)
           size == done.pos - start.pos
<1>1. SerializeDelimited(m, b, v, kind, enabled) = Patch(done, start.pos - 4, size)
  BY DEF SerializeDelimited
<1>2. a \in Widths /\ Sound(b) /\ start = Write(Align(b, 4), 4, 0)
  BY DEF Widths
<1> HIDE DEF a, z
<1>3. Encoded(v2, b, start) /\ Room(start)
  BY <1>2, NumberEncoded
<1> HIDE DEF start
<1>4. Sound(start)
  BY <1>3, EncodedSound DEF Encoded
<1>5. Encoded(v2, start, done)
  BY <1>4, EncodedMembers
<1> HIDE DEF done, size
<1>6. Wrote(v2, start, done) /\ Room(done)
  BY <1>3, <1>5 DEF Encoded
<1>7. /\ Wrote(v2, b, Patch(done, start.pos - 4, size))
      /\ Room(done) => Room(Patch(done, start.pos - 4, size))
  BY <1>2, <1>6, SizedEncoded
<1> QED
  BY <1>1, <1>6, <1>7 DEF Encoded

LEMMA HeaderEncoded ==
  ASSUME NEW m, NEW v2 \in BOOLEAN, m.v2 = v2, NEW b, Sound(b), NEW member
  PROVE  LET header == MemberHeader(m, b, member)
         IN  /\ Wrote(v2, b, header) /\ Room(header)
             /\ v2 => OnGrid(header.pos, b.offset, 4)
<1> DEFINE header == MemberHeader(m, b, member)
           a == 4
           aligned == Align(b, a)
<1>1. Sound(b)
  OBVIOUS
<1>2. CASE v2
  <2> DEFINE x == [mu |-> member.mu, lc |-> member.lentype, id |-> member.id]
  <2>1. header = Write(aligned, a, x)
    BY <1>2 DEF MemberHeader
  <2>2. a \in Widths
    BY DEF Widths
  <2> HIDE DEF header, a, x
  <2>3. Encoded(v2, b, header) /\ Room(header) /\ header.pos = aligned.pos + a
    BY <1>1, <2>1, <2>2, NumberEncoded
  <2>4. OnGrid(aligned.pos, b.offset, AtMost(a, b.alignMax)) /\ aligned.pos \in Nat
    BY <1>1, <2>2, AlignedFacts
  <2>5. OnGrid(aligned.pos, b.offset, 4) /\ b.offset \in Int
    BY <1>1, <2>4 DEF a, AtMost, Sound
  <2> HIDE DEF aligned
  <2>6. OnGrid(header.pos, b.offset, 4)
    BY <2>3, <2>4, <2>5 DEF OnGrid, a
  <2> QED
    BY <2>3, <2>6 DEF Encoded, header
<1>3. CASE ~v2
  <2> DEFINE h == 2
             eight == 8
             x == [mu |-> member.mu, id |-> member.id]
             pid == Write(aligned, h, ExtendedPid)
             short == Write(pid, h, eight)
  <2>1. header = Write(short, a, x)
    BY <1>3 DEF MemberHeader
  <2>2. a \in Widths /\ h \in Widths
    BY DEF Widths
  <2> HIDE DEF a, h, eight, x, header
  <2>3. Wrote(v2, b, aligned) /\ Sound(aligned)
    BY <1>1, <2>2, AlignWrote DEF Wrote
  <2> HIDE DEF aligned
  <2>4. Encoded(v2, aligned, pid) /\ Room(pid) /\ Sound(pid)
    BY <1>3, <2>2, <2>3, WriteEncoded DEF Encoded, Wrote
  <2> HIDE DEF pid
  <2>5. Encoded(v2, pid, short) /\ Room(short) /\ Sound(short)
    BY <1>3, <2>2, <2>4, WriteEncoded DEF Encoded, Wrote
  <2> HIDE DEF short
  <2>6. Encoded(v2, short, header) /\ Room(header)
    BY <1>3, <2>1, <2>2, <2>5, WriteEncoded
  <2>7. Wrote(v2, b, pid)
    BY <1>1, <2>3, <2>4, WroteMore DEF Encoded
  <2>8. Wrote(v2, b, short)
    BY <1>1, <2>5, <2>7, WroteMore DEF Encoded
  <2>9. Wrote(v2, b, header)
    BY <1>1, <2>6, <2>8, WroteMore DEF Encoded
  <2> QED
    BY <1>3, <2>6, <2>9 DEF header
<1> QED
  BY <1>2, <1>3

LEMMA EncodedMutableMember ==
  ASSUME NEW m, NEW v2 \in BOOLEAN, m.v2 = v2, NEW member, NEW v, Encodes(member.machine, {v}, v2),
         NEW b, Sound(b), NEW kind, NEW enabled
  PROVE  LET r == SerializeMutableMember(m, b, member, v, kind, enabled)
         IN  Wrote(v2, b, r) /\ (v2 => Room(r))
<1> DEFINE a == 4
           z == 0
           header == MemberHeader(m, b, member)
           more == Write(header, a, z)
           sized == IF member.lentype = 4 THEN more ELSE header
           origin == IF v2 THEN sized ELSE SetAlignOffset(sized, sized.pos)
           written == Serialize(member.machine, origin, v, kind, enabled)
           back == SetAlignOffset(written, sized.offset)
           done == IF v2 THEN written ELSE Align(back, a)
           size == done.pos - header.pos - 4
           r == SerializeMutableMember(m, b, member, v, kind, enabled)
<1>1. r = IF member.lentype = 4 THEN Patch(done, header.pos, size) ELSE done
  BY DEF SerializeMutableMember
<1>2. a \in Widths /\ Sound(b)
  BY DEF Widths
<1> HIDE DEF r, z, header
<1>3. Wrote(v2, b, header) /\ Room(header) /\ (v2 => OnGrid(header.pos, b.offset, 4))
  BY HeaderEncoded DEF header
<1>4. Sound(header) /\ header.offset = b.offset /\ header.alignMax = b.alignMax
      /\ header.pos \in Nat /\ b.pos <= header.pos
  BY <1>3 DEF Wrote, Sound
<1>5. Encoded(v2, header, more) /\ Room(more) /\ more.pos = header.pos + a
  <2>1. v2 /\ Regular(header) => OnGrid(header.pos, header.offset, AtMost(a, 4))
    BY <1>3, <1>4 DEF AtMost
  <2> HIDE DEF a
  <2> QED
    BY <1>2, <1>4, <2>1, WriteEncoded
<1>6. Wrote(v2, header, header)
  BY <1>4, WroteNothing DEF Encoded
<1>7. Wrote(v2, header, sized) /\ Room(sized) /\ (member.lentype = 4 => sized.pos = header.pos + 4)
  BY <1>3, <1>5, <1>6 DEF Encoded
<1> HIDE DEF more, sized, a
<1>8. Wrote(v2, b, sized)
  BY <1>2, <1>3, <1>7, WroteMore
<1>9. Sound(sized) /\ sized.pos \in Int /\ sized.pos \in Nat /\ sized.offset = b.offset
  BY <1>8, EncodedSound DEF Wrote, Sound
<1>10. Wrote(v2, sized, done) /\ (v2 => Room(done))
  <2>1. CASE v2
    <3>1. origin = sized /\ done = written
      BY <2>1
    <3> HIDE DEF origin, done
    <3>2. Encoded(v2, sized, written)
      BY <1>9, <3>1 DEF Encodes
    <3> HIDE DEF written
    <3> QED
      BY <1>7, <3>1, <3>2 DEF Encoded
  <2>2. CASE ~v2
    <3>1. origin = SetAlignOffset(sized, sized.pos) /\ done = Align(back, a)
      BY <2>2
    <3>2. Sound(SetAlignOffset(sized, sized.pos))
      BY <1>9, <2>2, OriginMoved
    <3> HIDE DEF origin, done
    <3>3. Encoded(v2, SetAlignOffset(sized, sized.pos), written)
      BY <3>1, <3>2 DEF Encodes
    <3> HIDE DEF written
    <3>4. Encoded(v2, sized, back)
      BY <1>9, <2>2, <3>3, OriginMoved
    <3> HIDE DEF back
    <3>5. Wrote(v2, back, done)
      BY <1>2, <3>1, <3>4, AlignWrote DEF Encoded, Wrote
    <3> QED
      BY <1>9, <2>2, <3>4, <3>5, WroteMore DEF Encoded
  <2> QED
    BY <2>1, <2>2
<1> HIDE DEF done, size
<1>11. Wrote(v2, b, done)
  BY <1>2, <1>8, <1>10, WroteMore
<1>12. CASE member.lentype = 4
  <2>1. done.pos \in Nat /\ sized.pos <= done.pos
    BY <1>10 DEF Wrote, Sound
  <2>2. header.pos + 4 <= done.pos
    BY <1>4, <1>7, <1>12, <2>1
  <2>3. /\ Wrote(v2, b, Patch(done, header.pos, size))
        /\ Room(done) => Room(Patch(done, header.pos, size))
    BY <1>2, <1>3, <1>4, <1>11, <2>2, PatchEncoded
  <2> QED
    BY <1>1, <1>10, <1>12, <2>3 DEF r
<1>13. CASE member.lentype # 4
  BY <1>1, <1>10, <1>11, <1>13 DEF r
<1> QED
  BY <1>12, <1>13

\* Members with ids of their own can be put in the order of their ids.
LEMMA ByIdOrdered ==
  ASSUME NEW s, Len(s) \in Nat, DOMAIN s = 1 .. Len(s), \A i \in 1 .. Len(s) : s[i].id \in Nat,
         \A i, j \in 1 .. Len(s) : i # j => s[i].id # s[j].id
  PROVE  /\ ById(s) \in [1 .. Len(s) -> ToSet(s)]
         /\ \A i, j \in 1 .. Len(s) : i < j => ById(s)[i].id < ById(s)[j].id
<1> DEFINE N == Len(s)
           First(n) == {s[i] : i \in 1 .. n}
           Rising(r, n) == \A i, j \in 1 .. n : i < j => r[i].id < r[j].id
           T == {n \in Nat : \E r \in [1 .. n -> First(n)] : Rising(r, n)}
<1>0. N \in Nat /\ First(N) = ToSet(s)
  BY DEF ToSet
<1>1. 0 \in T
  <2>1. <<>> \in [1 .. 0 -> First(0)] /\ Rising(<<>>, 0)
    OBVIOUS
  <2> QED
    BY <2>1
<1>2. ASSUME NEW n \in 0 .. N - 1, n \in T PROVE n + 1 \in T
  <2>1. PICK r \in [1 .. n -> First(n)] : Rising(r, n)
    BY <1>2
  <2> DEFINE e == s[n + 1]
             K == {k \in 1 .. n + 1 : k = n + 1 \/ e.id < r[k].id}
  <2>2. /\ n \in Nat /\ n + 1 \in 1 .. N
        /\ \A i \in 1 .. n : i \in 1 .. N /\ i # n + 1
    BY <1>0
  <2>3. /\ e.id \in Nat
        /\ \A x \in First(n) : x.id \in Nat /\ x.id # e.id
        /\ First(n) \subseteq First(n + 1) /\ e \in First(n + 1)
    BY <2>2
  <2>4. \A i \in 1 .. n : r[i] \in First(n) /\ r[i].id \in Nat /\ r[i].id # e.id
    BY <2>1, <2>3
  <2> HIDE DEF First, e
  <2>5. n + 1 \in K /\ K \in SUBSET Nat
    BY <2>2
  <2>6. PICK k \in K : \A x \in K : k <= x
    BY <2>5, LeastNumber
  <2>7. /\ k \in 1 .. n + 1
        /\ \A i \in 1 .. n : i < k => r[i].id < e.id
        /\ k \in 1 .. n => e.id < r[k].id
    <3>1. k \in 1 .. n + 1 /\ (k = n + 1 \/ e.id < r[k].id)
      BY <2>6
    <3>2. ASSUME NEW i \in 1 .. n, i < k PROVE r[i].id < e.id
      <4>1. i \notin K
        BY <2>6, <3>1, <3>2
      <4>2. i \in 1 .. n + 1
        BY <2>2
      <4>3. ~(e.id < r[i].id)
        BY <4>1, <4>2
      <4> HIDE DEF K
      <4> QED
        BY <2>3, <2>4, <4>3
    <3>3. k \in 1 .. n => k # n + 1
      BY <2>2
    <3> QED
      BY <3>1, <3>2, <3>3
  <2> HIDE DEF K
  <2>8. \A i \in 1 .. n : k <= i => e.id < r[i].id
    <3> SUFFICES ASSUME NEW i \in 1 .. n, k <= i PROVE e.id < r[i].id
      OBVIOUS
    <3>1. k \in 1 .. n /\ e.id < r[k].id
      BY <2>2, <2>7
    <3>2. k = i \/ r[k].id < r[i].id
      BY <2>1, <3>1
    <3> QED
      BY <2>3, <2>4, <3>1, <3>2
  <2> DEFINE q == [i \in 1 .. n + 1 |-> IF i < k THEN r[i] ELSE IF i = k THEN e ELSE r[i - 1]]
  <2>9. \A i \in 1 .. n + 1 :
          /\ i < k => i \in 1 .. n /\ q[i] = r[i]
          /\ i = k => q[i] = e
          /\ k < i => i - 1 \in 1 .. n /\ k <= i - 1 /\ q[i] = r[i - 1]
    BY <2>2, <2>7
  <2>10. q \in [1 .. n + 1 -> First(n + 1)]
    <3>1. \A i \in 1 .. n + 1 : q[i] \in First(n + 1)
      <4> SUFFICES ASSUME NEW i \in 1 .. n + 1 PROVE q[i] \in First(n + 1)
        OBVIOUS
      <4>1. i < k \/ i = k \/ k < i
        BY <2>2, <2>7
      <4> HIDE DEF q
      <4> QED
        BY <2>3, <2>4, <2>9, <4>1
    <3> QED
      BY <3>1
  <2> HIDE DEF q
  <2>11. ASSUME NEW i \in 1 .. n + 1, NEW j \in 1 .. n + 1, i < j PROVE q[i].id < q[j].id
    <3>1. CASE j < k
      <4>1. i < k
        BY <2>2, <2>7, <2>11, <3>1
      <4>2. i \in 1 .. n /\ j \in 1 .. n /\ q[i] = r[i] /\ q[j] = r[j]
        BY <2>9, <3>1, <4>1
      <4> QED
        BY <2>1, <2>11, <4>2
    <3>2. CASE j = k
      <4>1. i < k
        BY <2>11, <3>2
      <4>2. i \in 1 .. n /\ q[i] = r[i] /\ q[j] = e
        BY <2>9, <3>2, <4>1
      <4> QED
        BY <2>7, <4>1, <4>2
    <3>3. CASE k < j
      <4>1. j - 1 \in 1 .. n /\ k <= j - 1 /\ q[j] = r[j - 1]
        BY <2>9, <3>3
      <4>2. CASE i < k
        <5>1. i \in 1 .. n /\ q[i] = r[i]
          BY <2>9, <4>2
        <5>2. r[i].id < e.id /\ e.id < r[j - 1].id
          BY <2>7, <2>8, <4>1, <4>2, <5>1
        <5>3. r[i].id \in Nat /\ r[j - 1].id \in Nat
          BY <2>4, <4>1, <5>1
        <5> QED
          BY <2>3, <4>1, <5>1, <5>2, <5>3
      <4>3. CASE i = k
        BY <2>8, <2>9, <4>1, <4>3
      <4>4. CASE k < i
        <5>1. i - 1 \in 1 .. n /\ q[i] = r[i - 1]
          BY <2>9, <4>4
        <5>2. i - 1 < j - 1
          BY <2>2, <2>11
        <5> QED
          BY <2>1, <4>1, <5>1, <5>2
      <4> QED
        BY <2>2, <2>7, <4>2, <4>3, <4>4
    <3> QED
      BY <2>2, <2>7, <3>1, <3>2, <3>3
  <2>12. Rising(q, n + 1)
    BY <2>11
  <2>13. n + 1 \in Nat
    BY <2>2
  <2> HIDE DEF Rising
  <2> QED
    BY <2>10, <2>12, <2>13
<1> HIDE DEF T
<1>3. 0 .. N \subseteq T
  BY <1>0, <1>1, <1>2, IntervalInduction
<1>4. N \in T
  BY <1>0, <1>3
<1>5. \E r \in [1 .. N -> ToSet(s)] : \A i, j \in 1 .. N : i < j => r[i].id < r[j].id
  BY <1>0, <1>4 DEF T
<1> QED
  BY <1>5 DEF ById

MutableRuns(after, m, members, b, v, kind, enabled) ==
  /\ after[0] = b
  /\ \A i \in 1 .. Len(members) : after[i] = MutableMemberOrNone(m, after[i - 1], members[i], v, kind, enabled)
  /\ MutableMembersFrom(m, b, members, v, kind, enabled) = after[Len(members)]

LEMMA MutableSteps ==
  ASSUME NEW m, NEW members, Len(members) \in Nat, NEW b, NEW v, NEW kind, NEW enabled
  PROVE  \E after : MutableRuns(after, m, members, b, v, kind, enabled)
<1> DEFINE N == Len(members)
           Step(x, i) == MutableMemberOrNone(m, x, members[i], v, kind, enabled)
           Runs(f, k) == f = [i \in 0 .. k |-> IF i = 0 THEN b ELSE Step(f[i - 1], i)]
           T == {k \in Nat : \E f : Runs(f, k)}
           after == CHOOSE f : Runs(f, N)
<1>1. MutableMembersFrom(m, b, members, v, kind, enabled) = after[N] /\ N \in Nat
  BY DEF MutableMembersFrom
<1> HIDE DEF N
<1>2. 0 \in T
  <2> DEFINE g == [i \in 0 .. 0 |-> b]
  <2>1. Runs(g, 0)
    OBVIOUS
  <2> QED
    BY <2>1
<1>3. ASSUME NEW k \in T PROVE k + 1 \in T
  <2>1. PICK f : Runs(f, k)
    OBVIOUS
  <2> DEFINE g == [i \in 0 .. k + 1 |-> IF i <= k THEN f[i] ELSE Step(f[k], i)]
  <2> HIDE DEF Step
  <2>2. \A i \in 0 .. k : f[i] = IF i = 0 THEN b ELSE Step(f[i - 1], i)
    BY <2>1
  <2>3. ASSUME NEW i \in 0 .. k + 1 PROVE g[i] = IF i = 0 THEN b ELSE Step(g[i - 1], i)
    <3>1. CASE i <= k
      <4>1. g[i] = f[i] /\ (i # 0 => g[i - 1] = f[i - 1])
        BY <3>1
      <4> QED
        BY <2>2, <3>1, <4>1
    <3>2. CASE i = k + 1
      BY <3>2
    <3> QED
      BY <3>1, <3>2
  <2>4. g = [i \in 0 .. k + 1 |-> g[i]]
    OBVIOUS
  <2> HIDE DEF g
  <2>5. Runs(g, k + 1)
    BY <2>3, <2>4
  <2>6. k + 1 \in Nat
    OBVIOUS
  <2> HIDE DEF Runs
  <2> QED
    BY <2>5, <2>6
<1>4. T = Nat
  <2>1. T \in SUBSET Nat
    OBVIOUS
  <2> HIDE DEF T
  <2> QED
    BY <1>2, <1>3, <2>1, SetInduction
<1>5. Runs(after, N)
  BY <1>1, <1>4
<1> HIDE DEF after, Step
<1>6. \A i \in 0 .. N : after[i] = IF i = 0 THEN b ELSE Step(after[i - 1], i)
  BY <1>5
<1>7. after[0] = b /\ \A i \in 1 .. N : after[i] = Step(after[i - 1], i)
  BY <1>1, <1>6
<1>8. MutableRuns(after, m, members, b, v, kind, enabled)
  BY <1>1, <1>7 DEF N, Step, MutableRuns
<1> QED
  BY <1>8

\* What a mutable struct writes of a member: nothing, or its value.
Carries(member, v, v2) ==
  \/ member.optional /\ v[member.name] = None
  \/ Encodes(member.machine, {v[member.name]}, v2)

LEMMA MemberOrNone ==
  ASSUME NEW m, NEW b, NEW member, NEW v, NEW kind, NEW enabled
  PROVE  LET r == MutableMemberOrNone(m, b, member, v, kind, enabled)
         IN  /\ \/ r = b
                \/ r = SerializeMutableMember(m, b, member, v[member.name], kind,
                                             KeyEnabled(m.keys, member.name, enabled))
             /\ member.optional /\ v[member.name] = None => r = b
BY DEF MutableMemberOrNone

LEMMA EncodedMutableMembers ==
  ASSUME NEW m, NEW v2 \in BOOLEAN, m.v2 = v2, NEW members, Len(members) \in Nat, NEW v,
         \A i \in 1 .. Len(members) : Carries(members[i], v, v2),
         NEW start, Sound(start), NEW kind, NEW enabled
  PROVE  LET done == MutableMembersFrom(m, start, members, v, kind, enabled)
         IN  Wrote(v2, start, done) /\ (v2 /\ Room(start) => Room(done))
<1> DEFINE N == Len(members)
<1>0. PICK after : MutableRuns(after, m, members, start, v, kind, enabled)
  BY MutableSteps
<1>1. /\ after[0] = start
      /\ \A i \in 1 .. N : after[i] = MutableMemberOrNone(m, after[i - 1], members[i], v, kind, enabled)
      /\ MutableMembersFrom(m, start, members, v, kind, enabled) = after[N]
  BY <1>0 DEF MutableRuns
<1> DEFINE Fine(x) == Wrote(v2, start, x) /\ (v2 /\ Room(start) => Room(x))
           T == {i \in Nat : Fine(after[i])}
<1>2. N \in Nat /\ \A i \in 1 .. N : Carries(members[i], v, v2)
  OBVIOUS
<1> HIDE DEF N
<1>3. 0 \in T
  <2>1. Encoded(v2, start, start)
    BY WroteNothing
  <2> QED
    BY <1>1, <2>1 DEF Encoded
<1>4. ASSUME NEW i \in 0 .. N - 1, i \in T PROVE i + 1 \in T
  <2> DEFINE x == members[i + 1]
             e == KeyEnabled(m.keys, x.name, enabled)
             w == v[x.name]
             y == SerializeMutableMember(m, after[i], x, w, kind, e)
  <2>1. i + 1 \in 1 .. N /\ (i + 1) - 1 = i /\ i + 1 \in Nat
    BY <1>2
  <2>2. after[i + 1] = MutableMemberOrNone(m, after[i], x, v, kind, enabled)
    BY <1>1, <2>1
  <2>3. Carries(x, v, v2)
    BY <1>2, <2>1
  <2> HIDE DEF x
  <2>4. \/ after[i + 1] = after[i]
        \/ Encodes(x.machine, {w}, v2) /\ after[i + 1] = y
    BY <2>2, <2>3, MemberOrNone DEF Carries
  <2> HIDE DEF x, e, w
  <2>5. Fine(after[i])
    BY <1>4
  <2>6. Sound(after[i])
    BY <2>5, EncodedSound
  <2>7. Encodes(x.machine, {w}, v2) => Wrote(v2, after[i], y) /\ (v2 => Room(y))
    BY <2>6, EncodedMutableMember
  <2> HIDE DEF y
  <2>8. Wrote(v2, after[i], y) => Wrote(v2, start, y)
    BY <2>5, WroteMore
  <2>9. Fine(after[i + 1])
    BY <2>4, <2>5, <2>7, <2>8
  <2> HIDE DEF Fine
  <2> QED
    BY <2>1, <2>9
<1> HIDE DEF T
<1>5. 0 .. N \subseteq T
  BY <1>2, <1>3, <1>4, IntervalInduction
<1>6. Fine(after[N])
  BY <1>2, <1>5 DEF T
<1> QED
  BY <1>1, <1>6

LEMMA EncodedMutable ==
  ASSUME NEW m, NEW v2 \in BOOLEAN, m.v2 = v2, NEW v, NEW kind,
         Len(MemberOrder(m, kind)) \in Nat,
         \A i \in 1 .. Len(MemberOrder(m, kind)) : Carries(MemberOrder(m, kind)[i], v, v2),
         NEW b, Sound(b), NEW enabled
  PROVE  Encoded(v2, b, SerializeMutable(m, b, v, kind, enabled))
<1> DEFINE a == 4
           z == 0
           sized == Write(Align(b, a), a, z)
           start == IF v2 THEN sized ELSE b
           members == MemberOrder(m, kind)
           done == MutableMembersFrom(m, start, members, v, kind, enabled)
           size == done.pos - start.pos
           h == 2
           aligned == Align(done, a)
           end == Write(aligned, h, ListEnd)
           last == Write(end, h, z)
<1>1. SerializeMutable(m, b, v, kind, enabled) = IF v2 THEN Patch(done, start.pos - 4, size) ELSE last
  BY DEF SerializeMutable
<1>2. a \in Widths /\ h \in Widths /\ Sound(b)
  BY DEF Widths
<1> HIDE DEF a, z, h, aligned, end, last, size
<1>3. Encoded(v2, b, sized) /\ Room(sized)
  BY <1>2, NumberEncoded
<1> HIDE DEF sized
<1>4. Sound(sized)
  BY <1>3, EncodedSound DEF Encoded
<1>5. Sound(start)
  BY <1>4
<1> HIDE DEF start
<1>6. Len(members) \in Nat /\ \A i \in 1 .. Len(members) : Carries(members[i], v, v2)
  OBVIOUS
<1> HIDE DEF members
<1>7. Wrote(v2, start, done) /\ (v2 /\ Room(start) => Room(done))
  BY <1>5, <1>6, EncodedMutableMembers
<1> HIDE DEF done
<1>8. CASE v2
  <2>1. start = sized /\ start = Write(Align(b, 4), 4, 0)
    BY <1>8 DEF start, sized, a, z
  <2>2. Room(done)
    BY <1>3, <1>7, <1>8, <2>1
  <2>3. /\ Wrote(v2, b, Patch(done, start.pos - 4, size))
        /\ Room(done) => Room(Patch(done, start.pos - 4, size))
    BY <1>2, <1>7, <2>1, SizedEncoded
  <2> QED
    BY <1>1, <1>8, <2>2, <2>3 DEF Encoded
<1>9. CASE ~v2
  <2>1. start = b
    BY <1>9 DEF start
  <2>2. Sound(done) /\ Wrote(v2, b, done)
    BY <1>7, <2>1 DEF Wrote
  <2>3. Wrote(v2, done, aligned) /\ Sound(aligned)
    BY <1>2, <2>2, AlignWrote DEF aligned, Wrote
  <2>4. Encoded(v2, aligned, end) /\ Sound(end)
    BY <1>2, <1>9, <2>3, WriteEncoded DEF end, Encoded, Wrote
  <2>5. Encoded(v2, end, last) /\ Room(last)
    BY <1>2, <1>9, <2>4, WriteEncoded DEF last
  <2>6. Wrote(v2, b, aligned)
    BY <1>2, <2>2, <2>3, WroteMore
  <2>7. Wrote(v2, b, end)
    BY <1>2, <2>4, <2>6, WroteMore DEF Encoded
  <2>8. Wrote(v2, b, last)
    BY <1>2, <2>5, <2>7, WroteMore DEF Encoded
  <2> QED
    BY <1>1, <1>9, <2>5, <2>8 DEF Encoded
<1> QED
  BY <1>8, <1>9

(***************************************************************************)
(* The machines of types, by the depth of the types.                       *)
(***************************************************************************)
Fits(t, v2) ==
  \A id, header : /\ Encodes(MachineFor(t, id, header, v2), ValuesOf[t], v2)
                  /\ Encodes(StripHeaders(MachineFor(t, id, header, v2)), ValuesOf[t], v2)

LEMMA FitsBy ==
  ASSUME Recursion, NEW t, NEW v2,
         \A id, header :
           /\ BuiltMachine(t, id, header, v2).m # "Array"
           /\ \A b, v, kind, enabled :
                Sound(b) /\ v \in ValuesOf[t]
                  => Encoded(v2, b, Serialized(BuiltMachine(t, id, header, v2), b, v, kind, enabled))
  PROVE  Fits(t, v2)
<1> SUFFICES ASSUME NEW id, NEW header
             PROVE  /\ Encodes(MachineFor(t, id, header, v2), ValuesOf[t], v2)
                    /\ Encodes(StripHeaders(MachineFor(t, id, header, v2)), ValuesOf[t], v2)
  BY DEF Fits
<1> DEFINE m == MachineFor(t, id, header, v2)
<1>1. m = BuiltMachine(t, id, header, v2)
  BY DEF Recursion
<1> HIDE DEF m
<1>2. StripHeaders(m) = m
  BY <1>1 DEF StripHeaders
<1>3. ASSUME NEW b, NEW v, NEW kind, NEW enabled, Sound(b), v \in ValuesOf[t]
      PROVE  Encoded(v2, b, Serialize(m, b, v, kind, enabled))
  <2>1. Serialize(m, b, v, kind, enabled) = Serialized(m, b, v, kind, enabled)
    BY DEF Recursion
  <2> QED
    BY <1>1, <1>3, <2>1
<1>4. Encodes(m, ValuesOf[t], v2)
  BY <1>3 DEF Encodes
<1> QED
  BY <1>2, <1>4 DEF m

LEMMA HolderWidth ==
  ASSUME NEW bits \in 1 .. MaxBits
  PROVE  EnumHolder(bits) \in Widths /\ MaskHolder(bits) \in Widths
<1>1. Log2(bits) \in 0 .. 6
  BY DEF Log2, MaxBits
<1>2. ((Log2(bits) - 3) % 4) + 1 \in 1 .. 4
  BY <1>1
<1> QED
  BY <1>2 DEF EnumHolder, MaskHolder, Widths

LEMMA FitsSimple ==
  ASSUME Recursion, NEW t \in Descs, t.k \in {"prim", "char", "string", "bytes", "enum", "bitmask"},
         NEW v2 \in BOOLEAN
  PROVE  Fits(t, v2)
<1>1. IsDescription(t) /\ \A v \in ValuesOf[t] : IsValue(t, v)
  BY TypesAssumption, ValuesAssumption
<1> SUFFICES ASSUME NEW id, NEW header
             PROVE  /\ BuiltMachine(t, id, header, v2).m # "Array"
                    /\ \A b, v, kind, enabled :
                         Sound(b) /\ v \in ValuesOf[t]
                           => Encoded(v2, b, Serialized(BuiltMachine(t, id, header, v2), b, v, kind, enabled))
  BY FitsBy
<1> DEFINE m == BuiltMachine(t, id, header, v2)
<1> SUFFICES m.m # "Array" /\ \A b, v, kind, enabled :
               Sound(b) /\ v \in ValuesOf[t] => Encoded(v2, b, Serialized(m, b, v, kind, enabled))
  OBVIOUS
<1>2. CASE t.k = "prim"
  <2>1. m = [m |-> "Primitive", size |-> t.size] /\ t.size \in Widths
    BY <1>1, <1>2 DEF BuiltMachine, IsDescription, Widths
  <2> HIDE DEF m
  <2>2. ASSUME NEW b, NEW v, NEW kind, NEW enabled, Sound(b), v \in ValuesOf[t]
        PROVE  Encoded(v2, b, Serialized(m, b, v, kind, enabled))
    <3>1. Serialized(m, b, v, kind, enabled) = Write(Align(b, t.size), t.size, v)
      BY <2>1 DEF Serialized, SerializePrimitive
    <3> QED
      BY <2>1, <2>2, <3>1, NumberEncoded
  <2> QED
    BY <2>1, <2>2
<1>3. CASE t.k = "char"
  <2>1. m = [m |-> "Char"]
    BY <1>3 DEF BuiltMachine
  <2> HIDE DEF m
  <2>2. ASSUME NEW b, NEW v, NEW kind, NEW enabled, Sound(b), v \in ValuesOf[t]
        PROVE  Encoded(v2, b, Serialized(m, b, v, kind, enabled))
    <3>1. Serialized(m, b, v, kind, enabled) = Write(b, 1, v)
      BY <2>1 DEF Serialized, SerializeChar
    <3>2. Encoded(v2, b, Write(b, 1, v))
      BY <2>2, ByteEncoded
    <3> QED
      BY <3>1, <3>2
  <2> QED
    BY <2>1, <2>2
<1>4. CASE t.k = "string"
  <2>1. m = [m |-> "String", bound |-> t.bound]
    BY <1>4 DEF BuiltMachine
  <2> HIDE DEF m
  <2>2. ASSUME NEW b, NEW v, NEW kind, NEW enabled, Sound(b), v \in ValuesOf[t]
        PROVE  Encoded(v2, b, Serialized(m, b, v, kind, enabled))
    <3>1. Serialized(m, b, v, kind, enabled) = SerializeString(m, b, v)
      BY <2>1 DEF Serialized
    <3>2. v \in Seq(Nat) /\ Bounded(v, m.bound)
      BY <1>1, <1>4, <2>1, <2>2 DEF IsValue
    <3>3. Encoded(v2, b, SerializeString(m, b, v))
      BY <2>2, <3>2, EncodedString
    <3> QED
      BY <3>1, <3>3
  <2> QED
    BY <2>1, <2>2
<1>5. CASE t.k = "bytes"
  <2>1. m = [m |-> "Bytes"]
    BY <1>5 DEF BuiltMachine
  <2> HIDE DEF m
  <2>2. ASSUME NEW b, NEW v, NEW kind, NEW enabled, Sound(b), v \in ValuesOf[t]
        PROVE  Encoded(v2, b, Serialized(m, b, v, kind, enabled))
    <3>1. Serialized(m, b, v, kind, enabled) = SerializeBytes(b, v)
      BY <2>1 DEF Serialized
    <3>2. Len(v) \in Nat
      BY <1>1, <1>5, <2>2 DEF IsValue
    <3>3. Encoded(v2, b, SerializeBytes(b, v))
      BY <2>2, <3>2, EncodedBytes
    <3> QED
      BY <3>1, <3>3
  <2> QED
    BY <2>1, <2>2
<1>6. CASE t.k = "enum"
  <2>1. \/ m = [m |-> "Enum", default |-> t.default]
        \/ t.bits \in 1 .. MaxBits /\ m = [m |-> "BitBoundEnum", size |-> EnumHolder(t.bits), default |-> t.default]
    BY <1>1, <1>6 DEF BuiltMachine, IsDescription
  <2>2. t.bits \in 1 .. MaxBits => EnumHolder(t.bits) \in Widths
    BY HolderWidth
  <2> DEFINE n == EnumHolder(t.bits)
  <2> HIDE DEF m
  <2>3. ASSUME NEW b, NEW v, NEW kind, NEW enabled, Sound(b), v \in ValuesOf[t]
        PROVE  Encoded(v2, b, Serialized(m, b, v, kind, enabled))
    <3> DEFINE a == 4
    <3>1. \/ Serialized(m, b, v, kind, enabled) = Write(Align(b, a), a, v)
          \/ /\ t.bits \in 1 .. MaxBits
             /\ Serialized(m, b, v, kind, enabled) = Write(Align(b, n), n, v)
      BY <2>1 DEF Serialized, SerializeEnum, SerializeBitBoundEnum
    <3>2. a \in Widths
      BY DEF Widths
    <3> HIDE DEF a, n
    <3>3. Encoded(v2, b, Write(Align(b, a), a, v))
      BY <2>3, <3>2, NumberEncoded
    <3>4. t.bits \in 1 .. MaxBits => n \in Widths
      BY <2>2 DEF n
    <3>5. n \in Widths => Encoded(v2, b, Write(Align(b, n), n, v))
      BY <2>3, NumberEncoded
    <3> QED
      BY <3>1, <3>3, <3>4, <3>5
  <2> QED
    BY <2>1, <2>3
<1>7. CASE t.k = "bitmask"
  <2> DEFINE n == MaskHolder(t.bits)
  <2>1. m = [m |-> "BitMask", size |-> n] /\ t.bits \in 1 .. MaxBits
    BY <1>1, <1>7 DEF BuiltMachine, IsDescription
  <2>2. n \in Widths
    BY <2>1, HolderWidth
  <2> HIDE DEF m, n
  <2>3. ASSUME NEW b, NEW v, NEW kind, NEW enabled, Sound(b), v \in ValuesOf[t]
        PROVE  Encoded(v2, b, Serialized(m, b, v, kind, enabled))
    <3>1. v \in Seq(Int) /\ Len(v) = 1
      BY <1>1, <1>7, <2>3 DEF IsValue
    <3>2. v # <<>>
      <4> SUFFICES ASSUME v = <<>> PROVE FALSE
        OBVIOUS
      <4>1. Len(v) = 0
        OBVIOUS
      <4> QED
        BY <3>1, <4>1
    <3> DEFINE x == v[1]
    <3>3. Serialized(m, b, v, kind, enabled) = Write(Align(b, n), n, x)
      BY <2>1, <3>2 DEF Serialized, SerializeBitMask
    <3> HIDE DEF x
    <3> QED
      BY <2>2, <2>3, <3>3, NumberEncoded
  <2> QED
    BY <2>1, <2>3
<1> QED
  BY <1>2, <1>3, <1>4, <1>5, <1>6, <1>7

LEMMA FitsOptional ==
  ASSUME Recursion, NEW t \in Descs, t.k = "opt", NEW v2 \in BOOLEAN, Fits(t.of, v2)
  PROVE  Fits(t, v2)
<1>1. \A v \in ValuesOf[t] : v \in {None} \cup ValuesOf[t.of]
  BY ValuesAssumption DEF IsValue
<1> SUFFICES ASSUME NEW id, NEW header
             PROVE  /\ BuiltMachine(t, id, header, v2).m # "Array"
                    /\ \A b, v, kind, enabled :
                         Sound(b) /\ v \in ValuesOf[t]
                           => Encoded(v2, b, Serialized(BuiltMachine(t, id, header, v2), b, v, kind, enabled))
  BY FitsBy
<1> DEFINE m == BuiltMachine(t, id, header, v2)
           V == ValuesOf[t.of]
<1>2. m = [m |-> "Optional", of |-> MachineFor(t.of, None, header, v2), id |-> id, v2 |-> v2]
  BY DEF BuiltMachine
<1>3. Encodes(MachineFor(t.of, None, header, v2), V, v2)
  BY DEF Fits
<1> HIDE DEF m
<1>4. m.m = "Optional" /\ m.v2 = v2 /\ Encodes(m.of, V, v2)
  BY <1>2, <1>3
<1>5. ASSUME NEW b, NEW v, NEW kind, NEW enabled, Sound(b), v \in ValuesOf[t]
      PROVE  Encoded(v2, b, Serialized(m, b, v, kind, enabled))
  <2>1. Serialized(m, b, v, kind, enabled) = SerializeOptional(m, b, v, kind)
    BY <1>4 DEF Serialized
  <2>2. v \in {None} \cup V
    BY <1>1, <1>5
  <2> HIDE DEF V
  <2>3. Encoded(v2, b, SerializeOptional(m, b, v, kind))
    BY <1>4, <1>5, <2>2, EncodedOptional
  <2> QED
    BY <2>1, <2>3
<1> QED
  BY <1>4, <1>5 DEF m

\* A machine for any number of values.
LEMMA FitsSequenceMachine ==
  ASSUME NEW V, NEW v2, NEW m, m.m = "Sequence", Encodes(m.of, V, v2),
         NEW b, NEW v \in Seq(V), NEW kind, NEW enabled, Sound(b), Bounded(v, m.max)
  PROVE  Encoded(v2, b, Serialized(m, b, v, kind, enabled))
<1>1. Serialized(m, b, v, kind, enabled) = SerializeSequence(m, b, v, kind, enabled)
  BY DEF Serialized
<1>2. Encoded(v2, b, SerializeSequence(m, b, v, kind, enabled))
  BY EncodedSequence
<1> QED
  BY <1>1, <1>2

LEMMA FitsList ==
  ASSUME Recursion, NEW t \in Descs, t.k = "list", NEW v2 \in BOOLEAN, Fits(t.of, v2)
  PROVE  Fits(t, v2)
<1>1. \A v \in ValuesOf[t] : v \in Seq(ValuesOf[t.of])
  BY ValuesAssumption DEF IsValue
<1> SUFFICES ASSUME NEW id, NEW header
             PROVE  /\ BuiltMachine(t, id, header, v2).m # "Array"
                    /\ \A b, v, kind, enabled :
                         Sound(b) /\ v \in ValuesOf[t]
                           => Encoded(v2, b, Serialized(BuiltMachine(t, id, header, v2), b, v, kind, enabled))
  BY FitsBy
<1> DEFINE m == BuiltMachine(t, id, header, v2)
           V == ValuesOf[t.of]
<1>2. m = [m |-> "Sequence", of |-> MachineFor(t.of, None, header, v2), max |-> None, header |-> header]
  BY DEF BuiltMachine
<1>3. Encodes(MachineFor(t.of, None, header, v2), V, v2)
  BY DEF Fits
<1> HIDE DEF m
<1>4. m.m = "Sequence" /\ m.max = None /\ Encodes(m.of, V, v2)
  BY <1>2, <1>3
<1>5. ASSUME NEW b, NEW v, NEW kind, NEW enabled, Sound(b), v \in ValuesOf[t]
      PROVE  Encoded(v2, b, Serialized(m, b, v, kind, enabled))
  <2>1. v \in Seq(V) /\ Bounded(v, m.max)
    BY <1>1, <1>4, <1>5 DEF Bounded
  <2> HIDE DEF V
  <2> QED
    BY <1>4, <1>5, <2>1, FitsSequenceMachine
<1> QED
  BY <1>4, <1>5 DEF m

LEMMA FitsMap ==
  ASSUME Recursion, NEW t \in Descs, t.k = "map", NEW v2 \in BOOLEAN, Fits(t.key, v2), Fits(t.val, v2)
  PROVE  Fits(t, v2)
<1>1. \A v \in ValuesOf[t] : v \in Seq(ValuesOf[t.key] \X ValuesOf[t.val])
  BY ValuesAssumption DEF IsValue
<1> SUFFICES ASSUME NEW id, NEW header
             PROVE  /\ BuiltMachine(t, id, header, v2).m # "Array"
                    /\ \A b, v, kind, enabled :
                         Sound(b) /\ v \in ValuesOf[t]
                           => Encoded(v2, b, Serialized(BuiltMachine(t, id, header, v2), b, v, kind, enabled))
  BY FitsBy
<1> DEFINE m == BuiltMachine(t, id, header, v2)
           K == ValuesOf[t.key]
           V == ValuesOf[t.val]
<1>2. m = [m |-> "Mapping", key |-> MachineFor(t.key, None, header, v2),
           val |-> MachineFor(t.val, None, header, v2)]
  BY DEF BuiltMachine
<1>3. Encodes(MachineFor(t.key, None, header, v2), K, v2) /\ Encodes(MachineFor(t.val, None, header, v2), V, v2)
  BY DEF Fits
<1> HIDE DEF m
<1>4. m.m = "Mapping" /\ Encodes(m.key, K, v2) /\ Encodes(m.val, V, v2)
  BY <1>2, <1>3
<1>5. ASSUME NEW b, NEW v, NEW kind, NEW enabled, Sound(b), v \in ValuesOf[t]
      PROVE  Encoded(v2, b, Serialized(m, b, v, kind, enabled))
  <2>1. Serialized(m, b, v, kind, enabled) = SerializeMapping(m, b, v, kind, enabled)
    BY <1>4 DEF Serialized
  <2>2. v \in Seq(K \X V)
    BY <1>1, <1>5
  <2> HIDE DEF K, V
  <2>3. Encoded(v2, b, SerializeMapping(m, b, v, kind, enabled))
    BY <1>4, <1>5, <2>2, EncodedMapping
  <2> QED
    BY <2>1, <2>3
<1> QED
  BY <1>4, <1>5 DEF m

\* A machine of primitives is one for a plain number.
LEMMA PrimitiveMachine ==
  ASSUME Recursion, NEW t \in Descs, NEW id, NEW header, NEW v2 \in BOOLEAN,
         MachineFor(t, id, header, v2).m = "Primitive"
  PROVE  MachineFor(t, id, header, v2).size \in Widths
<1>1. IsDescription(t)
  BY TypesAssumption
<1>2. MachineFor(t, id, header, v2) = BuiltMachine(t, id, header, v2)
  BY DEF Recursion
<1> DEFINE m == BuiltMachine(t, id, header, v2)
<1>3. t.k \in {"prim", "char", "string", "bytes", "enum", "bitmask", "opt", "list", "seq", "array",
               "map", "struct", "union"}
  BY <1>1 DEF IsDescription
<1>4. CASE t.k = "prim"
  <2>1. m = [m |-> "Primitive", size |-> t.size]
    BY <1>4 DEF BuiltMachine
  <2>2. t.size \in Widths
    BY <1>1, <1>4 DEF IsDescription, Widths
  <2> QED
    BY <1>2, <2>1, <2>2
<1>5. CASE t.k # "prim"
  <2>1. m.m # "Primitive"
    BY <1>3, <1>5 DEF BuiltMachine, SequenceMachineFor, ArrayMachineFor, StructMachineFor, UnionMachineFor
  <2> QED
    BY <1>2, <2>1
<1> QED
  BY <1>4, <1>5

LEMMA FitsSeq ==
  ASSUME Recursion, NEW t \in Descs, t.k = "seq", NEW v2 \in BOOLEAN, Fits(t.of, v2), t.of \in Descs
  PROVE  Fits(t, v2)
<1>1. \A v \in ValuesOf[t] : v \in Seq(ValuesOf[t.of]) /\ Bounded(v, t.max)
  BY ValuesAssumption DEF IsValue
<1> SUFFICES ASSUME NEW id, NEW header
             PROVE  /\ BuiltMachine(t, id, header, v2).m # "Array"
                    /\ \A b, v, kind, enabled :
                         Sound(b) /\ v \in ValuesOf[t]
                           => Encoded(v2, b, Serialized(BuiltMachine(t, id, header, v2), b, v, kind, enabled))
  BY FitsBy
<1> DEFINE m == BuiltMachine(t, id, header, v2)
           V == ValuesOf[t.of]
           sub == MachineFor(t.of, None, header, v2)
<1>2. m = IF sub.m = "Primitive"
          THEN [m |-> "PlainSequence", size |-> sub.size, max |-> t.max]
          ELSE [m |-> "Sequence", of |-> sub, max |-> t.max, header |-> header /\ sub.m # "Char"]
  BY DEF BuiltMachine, SequenceMachineFor
<1>3. Encodes(sub, V, v2)
  BY DEF Fits
<1>4. sub.m = "Primitive" => sub.size \in Widths
  BY PrimitiveMachine
<1> HIDE DEF m, sub
<1>5. \/ m.m = "PlainSequence" /\ m.size \in Widths
      \/ m.m = "Sequence" /\ Encodes(m.of, V, v2)
  BY <1>2, <1>3, <1>4
<1>6. m.max = t.max
  BY <1>2
<1>7. ASSUME NEW b, NEW v, NEW kind, NEW enabled, Sound(b), v \in ValuesOf[t]
      PROVE  Encoded(v2, b, Serialized(m, b, v, kind, enabled))
  <2>1. v \in Seq(V) /\ Bounded(v, m.max)
    BY <1>1, <1>6, <1>7
  <2> HIDE DEF V
  <2>2. CASE m.m = "PlainSequence" /\ m.size \in Widths
    <3>1. Serialized(m, b, v, kind, enabled) = SerializePlainSequence(m, b, v)
      BY <2>2 DEF Serialized
    <3>2. Len(v) \in Nat /\ Sound(b)
      BY <1>7, <2>1
    <3>3. Encoded(v2, b, SerializePlainSequence(m, b, v))
      BY <2>1, <2>2, <3>2, EncodedPlainSequence
    <3> QED
      BY <3>1, <3>3
  <2>3. CASE m.m = "Sequence" /\ Encodes(m.of, V, v2)
    BY <1>7, <2>1, <2>3, FitsSequenceMachine
  <2> QED
    BY <1>5, <2>2, <2>3
<1> QED
  BY <1>5, <1>7 DEF m

LEMMA FitsArray ==
  ASSUME Recursion, NEW t \in Descs, t.k = "array", NEW v2 \in BOOLEAN, Fits(t.of, v2), t.of \in Descs
  PROVE  Fits(t, v2)
<1>1. t.len \in Nat /\ \A v \in ValuesOf[t] : v \in Seq(ValuesOf[t.of]) /\ Len(v) = t.len
  <2>1. IsDescription(t)
    BY TypesAssumption
  <2>2. t.len \in Nat
    BY <2>1 DEF IsDescription
  <2> QED
    BY <2>2, ValuesAssumption DEF IsValue
<1> SUFFICES ASSUME NEW id, NEW header
             PROVE  /\ Encodes(MachineFor(t, id, header, v2), ValuesOf[t], v2)
                    /\ Encodes(StripHeaders(MachineFor(t, id, header, v2)), ValuesOf[t], v2)
  BY DEF Fits
<1> DEFINE m == MachineFor(t, id, header, v2)
           V == ValuesOf[t.of]
           sub == MachineFor(t.of, None, header, v2)
           plain == Innermost(sub) \in {"PlainArray", "Char"}
<1>2. m = IF sub.m = "Primitive"
          THEN [m |-> "PlainArray", size |-> sub.size, len |-> t.len]
          ELSE [m |-> "Array", of |-> StripHeaders(sub), inner |-> Innermost(sub), len |-> t.len,
                header |-> header /\ ~plain]
  BY DEF BuiltMachine, ArrayMachineFor, Recursion
<1>3. Encodes(StripHeaders(sub), V, v2)
  BY DEF Fits
<1>4. sub.m = "Primitive" => sub.size \in Widths
  BY PrimitiveMachine
<1> HIDE DEF m, sub, plain
<1>5. \/ m.m = "PlainArray" /\ m.size \in Widths /\ m.len = t.len
      \/ m.m = "Array" /\ Encodes(m.of, V, v2) /\ m.len = t.len
  BY <1>2, <1>3, <1>4
<1>6. \/ StripHeaders(m) = m
      \/ /\ StripHeaders(m).m = "Array" /\ Encodes(StripHeaders(m).of, V, v2)
         /\ StripHeaders(m).len = t.len
  <2>1. CASE m.m = "Array"
    <3>1. sub.m # "Primitive"
      BY <1>2, <2>1
    <3>2. StripHeaders(m) = [m |-> "Array", of |-> StripHeaders(sub), inner |-> Innermost(sub),
                             len |-> t.len, header |-> FALSE]
      BY <1>2, <2>1, <3>1 DEF StripHeaders
    <3> QED
      BY <1>3, <3>2
  <2>2. CASE m.m # "Array"
    BY <2>2 DEF StripHeaders
  <2> QED
    BY <2>1, <2>2
<1>7. ASSUME NEW x, \/ x.m = "PlainArray" /\ x.size \in Widths /\ x.len = t.len
                    \/ x.m = "Array" /\ Encodes(x.of, V, v2) /\ x.len = t.len
      PROVE  Encodes(x, ValuesOf[t], v2)
  <2> SUFFICES ASSUME NEW b, NEW v, NEW kind, NEW enabled, Sound(b), v \in ValuesOf[t]
               PROVE  Encoded(v2, b, Serialize(x, b, v, kind, enabled))
    BY DEF Encodes
  <2>1. Serialize(x, b, v, kind, enabled) = Serialized(x, b, v, kind, enabled)
    BY DEF Recursion
  <2>2. v \in Seq(V) /\ Len(v) = x.len /\ x.len \in Nat /\ Sound(b)
    BY <1>1, <1>7
  <2> HIDE DEF V
  <2>3. CASE x.m = "PlainArray" /\ x.size \in Widths
    <3>1. Serialized(x, b, v, kind, enabled) = SerializePlainArray(x, b, v)
      BY <2>3 DEF Serialized
    <3>2. Encoded(v2, b, SerializePlainArray(x, b, v))
      BY <2>2, <2>3, EncodedPlainArray
    <3> QED
      BY <2>1, <3>1, <3>2
  <2>4. CASE x.m = "Array" /\ Encodes(x.of, V, v2)
    <3>1. Serialized(x, b, v, kind, enabled) = SerializeArray(x, b, v, kind, enabled)
      BY <2>4 DEF Serialized
    <3>2. Encoded(v2, b, SerializeArray(x, b, v, kind, enabled))
      BY <2>2, <2>4, EncodedArray
    <3> QED
      BY <2>1, <3>1, <3>2
  <2> QED
    BY <1>7, <2>3, <2>4
<1>8. Encodes(m, ValuesOf[t], v2)
  BY <1>5, <1>7
<1>9. Encodes(StripHeaders(m), ValuesOf[t], v2)
  BY <1>6, <1>7, <1>8
<1> QED
  BY <1>8, <1>9 DEF m

LEMMA EncodesOne ==
  ASSUME NEW m, NEW V, NEW v2, Encodes(m, V, v2), NEW v \in V
  PROVE  Encodes(m, {v}, v2)
BY DEF Encodes

LEMMA FitsUnion ==
  ASSUME Recursion, NEW t \in Descs, t.k = "union", NEW v2 \in BOOLEAN,
         \A x \in Parts(t) : Fits(x, v2)
  PROVE  Fits(t, v2)
<1>1. \A u \in ValuesOf[t] :
         /\ LabelOf(t, u) \in ValuesOf[t.disc]
         /\ u.d \in DOMAIN t.cases => u.v \in ValuesOf[t.cases[u.d]]
         /\ u.d \notin DOMAIN t.cases /\ t.default # None => u.v \in ValuesOf[t.default]
  BY ValuesAssumption DEF IsValue
<1>2. /\ Fits(t.disc, v2)
      /\ \A label \in DOMAIN t.cases : Fits(t.cases[label], v2)
      /\ t.default # None => Fits(t.default, v2)
  <2>1. Parts(t) = {t.disc} \cup {t.cases[label] : label \in DOMAIN t.cases} \cup ({t.default} \ {None})
    BY DEF Parts
  <2> QED
    BY <2>1
<1> SUFFICES ASSUME NEW id, NEW header
             PROVE  /\ BuiltMachine(t, id, header, v2).m # "Array"
                    /\ \A b, v, kind, enabled :
                         Sound(b) /\ v \in ValuesOf[t]
                           => Encoded(v2, b, Serialized(BuiltMachine(t, id, header, v2), b, v, kind, enabled))
  BY FitsBy
<1> DEFINE m == BuiltMachine(t, id, header, v2)
           D == ValuesOf[t.disc]
<1>3. m = [m |-> IF t.ext = "appendable" /\ v2 THEN "DelimitedUnion" ELSE "Union",
           disc |-> MachineFor(t.disc, None, v2, v2),
           cases |-> [label \in DOMAIN t.cases |-> MachineFor(t.cases[label], None, v2, v2)],
           default |-> IF t.default = None THEN None ELSE MachineFor(t.default, None, v2, v2),
           defaultDisc |-> t.defaultDisc]
  BY DEF BuiltMachine, UnionMachineFor
<1> HIDE DEF m
<1>4. m.m \in {"Union", "DelimitedUnion"} /\ m.defaultDisc = t.defaultDisc
  BY <1>3
<1>5. Encodes(m.disc, D, v2)
  BY <1>2, <1>3 DEF Fits
<1>6. DOMAIN m.cases = DOMAIN t.cases
      /\ \A label \in DOMAIN t.cases : Encodes(m.cases[label], ValuesOf[t.cases[label]], v2)
  BY <1>2, <1>3 DEF Fits
<1>7. m.default # None => t.default # None /\ Encodes(m.default, ValuesOf[t.default], v2)
  BY <1>2, <1>3 DEF Fits
<1>8. ASSUME NEW b, NEW u, NEW kind, NEW enabled, Sound(b), u \in ValuesOf[t]
      PROVE  Encoded(v2, b, Serialized(m, b, u, kind, enabled))
  <2> DEFINE w == u.v
             V == {w}
             never == "Never"
  <2>1. Label(m, u) \in D
    BY <1>1, <1>4, <1>8 DEF Label, LabelOf
  <2>2. u.d \in DOMAIN m.cases => Encodes(m.cases[u.d], V, v2)
    <3>1. u.d \in DOMAIN m.cases => w \in ValuesOf[t.cases[u.d]]
      BY <1>1, <1>6, <1>8
    <3> QED
      BY <1>6, <3>1, EncodesOne
  <2>3. u.d \notin DOMAIN m.cases /\ m.default # None => Encodes(m.default, V, v2)
    <3>1. u.d \notin DOMAIN m.cases /\ m.default # None => w \in ValuesOf[t.default]
      BY <1>1, <1>6, <1>7, <1>8
    <3> QED
      BY <1>7, <3>1, EncodesOne
  <2>4. u.v \in V
    OBVIOUS
  <2> HIDE DEF V, D, never
  <2>5. Encoded(v2, b, SerializeUnion(m, b, u, kind, enabled, never))
    BY <1>5, <1>8, <2>1, <2>2, <2>3, <2>4, EncodedUnion
  <2>6. Encoded(v2, b, SerializeDelimitedUnion(m, b, u, kind))
    BY <1>5, <1>8, <2>1, <2>2, <2>3, <2>4, EncodedDelimitedUnion
  <2>7. \/ Serialized(m, b, u, kind, enabled) = SerializeUnion(m, b, u, kind, enabled, never)
        \/ Serialized(m, b, u, kind, enabled) = SerializeDelimitedUnion(m, b, u, kind)
    BY <1>4 DEF Serialized, never
  <2> QED
    BY <2>5, <2>6, <2>7
<1> QED
  BY <1>4, <1>8 DEF m

LEMMA FitsStruct ==
  ASSUME Recursion, NEW t \in Descs, t.k = "struct", t.ext # "mutable", NEW v2 \in BOOLEAN,
         \A x \in Parts(t) : Fits(x, v2)
  PROVE  Fits(t, v2)
<1> DEFINE N == Len(t.members)
<1>1. N \in Nat /\ DOMAIN t.members = 1 .. N
  BY TypesAssumption DEF IsDescription
<1>2. \A i \in 1 .. N : t.members[i] \in ToSet(t.members) /\ t.members[i].type \in Parts(t)
  BY <1>1 DEF ToSet, Parts
<1> HIDE DEF N
<1>3. \A v \in ValuesOf[t] : \A i \in 1 .. N : v[t.members[i].name] \in ValuesOf[t.members[i].type]
  BY <1>2, ValuesAssumption DEF IsValue
<1> SUFFICES ASSUME NEW id, NEW header
             PROVE  /\ BuiltMachine(t, id, header, v2).m # "Array"
                    /\ \A b, v, kind, enabled :
                         Sound(b) /\ v \in ValuesOf[t]
                           => Encoded(v2, b, Serialized(BuiltMachine(t, id, header, v2), b, v, kind, enabled))
  BY FitsBy
<1> DEFINE m == BuiltMachine(t, id, header, v2)
           members == [i \in 1 .. N |-> PlainMember(t.members[i], v2)]
<1>4. m = [m |-> IF t.ext = "appendable" /\ v2 THEN "Delimited" ELSE "Struct", keys |-> t.keys,
           members |-> members]
  BY <1>1 DEF BuiltMachine, StructMachineFor
<1> HIDE DEF m
<1>5. m.m \in {"Struct", "Delimited"} /\ m.members = members
  BY <1>4
<1>6. Len(m.members) = N
  BY <1>1, <1>5
<1>7. \A i \in 1 .. N : /\ m.members[i].name = t.members[i].name
                        /\ m.members[i].machine = MachineFor(t.members[i].type, t.members[i].id, v2, v2)
  BY <1>5 DEF PlainMember
<1> HIDE DEF members
<1>8. ASSUME NEW b, NEW v, NEW kind, NEW enabled, Sound(b), v \in ValuesOf[t]
      PROVE  Encoded(v2, b, Serialized(m, b, v, kind, enabled))
  <2>1. ASSUME NEW i \in 1 .. N PROVE Encodes(m.members[i].machine, {v[m.members[i].name]}, v2)
    <3> DEFINE x == t.members[i]
               w == v[x.name]
    <3>1. Encodes(MachineFor(x.type, x.id, v2, v2), ValuesOf[x.type], v2)
      BY <1>2 DEF Fits
    <3>2. w \in ValuesOf[x.type]
      BY <1>3, <1>8
    <3>3. m.members[i].machine = MachineFor(x.type, x.id, v2, v2) /\ v[m.members[i].name] = w
      BY <1>7
    <3> HIDE DEF x, w
    <3> QED
      BY <3>1, <3>2, <3>3, EncodesOne
  <2>2. Len(m.members) \in Nat
    BY <1>1, <1>6
  <2>3. \A i \in 1 .. Len(m.members) : Encodes(m.members[i].machine, {v[m.members[i].name]}, v2)
    BY <1>6, <2>1
  <2>4. Encoded(v2, b, SerializeMembers(m, b, v, kind, enabled))
    BY <1>8, <2>2, <2>3, EncodedMembers
  <2>5. Encoded(v2, b, SerializeDelimited(m, b, v, kind, enabled))
    BY <1>8, <2>2, <2>3, EncodedDelimited
  <2>6. \/ Serialized(m, b, v, kind, enabled) = SerializeMembers(m, b, v, kind, enabled)
        \/ Serialized(m, b, v, kind, enabled) = SerializeDelimited(m, b, v, kind, enabled)
    BY <1>5 DEF Serialized
  <2> QED
    BY <2>4, <2>5, <2>6
<1> QED
  BY <1>5, <1>8 DEF m

LEMMA OnlyOptional ==
  ASSUME NEW t, IsDescription(t), t.k # "opt", NEW id, NEW header, NEW v2
  PROVE  BuiltMachine(t, id, header, v2).m # "Optional"
<1>1. t.k \in {"prim", "char", "string", "bytes", "enum", "bitmask", "list", "seq", "array",
               "map", "struct", "union"}
  BY DEF IsDescription
<1>2. CASE t.k \in {"prim", "char", "string", "bytes", "enum", "bitmask", "list", "map"}
  BY <1>2 DEF BuiltMachine
<1>3. CASE t.k = "seq"
  BY <1>3 DEF BuiltMachine, SequenceMachineFor
<1>4. CASE t.k = "array"
  BY <1>4 DEF BuiltMachine, ArrayMachineFor
<1>5. CASE t.k = "struct"
  BY <1>5 DEF BuiltMachine, StructMachineFor
<1>6. CASE t.k = "union"
  BY <1>6 DEF BuiltMachine, UnionMachineFor
<1> QED
  BY <1>1, <1>2, <1>3, <1>4, <1>5, <1>6

\* A member of a mutable struct, whose machine is the one inside if it is optional.
LEMMA MutableMemberCarries ==
  ASSUME Recursion, NEW member, member.type \in Descs, NEW v2 \in BOOLEAN, Fits(member.type, v2),
         member.type.k = "opt" => Fits(member.type.of, v2),
         NEW v, v[member.name] \in ValuesOf[member.type]
  PROVE  Carries(MutableMember(member, v2), v, v2)
<1> DEFINE t == member.type
           m == MachineFor(t, member.id, v2, v2)
           w == v[member.name]
           x == MutableMember(member, v2)
<1>1. /\ x.name = member.name /\ x.optional = (m.m = "Optional")
      /\ x.machine = IF m.m = "Optional" THEN m.of ELSE m
  BY DEF MutableMember
<1>2. m = BuiltMachine(t, member.id, v2, v2)
  BY DEF Recursion
<1>3. Encodes(m, ValuesOf[t], v2)
  BY DEF Fits
<1>4. IsDescription(t) /\ IsValue(t, w)
  BY TypesAssumption, ValuesAssumption
<1>5. t \in Descs /\ w \in ValuesOf[t]
  OBVIOUS
<1>6. CASE t.k = "opt"
  <2>1. m = [m |-> "Optional", of |-> MachineFor(t.of, None, v2, v2), id |-> member.id, v2 |-> v2]
    BY <1>2, <1>6 DEF BuiltMachine
  <2>2. Encodes(MachineFor(t.of, None, v2, v2), ValuesOf[t.of], v2)
    BY <1>6 DEF Fits
  <2>3. w \in {None} \cup ValuesOf[t.of]
    BY <1>4, <1>6 DEF IsValue
  <2> HIDE DEF m, x, w, t
  <2>4. x.machine = MachineFor(t.of, None, v2, v2) /\ x.optional /\ x.name = member.name
    BY <1>1, <2>1
  <2>5. CASE w = None
    BY <2>4, <2>5 DEF Carries, w, x
  <2>6. CASE w # None
    <3>1. Encodes(x.machine, {w}, v2)
      BY <2>2, <2>3, <2>4, <2>6, EncodesOne
    <3> QED
      BY <2>4, <3>1 DEF Carries, w, x
  <2> QED
    BY <2>5, <2>6
<1>7. CASE t.k # "opt"
  <2>2. m.m # "Optional"
    BY <1>2, <1>4, <1>7, OnlyOptional
  <2>3. x.machine = m /\ x.name = member.name
    BY <1>1, <2>2
  <2> HIDE DEF m, x, w, t
  <2>4. Encodes(m, {w}, v2)
    BY <1>3, <1>5, EncodesOne
  <2> QED
    BY <2>3, <2>4 DEF Carries, w, x
<1> QED
  BY <1>6, <1>7

\* N members with ids of their own.
Apart(s, N) ==
  /\ s \in [1 .. N -> ToSet(s)]
  /\ \A i \in 1 .. N : s[i].id \in Nat
  /\ \A i, j \in 1 .. N : i # j => s[i].id # s[j].id

OutOf(r, s, N) == Len(r) = N /\ \A i \in 1 .. N : \E j \in 1 .. N : r[i] = s[j]

\* The members of a mutable struct in the order they are written in.
LEMMA OrderedMembers ==
  ASSUME NEW m, NEW s, m.members = s, NEW N \in Nat, Apart(s, N), NEW kind
  PROVE  OutOf(MemberOrder(m, kind), s, N)
<1> DEFINE S == ToSet(s)
<1>1. s \in [1 .. N -> S]
  BY DEF Apart
<1>2. Len(s) = N /\ DOMAIN s = 1 .. N
  BY <1>1
<1>3. S = {s[i] : i \in 1 .. N}
  BY <1>2 DEF ToSet
<1>4. (\A i \in 1 .. N : s[i].id \in Nat) /\ (\A i, j \in 1 .. N : i # j => s[i].id # s[j].id)
  BY DEF Apart
<1>5. MemberOrder(m, kind) = s \/ MemberOrder(m, kind) = ById(s)
  BY DEF MemberOrder
<1>6. ById(s) \in [1 .. N -> S]
  BY <1>2, <1>4, ByIdOrdered
<1>7. MemberOrder(m, kind) \in [1 .. N -> S]
  BY <1>1, <1>5, <1>6
<1> DEFINE r == MemberOrder(m, kind)
<1> HIDE DEF S, r
<1>8. Len(r) = N
  BY <1>7 DEF r
<1>9. \A i \in 1 .. N : r[i] \in S
  BY <1>7 DEF r
<1>10. \A i \in 1 .. N : \E j \in 1 .. N : r[i] = s[j]
  BY <1>3, <1>9
<1> QED
  BY <1>8, <1>10 DEF r, OutOf

LEMMA FitsMutable ==
  ASSUME Recursion, NEW t \in Descs, t.k = "struct", t.ext = "mutable", NEW v2 \in BOOLEAN,
         \A x \in Parts(t) : x \in Descs /\ Fits(x, v2) /\ \A y \in Parts(x) : Fits(y, v2)
  PROVE  Fits(t, v2)
<1> DEFINE N == Len(t.members)
<1>0. IsDescription(t)
  BY TypesAssumption
<1>1. N \in Nat /\ DOMAIN t.members = 1 .. N
  BY <1>0 DEF IsDescription
<1>2. \A i \in 1 .. N : t.members[i] \in ToSet(t.members) /\ t.members[i].type \in Parts(t)
  BY <1>1 DEF ToSet, Parts
<1>3. /\ \A i \in 1 .. N : t.members[i].id \in Nat
      /\ \A i, j \in 1 .. N : i # j => t.members[i].id # t.members[j].id
  BY <1>0, <1>1 DEF IsDescription
<1> HIDE DEF N
<1>4. \A v \in ValuesOf[t] : \A i \in 1 .. N : v[t.members[i].name] \in ValuesOf[t.members[i].type]
  BY <1>2, ValuesAssumption DEF IsValue
<1> SUFFICES ASSUME NEW id, NEW header
             PROVE  /\ BuiltMachine(t, id, header, v2).m # "Array"
                    /\ \A b, v, kind, enabled :
                         Sound(b) /\ v \in ValuesOf[t]
                           => Encoded(v2, b, Serialized(BuiltMachine(t, id, header, v2), b, v, kind, enabled))
  BY FitsBy
<1> DEFINE m == BuiltMachine(t, id, header, v2)
           members == [i \in 1 .. N |-> MutableMember(t.members[i], v2)]
<1>5. m = [m |-> "Mutable", v2 |-> v2, keys |-> t.keys, members |-> members]
  BY <1>1 DEF BuiltMachine, StructMachineFor
<1> HIDE DEF m
<1>6. m.m = "Mutable" /\ m.v2 = v2 /\ m.members = members
  BY <1>5
<1>7. DOMAIN members = 1 .. N /\ \A i \in 1 .. N : members[i] = MutableMember(t.members[i], v2)
  OBVIOUS
<1> HIDE DEF members
<1>8. members \in [1 .. N -> ToSet(members)]
  <2>1. members = [i \in 1 .. N |-> members[i]]
    BY DEF members
  <2>2. \A i \in 1 .. N : members[i] \in ToSet(members)
    BY <1>7 DEF ToSet
  <2> QED
    BY <2>1, <2>2
<1>9. \A i \in 1 .. N : members[i].id = t.members[i].id
  BY <1>7 DEF MutableMember
<1>10. \A i \in 1 .. N : members[i].id \in Nat
  BY <1>3, <1>6, <1>9
<1>11. \A i, j \in 1 .. N : i # j => members[i].id # members[j].id
  BY <1>3, <1>6, <1>9
<1>12. ASSUME NEW b, NEW v, NEW kind, NEW enabled, Sound(b), v \in ValuesOf[t]
      PROVE  Encoded(v2, b, Serialized(m, b, v, kind, enabled))
  <2> DEFINE order == MemberOrder(m, kind)
  <2>1. Apart(members, N)
    BY <1>8, <1>10, <1>11 DEF Apart
  <2>7. OutOf(order, members, N)
    BY <1>1, <1>6, <2>1, OrderedMembers
  <2>2. ASSUME NEW j \in 1 .. N PROVE Carries(m.members[j], v, v2)
    <3> DEFINE x == t.members[j]
    <3>1. x.type \in Parts(t) /\ v[x.name] \in ValuesOf[x.type]
      BY <1>2, <1>4, <1>12
    <3>2. m.members[j] = MutableMember(x, v2)
      BY <1>6, <1>7
    <3> HIDE DEF x
    <3>3. x.type \in Descs /\ Fits(x.type, v2)
      BY <3>1
    <3>4. x.type.k = "opt" => Fits(x.type.of, v2)
      BY <3>1 DEF Parts
    <3>5. Carries(MutableMember(x, v2), v, v2)
      BY <3>1, <3>3, <3>4, MutableMemberCarries
    <3> QED
      BY <3>2, <3>5
  <2> HIDE DEF order
  <2>3. \A i \in 1 .. Len(order) : Carries(order[i], v, v2)
    BY <1>6, <2>2, <2>7 DEF OutOf
  <2>4. Len(order) \in Nat
    BY <1>1, <2>7 DEF OutOf
  <2>5. Serialized(m, b, v, kind, enabled) = SerializeMutable(m, b, v, kind, enabled)
    BY <1>6 DEF Serialized
  <2>6. Encoded(v2, b, SerializeMutable(m, b, v, kind, enabled))
    BY <1>6, <1>12, <2>3, <2>4, EncodedMutable DEF order
  <2> QED
    BY <2>5, <2>6
<1> QED
  BY <1>6, <1>12 DEF m

\* Every machine of a type writes every value of that type.
LEMMA AllFit ==
  ASSUME Recursion, NEW v2 \in BOOLEAN
  PROVE  \A t \in Descs : Fits(t, v2)
<1> DEFINE T == {d \in Nat : \A t \in Descs : Depth[t] <= d => Fits(t, v2)}
           Deep(d) == \A t \in Descs : Depth[t] < d => Fits(t, v2)
<1>1. \A t \in Descs : Depth[t] \in Nat /\ IsDescription(t)
                       /\ \A x \in Parts(t) : x \in Descs /\ Depth[x] < Depth[t]
  BY TypesAssumption
<1>2. ASSUME NEW t \in Descs, \A y \in Descs : Depth[y] < Depth[t] => Fits(y, v2) PROVE Fits(t, v2)
  <2>1. \A x \in Parts(t) : x \in Descs /\ Fits(x, v2)
    BY <1>1, <1>2
  <2>2. \A x \in Parts(t) : \A y \in Parts(x) : Fits(y, v2)
    <3> SUFFICES ASSUME NEW x \in Parts(t), NEW y \in Parts(x) PROVE Fits(y, v2)
      OBVIOUS
    <3>1. x \in Descs /\ Depth[x] < Depth[t]
      BY <1>1
    <3>2. y \in Descs /\ Depth[y] < Depth[x]
      BY <1>1, <3>1
    <3>3. Depth[y] < Depth[t]
      BY <1>1, <3>1, <3>2
    <3> QED
      BY <1>2, <3>2, <3>3
  <2>3. IsDescription(t)
    BY <1>1
  <2>4. CASE t.k \in {"prim", "char", "string", "bytes", "enum", "bitmask"}
    BY <2>4, FitsSimple
  <2>5. CASE t.k \in {"opt", "list", "seq", "array"}
    <3>1. t.of \in Parts(t)
      BY <2>5 DEF Parts
    <3>2. t.of \in Descs /\ Fits(t.of, v2)
      BY <2>1, <3>1
    <3> QED
      BY <2>5, <3>2, FitsOptional, FitsList, FitsSeq, FitsArray
  <2>6. CASE t.k = "map"
    <3>1. t.key \in Parts(t) /\ t.val \in Parts(t)
      BY <2>6 DEF Parts
    <3> QED
      BY <2>1, <2>6, <3>1, FitsMap
  <2>7. CASE t.k = "struct" /\ t.ext = "mutable"
    BY <2>1, <2>2, <2>7, FitsMutable
  <2>8. CASE t.k = "struct" /\ t.ext # "mutable"
    BY <2>1, <2>8, FitsStruct
  <2>9. CASE t.k = "union"
    BY <2>1, <2>9, FitsUnion
  <2> QED
    BY <2>3, <2>4, <2>5, <2>6, <2>7, <2>8, <2>9 DEF IsDescription
<1>3. 0 \in T
  <2> SUFFICES ASSUME NEW t \in Descs, Depth[t] <= 0 PROVE Fits(t, v2)
    OBVIOUS
  <2>1. \A y \in Descs : ~(Depth[y] < Depth[t])
    BY <1>1
  <2> QED
    BY <1>2, <2>1
<1>4. ASSUME NEW d \in T PROVE d + 1 \in T
  <2> SUFFICES ASSUME NEW t \in Descs, Depth[t] <= d + 1 PROVE Fits(t, v2)
    OBVIOUS
  <2>1. \A y \in Descs : Depth[y] < Depth[t] => Depth[y] <= d
    BY <1>1
  <2> QED
    BY <1>2, <1>4, <2>1
<1>5. T = Nat
  <2>1. T \in SUBSET Nat
    OBVIOUS
  <2> HIDE DEF T
  <2> QED
    BY <1>3, <1>4, <2>1, SetInduction
<1> QED
  BY <1>1, <1>5

(***************************************************************************)
(* Reading.  A reader's buffer holds what was written between two states   *)
(* of the writer's buffer when it stands where the first one stood and has *)
(* the cells that are between them.                                        *)
(***************************************************************************)
Extends(b, r) == Wrote(FALSE, b, r)

SameWithin(cells, others, p, q) ==
  \A i \in Nat : p <= i /\ i < q => /\ i \in DOMAIN cells <=> i \in DOMAIN others
                                    /\ i \in DOMAIN others => cells[i] = others[i]

Holds(d, b, r) ==
  /\ IsBufferRecord(d)
  /\ d.pos = b.pos /\ d.offset = b.offset /\ d.alignMax = b.alignMax /\ d.endian = b.endian
  /\ d.error = "none"
  /\ d.size \in Nat /\ r.pos <= d.size
  /\ SameWithin(d.cells, r.cells, b.pos, r.pos)

\* What comes of reading up to position p.
Came(d, p, v) == [b |-> Seek(d, p), v |-> v]

LEMMA SeekFacts ==
  ASSUME NEW d, IsBufferRecord(d), NEW p
  PROVE  /\ IsBufferRecord(Seek(d, p))
         /\ Seek(d, p).pos = p /\ Seek(d, p).size = d.size /\ Seek(d, p).offset = d.offset
         /\ Seek(d, p).alignMax = d.alignMax /\ Seek(d, p).endian = d.endian
         /\ Seek(d, p).error = d.error /\ Seek(d, p).cells = d.cells
         /\ \A q : Seek(Seek(d, p), q) = Seek(d, q)
         /\ Seek(d, d.pos) = d
<1> DEFINE s == Seek(d, p)
<1>1. /\ IsBufferRecord(s) /\ s.pos = p /\ s.size = d.size /\ s.offset = d.offset
      /\ s.alignMax = d.alignMax /\ s.endian = d.endian /\ s.error = d.error /\ s.cells = d.cells
  BY DEF Seek, IsBufferRecord
<1>2. ASSUME NEW q PROVE Seek(s, q) = Seek(d, q)
  BY DEF Seek, IsBufferRecord
<1>3. Seek(d, d.pos) = d
  BY DEF Seek, IsBufferRecord
<1> QED
  BY <1>1, <1>2, <1>3

LEMMA ExtendsBy ==
  ASSUME NEW v2, NEW b, NEW r, Wrote(v2, b, r)
  PROVE  Extends(b, r)
BY DEF Extends, Wrote

LEMMA EncodedExtends ==
  ASSUME NEW v2, NEW b, NEW r, Encoded(v2, b, r)
  PROVE  Extends(b, r)
BY DEF Extends, Encoded, Wrote

LEMMA ExtendsMore ==
  ASSUME NEW b, NEW c, NEW r, Sound(b), Extends(b, c), Extends(c, r)
  PROVE  Extends(b, r)
BY WroteMore DEF Extends

LEMMA ExtendsFacts ==
  ASSUME NEW b, NEW r, Sound(b), Extends(b, r)
  PROVE  /\ Sound(r)
         /\ b.pos \in Nat /\ r.pos \in Nat /\ b.pos <= r.pos
         /\ r.offset = b.offset /\ r.alignMax = b.alignMax /\ r.endian = b.endian
BY DEF Extends, Wrote, Sound

\* First one part is read, then the rest.
LEMMA HoldsParts ==
  ASSUME NEW b, NEW c, NEW r, NEW d, Sound(b), Extends(b, c), Extends(c, r), Holds(d, b, r)
  PROVE  Holds(d, b, c) /\ Holds(Seek(d, c.pos), c, r)
<1>1. b.pos \in Nat /\ c.pos \in Nat /\ r.pos \in Nat /\ b.pos <= c.pos /\ c.pos <= r.pos /\ Sound(c)
  BY ExtendsFacts
<1>2. SameBefore(c.cells, r.cells, c.pos)
  BY DEF Extends, Wrote
<1>3. c.offset = b.offset /\ c.alignMax = b.alignMax /\ c.endian = b.endian
  BY ExtendsFacts
<1>4. SameWithin(d.cells, c.cells, b.pos, c.pos)
  <2> SUFFICES ASSUME NEW i \in Nat, b.pos <= i, i < c.pos
               PROVE  /\ i \in DOMAIN d.cells <=> i \in DOMAIN c.cells
                      /\ i \in DOMAIN c.cells => d.cells[i] = c.cells[i]
    BY DEF SameWithin
  <2>1. i < r.pos
    BY <1>1
  <2>2. /\ i \in DOMAIN d.cells <=> i \in DOMAIN r.cells
        /\ i \in DOMAIN r.cells => d.cells[i] = r.cells[i]
    BY <2>1 DEF Holds, SameWithin
  <2>3. /\ i \in DOMAIN r.cells <=> i \in DOMAIN c.cells
        /\ i \in DOMAIN c.cells => r.cells[i] = c.cells[i]
    BY <1>2 DEF SameBefore
  <2> QED
    BY <2>2, <2>3
<1>5. SameWithin(d.cells, r.cells, c.pos, r.pos)
  <2> SUFFICES ASSUME NEW i \in Nat, c.pos <= i, i < r.pos
               PROVE  /\ i \in DOMAIN d.cells <=> i \in DOMAIN r.cells
                      /\ i \in DOMAIN r.cells => d.cells[i] = r.cells[i]
    BY DEF SameWithin
  <2>1. b.pos <= i
    BY <1>1
  <2> QED
    BY <2>1 DEF Holds, SameWithin
<1>6. IsBufferRecord(d) /\ d.size \in Nat /\ r.pos <= d.size /\ c.pos <= d.size /\ d.error = "none"
  BY <1>1 DEF Holds
<1>7. d.pos = b.pos /\ d.offset = b.offset /\ d.alignMax = b.alignMax /\ d.endian = b.endian
  BY DEF Holds
<1>8. Holds(d, b, c)
  BY <1>4, <1>6, <1>7 DEF Holds
<1> DEFINE e == Seek(d, c.pos)
<1>9. /\ IsBufferRecord(e) /\ e.pos = c.pos /\ e.size = d.size /\ e.offset = d.offset
      /\ e.alignMax = d.alignMax /\ e.endian = d.endian /\ e.error = d.error /\ e.cells = d.cells
  BY <1>6, SeekFacts
<1> HIDE DEF e
<1>10. Holds(e, c, r)
  BY <1>3, <1>5, <1>6, <1>7, <1>9 DEF Holds
<1> QED
  BY <1>8, <1>10 DEF e

\* A reader cannot tell that a check failed.
LEMMA CheckHeld ==
  ASSUME NEW d, NEW b, NEW w, IsBufferRecord(w), NEW holds, NEW error, Holds(d, b, Check(w, holds, error))
  PROVE  Holds(d, b, w) /\ Check(w, holds, error).pos = w.pos
<1>1. Check(w, holds, error).pos = w.pos /\ Check(w, holds, error).cells = w.cells
  BY CheckFacts
<1> QED
  BY <1>1 DEF Holds

\* A cell is read as it was written.
LEMMA ReadWritten ==
  ASSUME NEW b, Sound(b), NEW n \in Nat \ {0}, NEW unit, NEW endian, endian \in {"any", b.endian}, NEW v,
         NEW w, w = WriteIn(b, n, unit, endian, v), NEW d, Holds(d, b, w)
  PROVE  /\ w.pos = b.pos + n
         /\ d.pos = b.pos /\ b.pos \in DOMAIN d.cells /\ d.cells[b.pos].width = n /\ d.cells[b.pos].v = v
         /\ Read(d, n) = Came(d, w.pos, v)
<1> DEFINE cell == [width |-> n, unit |-> unit, endian |-> endian, v |-> v]
<1>0. IsBufferRecord(b) /\ b.pos \in Nat /\ b.size \in Nat \ {0} /\ n \in Nat
  BY DEF Sound
<1>1. w.pos = b.pos + n /\ w.cells = PutCell(b.cells, b.pos, n, cell)
  BY <1>0, WriteInFacts
<1>2. cell.width = n /\ cell.endian = endian /\ cell.v = v
  OBVIOUS
<1> HIDE DEF cell
<1>3. b.pos \in DOMAIN w.cells /\ w.cells[b.pos] = cell
  <2>1. b.pos \in b.pos .. b.pos + n - 1
    BY <1>0
  <2> QED
    BY <1>1, <2>1 DEF PutCell
<1>4. b.pos <= b.pos /\ b.pos < w.pos
  BY <1>0, <1>1
<1>5. b.pos \in DOMAIN d.cells /\ d.cells[b.pos] = cell
  BY <1>0, <1>3, <1>4 DEF Holds, SameWithin
<1>6. d.pos = b.pos /\ d.endian = b.endian /\ d.size \in Nat /\ w.pos <= d.size
  BY DEF Holds
<1>7. ~(d.pos + n > d.size) /\ d.pos + n <= d.size /\ d.pos + n = w.pos
  BY <1>0, <1>1, <1>6
<1>8. Read(d, n) = [b |-> [d EXCEPT !.pos = d.pos + n], v |-> v]
  <2>1. d.pos \in DOMAIN d.cells /\ d.cells[d.pos] = cell
    BY <1>5, <1>6
  <2>2. cell.width = n /\ cell.endian \in {"any", d.endian} /\ cell.v = v
    BY <1>2, <1>6
  <2>3. ~Short(d, n)
    BY <1>7 DEF Short
  <2>4. Unpacked(d, n) = v
    BY <2>1, <2>2, <2>3 DEF Unpacked
  <2>5. Past(d, n) = [d EXCEPT !.pos = d.pos + n]
    BY <2>3 DEF Past
  <2> QED
    BY <2>4, <2>5 DEF Read
<1>9. Read(d, n) = Came(d, w.pos, v)
  BY <1>7, <1>8 DEF Came, Seek
<1> QED
  BY <1>1, <1>2, <1>5, <1>6, <1>9

\* A number where the buffer stands.
LEMMA ReadHere ==
  ASSUME NEW b, Sound(b), NEW n \in Nat \ {0}, NEW v, NEW w, w = Write(b, n, v), NEW d, Holds(d, b, w)
  PROVE  w.pos = b.pos + n /\ Read(d, n) = Came(d, w.pos, v)
<1> DEFINE e == IF n = 1 THEN "any" ELSE b.endian
           x == WriteIn(b, n, n, e, v)
           holds == InRange(n, v)
           error == "struct.error"
<1>1. w = Check(x, holds, error) /\ e \in {"any", b.endian}
  BY DEF Write
<1> HIDE DEF e, holds, error
<1>2. IsBufferRecord(x)
  BY WriteInFacts DEF Sound
<1>3. Holds(d, b, x) /\ x.pos = w.pos
  BY <1>1, <1>2, CheckHeld
<1> QED
  BY <1>1, <1>3, ReadWritten

LEMMA AlignHeld ==
  ASSUME NEW b, Sound(b), NEW a \in Widths, NEW r, Extends(Align(b, a), r), NEW d, Holds(d, b, r)
  PROVE  /\ Align(d, a) = Seek(d, Align(b, a).pos)
         /\ Sound(Align(b, a)) /\ Extends(b, Align(b, a))
         /\ Holds(Seek(d, Align(b, a).pos), Align(b, a), r)
<1>1. Extends(b, Align(b, a)) /\ Sound(Align(b, a))
  BY AlignWrote DEF Extends, Wrote
<1>2. Align(d, a) = Seek(d, Align(b, a).pos)
  <2>1. d.pos = b.pos /\ d.offset = b.offset /\ d.alignMax = b.alignMax
    BY DEF Holds
  <2>2. Align(b, a).pos = Aligned(b.pos, b.offset, AtMost(a, b.alignMax))
    BY DEF Align, Sound, IsBufferRecord
  <2> QED
    BY <2>1, <2>2 DEF Align, Seek
<1> QED
  BY <1>1, <1>2, HoldsParts

\* A number that was written aligned is read aligned.
LEMMA ReadNumber ==
  ASSUME NEW b, Sound(b), NEW a \in Widths, NEW v, NEW w, w = Write(Align(b, a), a, v), NEW d, Holds(d, b, w)
  PROVE  /\ Number(d, a) = Came(d, w.pos, v)
         /\ w.pos = Align(b, a).pos + a /\ b.pos < w.pos /\ Extends(b, w)
<1> DEFINE c == Align(b, a)
           e == Seek(d, c.pos)
<1>1. Sound(c) /\ b.pos \in Nat /\ c.pos \in Nat /\ b.pos <= c.pos /\ a \in Nat \ {0}
  BY AlignWrote DEF Wrote, Sound, Widths
<1>2. Encoded(FALSE, b, w)
  BY NumberEncoded
<1>3. Encoded(FALSE, c, w)
  BY <1>1, WriteEncoded
<1>4. Extends(b, w) /\ Extends(c, w)
  BY <1>2, <1>3, EncodedExtends
<1>5. Align(d, a) = e /\ Holds(e, c, w)
  BY <1>4, AlignHeld
<1>6. w = Write(c, a, v)
  OBVIOUS
<1> HIDE DEF c
<1>7. w.pos = c.pos + a /\ Read(e, a) = Came(e, w.pos, v)
  BY <1>1, <1>5, <1>6, ReadHere
<1>8. IsBufferRecord(d)
  BY DEF Holds
<1>9. Came(e, w.pos, v) = Came(d, w.pos, v)
  BY <1>8, SeekFacts DEF Came, e
<1>10. Number(d, a) = Came(d, w.pos, v)
  BY <1>5, <1>7, <1>9 DEF Number
<1> QED
  BY <1>1, <1>4, <1>7, <1>10 DEF c

\* A place that was kept for a size, and what stands behind it.
LEMMA Patched ==
  ASSUME NEW c, Sound(c), NEW start, start = Write(c, 4, 0), NEW done, Extends(start, done), NEW v,
         NEW r, r = Patch(done, c.pos, v), NEW d, Holds(d, c, r)
  PROVE  /\ start.pos = c.pos + 4 /\ r.pos = done.pos
         /\ Read(d, 4) = Came(d, start.pos, v)
         /\ Holds(Seek(d, start.pos), start, done)
<1> DEFINE s == Seek(done, c.pos)
           n == 4
           z == 0
           w == WriteIn(s, n, n, s.endian, v)
           cell == [width |-> n, unit |-> n, endian |-> s.endian, v |-> v]
<1>1. r = Seek(w, done.pos) /\ start = Write(c, n, z)
  BY DEF Patch, Write, Check, InRange
<1>2. n \in Nat \ {0} /\ n \in Widths /\ n # 1 /\ n = 4
  BY DEF Widths
<1> HIDE DEF n, z
<1>3. start.pos = c.pos + n /\ Extends(c, start) /\ c.pos \in Nat
  BY <1>1, <1>2, WriteEncoded, EncodedExtends DEF Sound
<1>4. Sound(done) /\ start.pos <= done.pos /\ done.pos \in Nat /\ done.size \in Nat \ {0} /\ IsBufferRecord(done)
  BY DEF Extends, Wrote, Sound
<1>5. /\ IsBufferRecord(s) /\ s.pos = c.pos /\ s.size = done.size /\ s.endian = done.endian /\ s.cells = done.cells
  BY <1>4, SeekFacts
<1> HIDE DEF s
<1>6. IsBufferRecord(w) /\ w.cells = IF n = 0 THEN s.cells ELSE PutCell(s.cells, s.pos, n, cell)
  BY <1>2, <1>3, <1>4, <1>5, WriteInFacts
<1>7. w.cells = PutCell(done.cells, c.pos, n, cell)
  BY <1>2, <1>5, <1>6
<1> HIDE DEF w
<1>8. r.pos = done.pos /\ r.cells = w.cells
  BY <1>1, <1>6, SeekFacts
<1>9. cell.width = n /\ cell.endian = done.endian /\ cell.v = v
  BY <1>5
<1> HIDE DEF cell
<1>10. r.cells = PutCell(done.cells, c.pos, n, cell)
  BY <1>7, <1>8
<1>11. c.pos \in DOMAIN r.cells /\ r.cells[c.pos] = cell
  <2>1. c.pos \in c.pos .. c.pos + n - 1
    BY <1>2, <1>3
  <2> QED
    BY <1>10, <2>1 DEF PutCell
<1>12. SameWithin(r.cells, done.cells, start.pos, done.pos)
  <2> SUFFICES ASSUME NEW i \in Nat, start.pos <= i
               PROVE  /\ i \in DOMAIN r.cells <=> i \in DOMAIN done.cells
                      /\ i \in DOMAIN done.cells => r.cells[i] = done.cells[i]
    BY DEF SameWithin
  <2>1. i \notin c.pos .. c.pos + n - 1 /\ i # c.pos
    BY <1>2, <1>3
  <2> QED
    BY <1>10, <2>1 DEF PutCell
<1>13. done.endian = c.endian /\ start.endian = c.endian /\ start.offset = c.offset /\ start.alignMax = c.alignMax
  BY <1>3 DEF Extends, Wrote
<1>14. /\ IsBufferRecord(d) /\ d.pos = c.pos /\ d.endian = c.endian /\ d.offset = c.offset
       /\ d.alignMax = c.alignMax /\ d.error = "none" /\ d.size \in Nat /\ r.pos <= d.size
  BY DEF Holds
<1>15. c.pos < r.pos /\ d.pos + n <= d.size /\ d.pos + n = start.pos
  BY <1>2, <1>3, <1>4, <1>8, <1>14
<1>16. d.pos \in DOMAIN d.cells /\ d.cells[d.pos] = cell
  <2>1. c.pos <= c.pos
    BY <1>3
  <2> QED
    BY <1>3, <1>11, <1>14, <1>15, <2>1 DEF Holds, SameWithin
<1>17. Read(d, n) = Came(d, start.pos, v)
  <2>1. ~Short(d, n)
    BY <1>2, <1>3, <1>14, <1>15 DEF Short
  <2>2. cell.endian \in {"any", d.endian}
    BY <1>9, <1>13, <1>14
  <2>3. Unpacked(d, n) = v
    BY <1>9, <1>16, <2>1, <2>2 DEF Unpacked
  <2>4. Past(d, n) = [d EXCEPT !.pos = d.pos + n]
    BY <2>1 DEF Past
  <2> QED
    BY <1>15, <2>3, <2>4 DEF Read, Came, Seek
<1> DEFINE e == Seek(d, start.pos)
<1>18. /\ IsBufferRecord(e) /\ e.pos = start.pos /\ e.size = d.size /\ e.offset = d.offset
       /\ e.alignMax = d.alignMax /\ e.endian = d.endian /\ e.error = d.error /\ e.cells = d.cells
  BY <1>14, SeekFacts
<1> HIDE DEF e
<1>19. SameWithin(e.cells, done.cells, start.pos, done.pos)
  <2> SUFFICES ASSUME NEW i \in Nat, start.pos <= i, i < done.pos
               PROVE  /\ i \in DOMAIN e.cells <=> i \in DOMAIN done.cells
                      /\ i \in DOMAIN done.cells => e.cells[i] = done.cells[i]
    BY DEF SameWithin
  <2>1. c.pos <= i /\ i < r.pos
    BY <1>2, <1>3, <1>8
  <2>2. /\ i \in DOMAIN d.cells <=> i \in DOMAIN r.cells
        /\ i \in DOMAIN r.cells => d.cells[i] = r.cells[i]
    BY <2>1 DEF Holds, SameWithin
  <2>3. /\ i \in DOMAIN r.cells <=> i \in DOMAIN done.cells
        /\ i \in DOMAIN done.cells => r.cells[i] = done.cells[i]
    BY <1>12 DEF SameWithin
  <2> QED
    BY <1>18, <2>2, <2>3
<1>20. Holds(e, start, done)
  BY <1>8, <1>13, <1>14, <1>18, <1>19 DEF Holds
<1>21. start.pos = c.pos + 4
  BY <1>2, <1>3
<1> QED
  BY <1>2, <1>8, <1>17, <1>20, <1>21 DEF e, n

LEMMA CameAgain ==
  ASSUME NEW d, IsBufferRecord(d), NEW p, NEW q, NEW v
  PROVE  Came(Seek(d, p), q, v) = Came(d, q, v) /\ Seek(Seek(d, p), q) = Seek(d, q)
BY SeekFacts DEF Came

LEMMA HeldRecord ==
  ASSUME NEW d, NEW b, NEW r, Holds(d, b, r)
  PROVE  IsBufferRecord(d) /\ d.pos = b.pos
BY DEF Holds

\* A size before what it measures.
LEMMA Framed ==
  ASSUME NEW b, Sound(b), NEW start, start = Write(Align(b, 4), 4, 0), NEW done, Extends(start, done), NEW v,
         NEW r, r = Patch(done, start.pos - 4, v), NEW d, Holds(d, b, r)
  PROVE  /\ b.pos < r.pos /\ r.pos = done.pos
         /\ Number(d, 4) = Came(d, start.pos, v)
         /\ Holds(Seek(d, start.pos), start, done)
<1> DEFINE a == 4
           z == 0
           c == Align(b, a)
           e == Seek(d, c.pos)
<1>1. a \in Widths /\ a = 4
  BY DEF Widths
<1>2. start = Write(c, a, z)
  OBVIOUS
<1> HIDE DEF a, z
<1>3. Sound(c) /\ Extends(b, c) /\ b.pos \in Nat /\ c.pos \in Nat /\ b.pos <= c.pos
  BY <1>1, AlignWrote DEF Extends, Wrote, Sound
<1>4. start.pos = c.pos + 4 /\ Extends(c, start)
  BY <1>1, <1>2, <1>3, WriteEncoded, EncodedExtends
<1>5. start.pos - 4 = c.pos
  BY <1>3, <1>4
<1>6. done.pos \in Nat /\ start.pos <= done.pos /\ Extends(c, done)
  BY <1>3, <1>4, ExtendsMore, ExtendsFacts
<1>7. Extends(c, r)
  <2>1. c.pos <= c.pos /\ c.pos + 4 <= done.pos
    BY <1>3, <1>4, <1>6
  <2> QED
    BY <1>3, <1>5, <1>6, <2>1, PatchEncoded DEF Extends
<1>8. Align(d, a) = e /\ Holds(e, c, r)
  BY <1>1, <1>7, AlignHeld
<1> HIDE DEF c, e
<1>9. start = Write(c, 4, 0) /\ r = Patch(done, c.pos, v)
  BY <1>1, <1>2, <1>5 DEF z
<1>10. /\ r.pos = done.pos /\ Read(e, 4) = Came(e, start.pos, v)
       /\ Holds(Seek(e, start.pos), start, done)
  BY <1>3, <1>8, <1>9, Patched
<1>11. IsBufferRecord(d)
  BY HeldRecord
<1>12. Came(e, start.pos, v) = Came(d, start.pos, v) /\ Seek(e, start.pos) = Seek(d, start.pos)
  BY <1>11, CameAgain DEF e
<1>13. Number(d, 4) = Came(d, start.pos, v)
  BY <1>1, <1>8, <1>10, <1>12 DEF Number
<1> QED
  BY <1>3, <1>4, <1>6, <1>10, <1>12, <1>13

\* A block of numbers, as one.
LEMMA ReadBlock ==
  ASSUME NEW b, Sound(b), NEW a \in Widths, NEW n \in Nat \ {0}, NEW v,
         NEW w, w = WriteMulti(Align(b, a), n, a, v), NEW d, Holds(d, b, w)
  PROVE  Read(Align(d, a), n) = Came(d, w.pos, v) /\ Extends(b, w) /\ b.pos < w.pos
<1> DEFINE c == Align(b, a)
           e == Seek(d, c.pos)
           f == IF a = 1 THEN "any" ELSE c.endian
           x == WriteIn(c, n, a, f, v)
           holds == \A i \in DOMAIN v : InRange(a, v[i])
           error == "struct.error"
<1>1. Sound(c) /\ b.pos \in Nat /\ c.pos \in Nat /\ b.pos <= c.pos
  BY AlignWrote DEF Wrote, Sound
<1>2. w = Check(x, holds, error) /\ f \in {"any", c.endian}
  BY DEF WriteMulti
<1>3. Extends(b, w)
  BY BlockEncoded, EncodedExtends
<1> HIDE DEF f, holds, error
<1>4. Extends(c, w)
  <2>1. MayWrite(FALSE, c, n, a, f)
    BY DEF MayWrite
  <2>2. Written(FALSE, c, n, w)
    BY <1>1, <1>2, <2>1, WriteInEncoded, CheckWritten
  <2> QED
    BY <2>2, EncodedExtends DEF Written
<1>5. Align(d, a) = e /\ Holds(e, c, w)
  BY <1>4, AlignHeld
<1>8. IsBufferRecord(x)
  BY <1>1, WriteInFacts DEF Sound
<1> HIDE DEF c
<1>9. Holds(e, c, x) /\ x.pos = w.pos
  BY <1>2, <1>5, <1>8, CheckHeld
<1>6. w.pos = c.pos + n /\ Read(e, n) = Came(e, w.pos, v)
  BY <1>1, <1>2, <1>9, ReadWritten
<1>7. Came(e, w.pos, v) = Came(d, w.pos, v)
  BY HeldRecord, CameAgain DEF e
<1> QED
  BY <1>1, <1>3, <1>5, <1>6, <1>7

LEMMA ReadBytesBack ==
  ASSUME NEW b, Sound(b), NEW n \in Nat, NEW v, n = 0 => v = <<>>,
         NEW w, w = WriteBytes(b, n, v), NEW d, Holds(d, b, w)
  PROVE  ReadBytes(d, n) = Came(d, w.pos, v) /\ w.pos = b.pos + n
<1>0. IsBufferRecord(b) /\ b.pos \in Nat /\ b.size \in Nat \ {0} /\ d.pos = b.pos /\ IsBufferRecord(d)
  BY HeldRecord DEF Sound
<1> DEFINE any == "any"
           u == 1
<1>1. w = WriteIn(b, n, u, any, v) /\ any \in {"any", b.endian} /\ u = 1
  BY DEF WriteBytes
<1> HIDE DEF any, u
<1>2. w.pos = b.pos + n
  <2>1. MayWrite(FALSE, b, n, u, any) /\ u \in Widths
    BY <1>1 DEF MayWrite, Widths
  <2>2. Written(FALSE, b, n, w)
    BY <1>1, <2>1, WriteInEncoded
  <2> QED
    BY <2>2 DEF Written
<1>3. CASE n = 0
  <2>1. d.pos + n = w.pos
    BY <1>0, <1>2
  <2>2. ReadBytes(d, n) = [b |-> [d EXCEPT !.pos = d.pos + n], v |-> <<>>]
    BY <1>3 DEF ReadBytes
  <2> QED
    BY <1>2, <1>3, <2>1, <2>2 DEF Came, Seek
<1>4. CASE n # 0
  <2>1. n \in Nat \ {0}
    BY <1>4
  <2>2. /\ d.pos = b.pos /\ b.pos \in DOMAIN d.cells /\ d.cells[b.pos].width = n /\ d.cells[b.pos].v = v
    BY <1>1, <2>1, ReadWritten
  <2>3. w.pos <= d.size /\ d.size \in Nat
    BY DEF Holds
  <2>4. d.pos + n = w.pos /\ d.pos + n <= d.size /\ ~(n <= 0)
    BY <1>0, <1>2, <2>1, <2>3
  <2>5. ReadBytes(d, n) = [b |-> [d EXCEPT !.pos = d.pos + n], v |-> v]
    BY <2>2, <2>4 DEF ReadBytes
  <2> QED
    BY <1>2, <2>4, <2>5 DEF Came, Seek
<1> QED
  BY <1>3, <1>4

(***************************************************************************)
(* Machines without parts, read.                                           *)
(***************************************************************************)
LEMMA BackString ==
  ASSUME NEW m, NEW b, Sound(b), NEW v \in Seq(1 .. 4), Bounded(v, m.bound),
         NEW r, r = SerializeString(m, b, v), NEW d, Holds(d, b, r)
  PROVE  b.pos < r.pos /\ DeserializeString(d) = Came(d, r.pos, v)
<1> DEFINE a == 4
           n == SumOf(v)
           x == n + 1
           z == 0
           sized == Write(Align(b, a), a, x)
           bytes == WriteBytes(sized, n, v)
           e == Seek(d, sized.pos)
           g == Seek(d, bytes.pos)
<1>1. r = Write(bytes, 1, z)
  BY DEF SerializeString, Check, Bounded
<1>2. a \in Widths /\ n \in Nat /\ x \in Nat /\ x - 1 = n /\ a = 4
  BY SumOfType DEF Widths
<1>3. n = 0 => v = <<>>
  <2>1. v \in Seq(Nat) /\ \A i \in 1 .. Len(v) : v[i] > 0
    OBVIOUS
  <2>2. Len(v) <= n /\ Len(v) \in Nat
    BY <2>1, SumOfType
  <2> QED
    BY <2>2
<1> HIDE DEF a, n, x, z
<1>4. Encoded(FALSE, b, sized)
  BY <1>2, NumberEncoded
<1>5. Sound(sized) /\ Extends(b, sized)
  <2>1. Sound(sized)
    BY <1>4 DEF Encoded, Wrote
  <2> QED
    BY <1>4, <2>1, EncodedExtends
<1>6. Extends(sized, bytes)
  BY <1>2, <1>5, BytesEncoded, EncodedExtends
<1>7. Sound(bytes)
  BY <1>5, <1>6, ExtendsFacts
<1>8. Extends(bytes, r)
  BY <1>1, <1>7, ByteEncoded, EncodedExtends
<1>9. Extends(sized, r)
  BY <1>5, <1>6, <1>8, ExtendsMore
<1>10. Holds(d, b, sized) /\ Holds(e, sized, r)
  BY <1>5, <1>9, HoldsParts
<1>11. Number(d, a) = Came(d, sized.pos, x) /\ b.pos < sized.pos
  BY <1>2, <1>10, ReadNumber
<1> HIDE DEF sized
<1>12. Holds(e, sized, bytes) /\ Holds(Seek(e, bytes.pos), bytes, r)
  BY <1>5, <1>6, <1>8, <1>10, HoldsParts
<1>13. ReadBytes(e, n) = Came(e, bytes.pos, v)
  BY <1>2, <1>3, <1>5, <1>12, ReadBytesBack
<1> HIDE DEF bytes
<1>14. IsBufferRecord(d)
  BY HeldRecord
<1>15. Came(e, bytes.pos, v) = Came(d, bytes.pos, v) /\ Seek(e, bytes.pos) = g
  BY <1>14, CameAgain
<1> HIDE DEF e
<1> DEFINE one == 1
<1>16. one \in Nat \ {0} /\ r = Write(bytes, one, z) /\ one = 1
  BY <1>1
<1> HIDE DEF one
<1>17. Read(g, one) = Came(g, r.pos, z)
  BY <1>7, <1>12, <1>15, <1>16, ReadHere
<1>18. Came(g, r.pos, z) = Came(d, r.pos, z)
  BY <1>14, CameAgain
<1> HIDE DEF g
<1>19. Number(d, a).b = e /\ Number(d, a).v = x
  BY <1>11 DEF e, Came
<1>20. ReadBytes(e, n).b = g /\ ReadBytes(e, n).v = v
  BY <1>13, <1>15 DEF g, Came
<1>21. Read(g, one).b = Seek(d, r.pos)
  BY <1>17, <1>18 DEF Came
<1>22. DeserializeString(d) = [b |-> Read(g, 1).b, v |-> v]
  BY <1>2, <1>19, <1>20 DEF DeserializeString
<1>23. DeserializeString(d) = Came(d, r.pos, v)
  BY <1>16, <1>21, <1>22 DEF Came
<1>24. b.pos < r.pos
  BY <1>5, <1>9, <1>11, ExtendsFacts
<1> QED
  BY <1>23, <1>24

LEMMA BackBytes ==
  ASSUME NEW b, Sound(b), NEW v \in Seq(Int), NEW r, r = SerializeBytes(b, v), NEW d, Holds(d, b, r)
  PROVE  b.pos < r.pos /\ DeserializeBytes(d) = Came(d, r.pos, v)
<1> DEFINE a == 4
           n == Len(v)
           sized == Write(Align(b, a), a, n)
           e == Seek(d, sized.pos)
<1>1. r = WriteBytes(sized, n, v)
  BY DEF SerializeBytes
<1>2. a \in Widths /\ n \in Nat /\ (n = 0 => v = <<>>) /\ a = 4
  BY DEF Widths
<1> HIDE DEF a, n
<1>3. Sound(sized) /\ Extends(b, sized)
  BY <1>2, NumberEncoded, EncodedExtends DEF Encoded, Wrote
<1>4. Extends(sized, r)
  BY <1>1, <1>2, <1>3, BytesEncoded, EncodedExtends
<1>5. Holds(d, b, sized) /\ Holds(e, sized, r)
  BY <1>3, <1>4, HoldsParts
<1>6. Number(d, a) = Came(d, sized.pos, n) /\ b.pos < sized.pos
  BY <1>2, <1>5, ReadNumber
<1> HIDE DEF sized
<1>7. ReadBytes(e, n) = Came(e, r.pos, v)
  BY <1>1, <1>2, <1>3, <1>5, ReadBytesBack
<1>8. IsBufferRecord(d)
  BY HeldRecord
<1>9. Came(e, r.pos, v) = Came(d, r.pos, v)
  BY <1>8, CameAgain
<1>10. Number(d, a).b = e /\ Number(d, a).v = n
  BY <1>6 DEF Came
<1>11. DeserializeBytes(d) = ReadBytes(e, n)
  BY <1>2, <1>10 DEF DeserializeBytes
<1>12. b.pos < r.pos
  BY <1>3, <1>4, <1>6, ExtendsFacts
<1> QED
  BY <1>7, <1>9, <1>11, <1>12

LEMMA BackPlainArray ==
  ASSUME NEW m, m.size \in Widths, m.len \in Nat \ {0}, NEW b, Sound(b), NEW v, Len(v) = m.len,
         NEW r, r = SerializePlainArray(m, b, v), NEW d, Holds(d, b, r)
  PROVE  b.pos < r.pos /\ DeserializePlainArray(m, d) = Came(d, r.pos, v)
<1> DEFINE n == m.size * m.len
<1>1. r = WriteMulti(Align(b, m.size), n, m.size, v)
  BY DEF SerializePlainArray, Check
<1>2. n \in Nat \ {0}
  BY DEF Widths
<1>3. DeserializePlainArray(m, d) = Read(Align(d, m.size), n)
  BY DEF DeserializePlainArray
<1> HIDE DEF n
<1> QED
  BY <1>1, <1>2, <1>3, ReadBlock

LEMMA BackPlainSequence ==
  ASSUME NEW m, NEW reader, m.size \in Widths, reader.size = m.size, NEW b, Sound(b),
         NEW v, Len(v) \in Nat, Len(v) = 0 <=> v = <<>>, Bounded(v, m.max),
         NEW r, r = SerializePlainSequence(m, b, v), NEW d, Holds(d, b, r)
  PROVE  b.pos < r.pos /\ DeserializePlainSequence(reader, d) = Came(d, r.pos, v)
<1> DEFINE a == 4
           k == Len(v)
           n == m.size * k
           counted == Write(Align(b, a), a, k)
           e == Seek(d, counted.pos)
<1>1. r = IF v = <<>> THEN counted ELSE WriteMulti(Align(counted, m.size), n, m.size, v)
  BY DEF SerializePlainSequence, WithinMax, Check, Bounded
<1>2. n \in Nat /\ a \in Widths /\ k \in Nat /\ (k = 0 <=> v = <<>>) /\ (k # 0 => n \in Nat \ {0}) /\ a = 4
  BY DEF Widths
<1>3. DeserializePlainSequence(reader, d)
        = LET c == Number(d, a) IN IF c.v = 0 THEN Got(c, <<>>) ELSE Read(Align(c.b, m.size), m.size * c.v)
  BY DEF DeserializePlainSequence
<1>4. n = m.size * k
  OBVIOUS
<1> HIDE DEF n, a, k
<1>5. Sound(counted) /\ Extends(b, counted)
  BY <1>2, NumberEncoded, EncodedExtends DEF Encoded, Wrote
<1>6. Extends(counted, r)
  <2>1. CASE v = <<>>
    <3>1. r = counted
      BY <1>1, <2>1
    <3> QED
      BY <1>5, <3>1, WroteNothing, EncodedExtends
  <2>2. CASE v # <<>>
    <3>1. r = WriteMulti(Align(counted, m.size), n, m.size, v)
      BY <1>1, <2>2
    <3> HIDE DEF counted
    <3> QED
      BY <1>2, <1>5, <3>1, BlockEncoded, EncodedExtends
  <2> QED
    BY <2>1, <2>2
<1>7. Holds(d, b, counted) /\ Holds(e, counted, r)
  BY <1>5, <1>6, HoldsParts
<1>8. Number(d, a) = Came(d, counted.pos, k) /\ b.pos < counted.pos
  BY <1>2, <1>7, ReadNumber
<1> HIDE DEF counted
<1>9. IsBufferRecord(d)
  BY HeldRecord
<1>10. Number(d, a).b = e /\ Number(d, a).v = k /\ Got(Number(d, a), <<>>) = Came(d, counted.pos, <<>>)
  BY <1>8 DEF Came, Got
<1>11. b.pos < r.pos
  BY <1>5, <1>6, <1>8, ExtendsFacts
<1>12. CASE v = <<>>
  BY <1>1, <1>2, <1>3, <1>10, <1>11, <1>12
<1>13. CASE v # <<>>
  <2>1. r = WriteMulti(Align(counted, m.size), n, m.size, v) /\ n \in Nat \ {0}
    BY <1>1, <1>2, <1>13
  <2>2. Read(Align(e, m.size), n) = Came(e, r.pos, v)
    BY <1>5, <1>7, <2>1, ReadBlock
  <2>3. Came(e, r.pos, v) = Came(d, r.pos, v)
    BY <1>9, CameAgain
  <2>4. DeserializePlainSequence(reader, d) = Read(Align(e, m.size), n)
    BY <1>2, <1>3, <1>4, <1>10, <1>13
  <2> QED
    BY <1>11, <2>2, <2>3, <2>4
<1> QED
  BY <1>12, <1>13

(***************************************************************************)
(* Buffers to write into, and readers of them.                             *)
(***************************************************************************)
\* A buffer to write into with XCDR1, or with XCDR2.
Fit(b, v2) == Sound(b) /\ (v2 => b.alignMax = 4)

LEMMA FitStays ==
  ASSUME NEW v2, NEW b, Fit(b, v2), NEW r, Extends(b, r)
  PROVE  Fit(r, v2)
BY DEF Fit, Extends, Wrote

\* Whatever was written can be read.
LEMMA SomeReader ==
  ASSUME NEW b, Sound(b), NEW r, Extends(b, r)
  PROVE  \E d : Holds(d, b, r)
<1> DEFINE c == Seek(r, b.pos)
           short == [c EXCEPT !.size = r.pos]
           d == [short EXCEPT !.error = "none"]
<1>1. Sound(r) /\ IsBufferRecord(r) /\ r.pos \in Nat
  BY DEF Extends, Wrote, Sound
<1>2. /\ IsBufferRecord(d) /\ d.pos = b.pos /\ d.size = r.pos /\ d.offset = r.offset
      /\ d.alignMax = r.alignMax /\ d.endian = r.endian /\ d.error = "none" /\ d.cells = r.cells
  <2>1. /\ IsBufferRecord(c) /\ c.pos = b.pos /\ c.offset = r.offset /\ c.alignMax = r.alignMax
        /\ c.endian = r.endian /\ c.cells = r.cells
    BY <1>1, SeekFacts
  <2> HIDE DEF c
  <2>2. /\ IsBufferRecord(short) /\ short.pos = b.pos /\ short.size = r.pos /\ short.offset = r.offset
        /\ short.alignMax = r.alignMax /\ short.endian = r.endian /\ short.cells = r.cells
    BY <2>1 DEF IsBufferRecord
  <2> HIDE DEF short
  <2> QED
    BY <2>2 DEF IsBufferRecord
<1> HIDE DEF d
<1>3. SameWithin(d.cells, r.cells, b.pos, r.pos)
  BY <1>2 DEF SameWithin
<1>4. Holds(d, b, r)
  BY <1>1, <1>2, <1>3 DEF Holds, Extends, Wrote
<1> QED
  BY <1>4

\* Buffers each of which extends the one before.
LEMMA Chain ==
  ASSUME NEW v2, NEW N \in Nat, NEW after, Fit(after[0], v2),
         \A i \in 1 .. N : Fit(after[i - 1], v2) => Extends(after[i - 1], after[i])
  PROVE  /\ \A i \in 0 .. N : Fit(after[i], v2) /\ Extends(after[0], after[i]) /\ Extends(after[i], after[N])
         /\ \A i \in 1 .. N : Extends(after[i - 1], after[i])
<1> DEFINE T == {i \in Nat : Fit(after[i], v2) /\ \A j \in 0 .. i : Sound(after[j]) /\ Extends(after[j], after[i])}
<1>1. 0 \in T
  <2>1. Sound(after[0]) /\ Extends(after[0], after[0])
    BY WroteNothing, EncodedExtends DEF Fit
  <2> QED
    BY <2>1
<1>2. ASSUME NEW i \in 0 .. N - 1, i \in T PROVE i + 1 \in T
  <2>1. i + 1 \in 1 .. N /\ (i + 1) - 1 = i
    OBVIOUS
  <2>2. Fit(after[i], v2) /\ Extends(after[i], after[i + 1])
    BY <1>2, <2>1
  <2>3. Fit(after[i + 1], v2)
    BY <2>2, FitStays
  <2>4. Extends(after[i + 1], after[i + 1])
    BY <2>3, WroteNothing, EncodedExtends DEF Fit
  <2>5. ASSUME NEW j \in 0 .. i PROVE Extends(after[j], after[i + 1])
    <3>1. Sound(after[j]) /\ Extends(after[j], after[i])
      BY <1>2
    <3> QED
      BY <2>2, <3>1, ExtendsMore
  <2>6. ASSUME NEW j \in 0 .. i + 1 PROVE Sound(after[j]) /\ Extends(after[j], after[i + 1])
    <3>1. j \in 0 .. i \/ j = i + 1
      OBVIOUS
    <3>2. Sound(after[i + 1])
      BY <2>3 DEF Fit
    <3> QED
      BY <1>2, <2>4, <2>5, <3>1, <3>2
  <2> QED
    BY <2>1, <2>3, <2>6
<1> HIDE DEF T
<1>3. 0 .. N \subseteq T
  BY <1>1, <1>2, IntervalInduction
<1>4. \A i \in 0 .. N : Fit(after[i], v2) /\ Extends(after[0], after[i]) /\ Extends(after[i], after[N])
  BY <1>3 DEF T
<1>5. ASSUME NEW i \in 1 .. N PROVE Extends(after[i - 1], after[i])
  <2>1. i - 1 \in 0 .. N
    OBVIOUS
  <2> QED
    BY <1>4, <2>1
<1> QED
  BY <1>4, <1>5

\* The reader at each of these buffers.
LEMMA ChainHeld ==
  ASSUME NEW v2, NEW N \in Nat, NEW after, Fit(after[0], v2),
         \A i \in 1 .. N : Fit(after[i - 1], v2) => Extends(after[i - 1], after[i]),
         NEW d, Holds(d, after[0], after[N])
  PROVE  \A i \in 1 .. N : Holds(Seek(d, after[i - 1].pos), after[i - 1], after[i])
<1>1. \A i \in 0 .. N : Fit(after[i], v2) /\ Extends(after[0], after[i]) /\ Extends(after[i], after[N])
  BY Chain
<1>2. \A i \in 1 .. N : Extends(after[i - 1], after[i])
  BY Chain
<1> TAKE i \in 1 .. N
<1> DEFINE e == Seek(d, after[i - 1].pos)
<1>3. i - 1 \in 0 .. N /\ i \in 0 .. N
  OBVIOUS
<1>4. Sound(after[0]) /\ Sound(after[i - 1])
  BY <1>1, <1>3 DEF Fit
<1>5. Holds(e, after[i - 1], after[N])
  BY <1>1, <1>3, <1>4, HoldsParts
<1> HIDE DEF e
<1>6. Holds(e, after[i - 1], after[i])
  BY <1>1, <1>2, <1>3, <1>4, <1>5, HoldsParts
<1> QED
  BY <1>6 DEF e

\* A place for a size, and later the size.
LEMMA FrameOpened ==
  ASSUME NEW v2, NEW b, Fit(b, v2), NEW start, start = Write(Align(b, 4), 4, 0)
  PROVE  Fit(start, v2) /\ Sound(b) /\ Extends(b, start) /\ b.pos < start.pos
<1> DEFINE a == 4
           z == 0
<1>1. a \in Widths /\ start = Write(Align(b, a), a, z) /\ a = 4
  BY DEF Widths
<1> HIDE DEF a, z
<1>2. Sound(b) /\ b.pos \in Nat
  BY DEF Fit, Sound
<1>3. Extends(b, start) /\ start.pos = Align(b, a).pos + a
  BY <1>1, <1>2, NumberEncoded, EncodedExtends
<1>4. Align(b, a).pos \in Nat /\ b.pos <= Align(b, a).pos
  BY <1>1, <1>2, AlignedFacts
<1>5. b.pos < start.pos
  BY <1>1, <1>2, <1>3, <1>4
<1> QED
  BY <1>2, <1>3, <1>5, FitStays

LEMMA FrameClosed ==
  ASSUME NEW v2, NEW b, Fit(b, v2), NEW start, start = Write(Align(b, 4), 4, 0), NEW done, Extends(start, done),
         NEW v, NEW r, r = Patch(done, start.pos - 4, v)
  PROVE  Extends(b, r) /\ r.pos = done.pos /\ b.pos < r.pos
<1>1. Sound(b) /\ Wrote(FALSE, start, done)
  BY DEF Fit, Extends
<1>2. Extends(b, r)
  BY <1>1, SizedEncoded DEF Extends
<1>3. Sound(b)
  BY DEF Fit
<1>4. PICK d : Holds(d, b, r)
  BY <1>2, <1>3, SomeReader
<1> QED
  BY <1>1, <1>2, <1>4, Framed

\* A number where the buffer stands, written and read.
LEMMA NumberHere ==
  ASSUME NEW v2, NEW b, Fit(b, v2), NEW n \in Widths, NEW v, NEW w, w = Write(b, n, v)
  PROVE  /\ Fit(w, v2) /\ Sound(w) /\ Extends(b, w) /\ b.pos < w.pos /\ w.pos = b.pos + n
         /\ \A d : Holds(d, b, w) => Read(d, n) = Came(d, w.pos, v)
<1>1. n \in Nat \ {0}
  BY DEF Widths
<1>2. Sound(b) /\ b.pos \in Nat
  BY DEF Fit, Sound
<1>3. Extends(b, w) /\ w.pos = b.pos + n
  <2> DEFINE no == FALSE
  <2>1. ~no
    OBVIOUS
  <2> HIDE DEF no
  <2>2. Encoded(no, b, w) /\ w.pos = b.pos + n
    BY <1>2, <2>1, WriteEncoded
  <2> QED
    BY <2>2, EncodedExtends
<1>4. ASSUME NEW d, Holds(d, b, w) PROVE Read(d, n) = Came(d, w.pos, v)
  BY <1>1, <1>2, <1>4, ReadHere
<1>5. b.pos < w.pos
  BY <1>1, <1>2, <1>3
<1>6. Fit(w, v2)
  BY <1>3, FitStays
<1> QED
  BY <1>3, <1>4, <1>5, <1>6 DEF Fit

\* The count of a sequence, where it is aligned already.
LEMMA CountRead ==
  ASSUME NEW v2, NEW b, Fit(b, v2), NEW v, NEW w, w = Write(b, 4, v)
  PROVE  /\ Fit(w, v2) /\ Extends(b, w) /\ b.pos < w.pos
         /\ \A d : Holds(d, b, w) => Read(d, 4) = Came(d, w.pos, v)
<1> DEFINE a == 4
<1>1. a \in Widths /\ w = Write(b, a, v) /\ a = 4
  BY DEF Widths
<1> HIDE DEF a
<1> QED
  BY <1>1, NumberHere

(***************************************************************************)
(* Lengths that a reader knows from a length code.                         *)
(***************************************************************************)
\* The length of a member follows from its length code and the number at its start.
SizeKnown(m, t, lc) ==
  /\ lc \in {0, 1, 2, 3, 5, 6, 7}
  /\ \A b, v, ew, d :
       /\ Sound(b) /\ b.alignMax = 4 /\ OnGrid(b.pos, b.offset, 4) /\ v \in ValuesOf[t]
       /\ Holds(d, b, Serialize(m, b, v, "DataSample", ew))
       => b.pos + Announced(lc, Read(d, 4).v) = Serialize(m, b, v, "DataSample", ew).pos

\* Where the members of a mutable struct start in XCDR2.
AtMember(b) == Sound(b) /\ b.alignMax = 4 /\ OnGrid(b.pos, b.offset, 4)

LEMMA AlignedAlready ==
  ASSUME NEW b, IsBufferRecord(b), b.pos \in Nat, b.offset \in Int, b.alignMax = 4, OnGrid(b.pos, b.offset, 4),
         NEW a \in Widths
  PROVE  Align(b, a) = b
<1> DEFINE w == AtMost(a, b.alignMax)
           x == b.pos - b.offset
<1>1. w \in {1, 2, 4}
  BY DEF AtMost, Widths
<1>2. x \in Int /\ x % 4 = 0 /\ b.pos = x + b.offset
  BY DEF OnGrid
<1>3. Align(b, a) = [b EXCEPT !.pos = ((x + w - 1) \div w) * w + b.offset]
  BY DEF Align, Aligned
<1> HIDE DEF x
<1>4. ((x + w - 1) \div w) * w = x
  <2>1. CASE w = 1
    BY <1>2, <2>1
  <2>2. CASE w = 2
    BY <1>2, <2>2
  <2>3. CASE w = 4
    BY <1>2, <2>3
  <2> HIDE DEF w
  <2> QED
    BY <1>1, <2>1, <2>2, <2>3
<1> HIDE DEF w
<1>5. Align(b, a) = [b EXCEPT !.pos = b.pos]
  BY <1>2, <1>3, <1>4
<1> QED
  BY <1>5 DEF IsBufferRecord

LEMMA AlignedMember ==
  ASSUME NEW b, AtMember(b), NEW a \in Widths
  PROVE  Align(b, a) = b
BY AlignedAlready DEF AtMember, Sound

\* The number at the start of a member.
LEMMA NumberFirst ==
  ASSUME NEW b, AtMember(b), NEW x, NEW w, w = Write(Align(b, 4), 4, x)
  PROVE  /\ w = Write(b, 4, x) /\ w.pos = b.pos + 4 /\ AtMember(w) /\ Extends(b, w)
         /\ \A r, d : Extends(w, r) /\ Holds(d, b, r) => Read(d, 4).v = x
<1> DEFINE four == 4
           any == TRUE
<1>1. four \in Widths /\ Fit(b, any) /\ four = 4
  BY DEF Widths, AtMember, Fit
<1>2. w = Write(b, four, x)
  BY <1>1, AlignedMember
<1> HIDE DEF four, any
<1>3. /\ Fit(w, any) /\ Sound(w) /\ Extends(b, w) /\ w.pos = b.pos + four
      /\ \A d : Holds(d, b, w) => Read(d, four) = Came(d, w.pos, x)
  BY <1>1, <1>2, NumberHere
<1>4. AtMember(w)
  <2>1. b.pos \in Nat /\ b.offset \in Int /\ w.offset = b.offset /\ w.alignMax = b.alignMax
    BY <1>1, <1>3, ExtendsFacts DEF Fit, Sound
  <2>2. OnGrid(w.pos, w.offset, 4)
    BY <1>1, <1>3, <2>1 DEF OnGrid, AtMember
  <2> QED
    BY <1>3, <2>1, <2>2 DEF AtMember, Fit
<1>5. ASSUME NEW r, NEW d, Extends(w, r), Holds(d, b, r) PROVE Read(d, 4).v = x
  <2>1. Sound(b)
    BY DEF AtMember
  <2>2. Holds(d, b, w)
    BY <1>3, <1>5, <2>1, HoldsParts
  <2>3. Read(d, four) = Came(d, w.pos, x)
    BY <1>3, <2>2
  <2> QED
    BY <1>1, <2>3 DEF Came
<1> QED
  BY <1>1, <1>2, <1>3, <1>4, <1>5

\* What a buffer is that holds a framed part.
LEMMA FrameFirst ==
  ASSUME NEW b, AtMember(b), NEW start, start = Write(Align(b, 4), 4, 0), NEW done, Extends(start, done),
         NEW r, r = Patch(done, start.pos - 4, done.pos - start.pos), NEW d, Holds(d, b, r)
  PROVE  b.pos + Announced(5, Read(d, 4).v) = r.pos
<1> DEFINE n == done.pos - start.pos
           four == 4
<1>1. Sound(b) /\ b.pos \in Nat /\ b.offset \in Int /\ b.alignMax = 4 /\ OnGrid(b.pos, b.offset, 4)
  BY DEF AtMember, Sound
<1>2. r.pos = done.pos /\ Number(d, 4) = Came(d, start.pos, n)
  BY <1>1, Framed
<1>3. Sound(start) /\ start.pos = b.pos + 4
  BY NumberFirst DEF AtMember
<1>4. start.pos \in Nat /\ done.pos \in Nat
  BY <1>3, ExtendsFacts
<1>5. four \in Widths /\ four = 4 /\ IsBufferRecord(d) /\ d.pos = b.pos /\ d.offset = b.offset /\ d.alignMax = b.alignMax
  BY DEF Widths, Holds
<1> HIDE DEF four
<1>6. Align(d, four) = d
  BY <1>1, <1>5, AlignedAlready
<1> HIDE DEF n
<1>7. Read(d, 4).v = n
  BY <1>2, <1>5, <1>6 DEF Number, Came
<1>8. n \in Int /\ n = done.pos - start.pos
  BY <1>4 DEF n
<1>9. Announced(5, n) = n + 4
  BY DEF Announced
<1> QED
  BY <1>1, <1>2, <1>3, <1>4, <1>7, <1>8, <1>9

\* Where a member ends that was written into b as v.
EndsKnown(m, b, v, lc) ==
  \A ew, d : Holds(d, b, Serialize(m, b, v, "DataSample", ew)) =>
    b.pos + Announced(lc, Read(d, 4).v) = Serialize(m, b, v, "DataSample", ew).pos

LEMMA SizeKnownBy ==
  ASSUME NEW m, NEW t, NEW lc, lc \in {0, 1, 2, 3, 5, 6, 7},
         \A b : AtMember(b) => \A v \in ValuesOf[t] : EndsKnown(m, b, v, lc)
  PROVE  SizeKnown(m, t, lc)
<1>1. ASSUME NEW b, NEW v, NEW ew, NEW d, Sound(b), b.alignMax = 4, OnGrid(b.pos, b.offset, 4), v \in ValuesOf[t],
             Holds(d, b, Serialize(m, b, v, "DataSample", ew))
      PROVE  b.pos + Announced(lc, Read(d, 4).v) = Serialize(m, b, v, "DataSample", ew).pos
  <2>1. EndsKnown(m, b, v, lc)
    BY <1>1 DEF AtMember
  <2> QED
    BY <1>1, <2>1 DEF EndsKnown
<1> QED
  BY <1>1 DEF SizeKnown

\* A number, whose width is that of its code.
LEMMA NumberEnds ==
  ASSUME NEW b, AtMember(b), NEW n \in Widths, NEW x, NEW r, r = Write(Align(b, n), n, x)
  PROVE  r.pos = b.pos + n
<1>1. Sound(b)
  BY DEF AtMember
<1>2. r.pos = Align(b, n).pos + n
  BY <1>1, NumberEncoded
<1> QED
  BY <1>2, AlignedMember

LEMMA CodeOfWidth ==
  ASSUME NEW n \in Widths
  PROVE  Log2(n) \in {0, 1, 2, 3} /\ \A x : Announced(Log2(n), x) = n
<1>1. CASE n = 1
  <2>1. Log2(n) = 0
    BY <1>1 DEF Log2, MaxBits
  <2>2. \A x : Announced(0, x) = 1
    BY DEF Announced
  <2> QED
    BY <1>1, <2>1, <2>2
<1>2. CASE n = 2
  <2>1. Log2(n) = 1
    BY <1>2 DEF Log2, MaxBits
  <2>2. \A x : Announced(1, x) = 2
    BY DEF Announced
  <2> QED
    BY <1>2, <2>1, <2>2
<1>3. CASE n = 4
  <2>1. Log2(n) = 2
    BY <1>3 DEF Log2, MaxBits
  <2>2. \A x : Announced(2, x) = 4
    BY DEF Announced
  <2> QED
    BY <1>3, <2>1, <2>2
<1>4. CASE n = 8
  <2>1. Log2(n) = 3
    BY <1>4 DEF Log2, MaxBits
  <2>2. \A x : Announced(3, x) = 8
    BY DEF Announced
  <2> QED
    BY <1>4, <2>1, <2>2
<1> QED
  BY <1>1, <1>2, <1>3, <1>4 DEF Widths

\* Where a block of bytes or numbers ends.
LEMMA BlockEnds ==
  ASSUME NEW b, Sound(b), NEW n \in Nat, NEW unit \in Widths, NEW v
  PROVE  WriteBytes(b, n, v).pos = b.pos + n /\ WriteMulti(b, n, unit, v).pos = b.pos + n
<1> DEFINE e == "any"
           f == IF unit = 1 THEN "any" ELSE b.endian
           u == 1
           no == FALSE
           holds == \A i \in DOMAIN v : InRange(unit, v[i])
           error == "struct.error"
<1>1. /\ WriteBytes(b, n, v) = WriteIn(b, n, u, e, v)
      /\ WriteMulti(b, n, unit, v) = Check(WriteIn(b, n, unit, f, v), holds, error)
  BY DEF WriteBytes, WriteMulti
<1>2. u \in Widths /\ MayWrite(no, b, n, u, e) /\ MayWrite(no, b, n, unit, f)
  BY DEF Widths, MayWrite
<1> HIDE DEF e, f, u, no, holds, error
<1>3. Written(no, b, n, WriteIn(b, n, u, e, v))
  BY <1>2, WriteInEncoded
<1>4. Written(no, b, n, Check(WriteIn(b, n, unit, f, v), holds, error))
  BY <1>2, WriteInEncoded, CheckWritten
<1> QED
  BY <1>1, <1>3, <1>4 DEF Written

LEMMA StringEnds ==
  ASSUME NEW m, NEW b, AtMember(b), NEW v \in Seq(1 .. 4), Bounded(v, m.bound),
         NEW r, r = SerializeString(m, b, v), NEW d, Holds(d, b, r)
  PROVE  b.pos + Announced(5, Read(d, 4).v) = r.pos
<1> DEFINE n == SumOf(v)
           x == n + 1
           sized == Write(Align(b, 4), 4, x)
           bytes == WriteBytes(sized, n, v)
<1>1. r = Write(bytes, 1, 0)
  BY DEF SerializeString, Check, Bounded
<1>2. n \in Nat /\ x \in Nat /\ x = n + 1
  <2>1. v \in Seq(Nat)
    OBVIOUS
  <2> QED
    BY <2>1, SumOfType
<1> HIDE DEF n, x
<1>3. /\ sized.pos = b.pos + 4 /\ AtMember(sized) /\ Extends(b, sized)
      /\ \A f : Extends(sized, f) /\ Holds(d, b, f) => Read(d, 4).v = x
  BY NumberFirst
<1> HIDE DEF sized
<1>4. Sound(sized) /\ Sound(b) /\ b.pos \in Nat
  BY <1>3 DEF AtMember, Sound
<1>5. Extends(sized, bytes)
  BY <1>2, <1>4, BytesEncoded, EncodedExtends
<1>6. Sound(bytes)
  BY <1>4, <1>5, ExtendsFacts
<1>7. Extends(bytes, r) /\ r.pos = bytes.pos + 1
  BY <1>1, <1>6, ByteEncoded, EncodedExtends
<1>8. bytes.pos = sized.pos + n
  <2> DEFINE u == 1
  <2>1. u \in Widths
    BY DEF Widths
  <2> HIDE DEF u
  <2> QED
    BY <1>2, <1>4, <2>1, BlockEnds
<1> HIDE DEF bytes
<1>9. Extends(sized, r)
  BY <1>4, <1>5, <1>7, ExtendsMore
<1>10. Read(d, 4).v = x
  BY <1>3, <1>9
<1>11. Announced(5, x) = x + 4
  BY DEF Announced
<1> QED
  BY <1>2, <1>3, <1>4, <1>7, <1>8, <1>10, <1>11

LEMMA PlainSequenceEnds ==
  ASSUME NEW m, m.size \in {1, 4, 8}, NEW b, AtMember(b), NEW v, Len(v) \in Nat, Len(v) = 0 <=> v = <<>>,
         Bounded(v, m.max), NEW r, r = SerializePlainSequence(m, b, v), NEW d, Holds(d, b, r)
  PROVE  b.pos + Announced(LenType(m), Read(d, 4).v) = r.pos \/ m.m # "PlainSequence"
<1> DEFINE k == Len(v)
           n == m.size * k
           counted == Write(Align(b, 4), 4, k)
<1>1. r = IF v = <<>> THEN counted ELSE WriteMulti(Align(counted, m.size), n, m.size, v)
  BY DEF SerializePlainSequence, WithinMax, Check, Bounded
<1>2. k \in Nat /\ (k = 0 <=> v = <<>>) /\ n \in Nat /\ n = m.size * k /\ m.size \in Widths
  BY DEF Widths
<1> HIDE DEF k, n
<1>3. /\ counted.pos = b.pos + 4 /\ AtMember(counted) /\ Extends(b, counted)
      /\ \A f : Extends(counted, f) /\ Holds(d, b, f) => Read(d, 4).v = k
  BY NumberFirst
<1> HIDE DEF counted
<1>4. Sound(counted) /\ b.pos \in Nat /\ counted.pos \in Nat
  BY <1>3 DEF AtMember, Sound
<1>5. Extends(counted, r) /\ r.pos = counted.pos + n
  <2>1. CASE v = <<>>
    <3>1. r = counted /\ n = 0
      BY <1>1, <1>2, <2>1
    <3>2. Extends(counted, counted)
      BY <1>4, WroteNothing, EncodedExtends
    <3> QED
      BY <1>4, <3>1, <3>2
  <2>2. CASE v # <<>>
    <3>1. r = WriteMulti(Align(counted, m.size), n, m.size, v)
      BY <1>1, <2>2
    <3>2. Extends(counted, r)
      BY <1>2, <1>4, <3>1, BlockEncoded, EncodedExtends
    <3>3. Align(counted, m.size) = counted
      BY <1>2, <1>3, AlignedMember
    <3>5. r.pos = counted.pos + n
      BY <1>2, <1>4, <3>1, <3>3, BlockEnds
    <3> QED
      BY <3>2, <3>5
  <2> QED
    BY <2>1, <2>2
<1>6. Read(d, 4).v = k
  BY <1>3, <1>5
<1>7. m.m = "PlainSequence" => Announced(LenType(m), k) = n + 4
  <2>1. CASE m.size = 1
    <3>1. n = k /\ (m.m = "PlainSequence" => LenType(m) = 5)
      BY <1>2, <2>1 DEF LenType
    <3> QED
      BY <3>1 DEF Announced
  <2>2. CASE m.size = 4
    <3>1. n = 4 * k /\ (m.m = "PlainSequence" => LenType(m) = 6)
      BY <1>2, <2>2 DEF LenType
    <3> QED
      BY <3>1 DEF Announced
  <2>3. CASE m.size = 8
    <3>1. n = 8 * k /\ (m.m = "PlainSequence" => LenType(m) = 7)
      BY <1>2, <2>3 DEF LenType
    <3> QED
      BY <3>1 DEF Announced
  <2> QED
    BY <2>1, <2>2, <2>3
<1>8. CASE m.m = "PlainSequence"
  <2>1. b.pos + Announced(LenType(m), k) = r.pos
    <3>1. Announced(LenType(m), k) = n + 4
      BY <1>7, <1>8
    <3>2. r.pos = b.pos + 4 + n
      BY <1>3, <1>5
    <3> QED
      BY <1>2, <1>4, <3>1, <3>2
  <2> QED
    BY <1>6, <2>1
<1> QED
  BY <1>8

\* Characters take a byte each.
LEMMA EachCharEnds ==
  ASSUME Recursion, NEW m, m.m = "Char", NEW b, Sound(b), NEW s, Len(s) \in Nat, NEW kind, NEW enabled
  PROVE  Each(m, b, s, kind, enabled).pos = b.pos + Len(s) /\ Extends(b, Each(m, b, s, kind, enabled))
<1> DEFINE N == Len(s)
<1>1. N \in Nat /\ Sound(b) /\ b.pos \in Nat
  BY DEF Sound
<1>2. PICK after : EachRuns(after, m, b, s, kind, enabled)
  BY EachSteps
<1>3. /\ after[0] = b
      /\ \A i \in 1 .. N : after[i] = Write(after[i - 1], 1, s[i])
      /\ Each(m, b, s, kind, enabled) = after[N]
  <2>1. \A c, v : Serialize(m, c, v, kind, enabled) = Write(c, 1, v)
    <3>1. \A c, v : Serialize(m, c, v, kind, enabled) = Serialized(m, c, v, kind, enabled)
      BY DEF Recursion
    <3>2. \A c, v : Serialized(m, c, v, kind, enabled) = Write(c, 1, v)
      BY DEF Serialized, SerializeChar
    <3> QED
      BY <3>1, <3>2
  <2> QED
    BY <1>2, <2>1 DEF EachRuns
<1> HIDE DEF N
<1> DEFINE T == {i \in Nat : Sound(after[i]) /\ Extends(b, after[i]) /\ after[i].pos = b.pos + i}
<1>4. 0 \in T
  <2>1. Extends(b, b)
    BY <1>1, WroteNothing, EncodedExtends
  <2> QED
    BY <1>1, <1>3, <2>1
<1>5. ASSUME NEW i \in 0 .. N - 1, i \in T PROVE i + 1 \in T
  <2> DEFINE k == i + 1
  <2>1. k \in 1 .. N /\ k - 1 = i /\ k \in Nat /\ k = i + 1 /\ i \in Nat
    BY <1>1
  <2> HIDE DEF k
  <2>2. Sound(after[i]) /\ Extends(b, after[i]) /\ after[i].pos = b.pos + i
    BY <1>5
  <2>3. after[k] = Write(after[i], 1, s[k])
    BY <1>3, <2>1
  <2>4. Extends(after[i], after[k]) /\ after[k].pos = after[i].pos + 1
    BY <2>2, <2>3, ByteEncoded, EncodedExtends
  <2>5. Sound(after[k])
    BY <2>2, <2>4, ExtendsFacts
  <2>6. Extends(b, after[k])
    BY <1>1, <2>2, <2>4, ExtendsMore
  <2>7. after[k].pos = b.pos + k
    BY <1>1, <2>1, <2>2, <2>4
  <2>8. k \in T
    BY <2>1, <2>5, <2>6, <2>7
  <2> HIDE DEF T
  <2> QED
    BY <2>1, <2>8
<1> HIDE DEF T
<1>6. 0 .. N \subseteq T
  BY <1>1, <1>4, <1>5, IntervalInduction
<1>7. N \in T
  BY <1>1, <1>6
<1> QED
  BY <1>3, <1>7 DEF T, N

\* A machine whose first number tells the size of the rest.
SizeFirst(m) == m.header \/ m.of.m = "Char"
EndsAt(b, lc, d, r) == b.pos + Announced(lc, Read(d, 4).v) = r.pos

LEMMA SequenceEnds ==
  ASSUME Recursion, NEW m, SizeFirst(m), NEW v2, NEW V, Encodes(m.of, V, v2),
         NEW b, AtMember(b), NEW v \in Seq(V), Bounded(v, m.max), NEW ew,
         NEW r, r = SerializeSequence(m, b, v, "DataSample", ew), NEW d, Holds(d, b, r)
  PROVE  EndsAt(b, 5, d, r)
<1> SUFFICES b.pos + Announced(5, Read(d, 4).v) = r.pos
  BY DEF EndsAt
<1> DEFINE kind == "DataSample"
           k == Len(v)
           aligned == Align(b, 4)
           sized == Write(aligned, 4, 0)
           start == IF m.header THEN sized ELSE aligned
           counted == Write(start, 4, k)
           done == Each(m.of, counted, v, kind, ew)
           size == done.pos - start.pos
<1>1. r = IF m.header THEN Patch(done, start.pos - 4, size) ELSE done
  BY DEF SerializeSequence, WithinMax, Check, Bounded
<1>2. /\ sized = Write(Align(b, 4), 4, 0)
      /\ counted = Write(start, 4, k)
      /\ done = Each(m.of, counted, v, "DataSample", ew)
      /\ size = done.pos - start.pos
      /\ k \in Nat /\ k = Len(v)
      /\ aligned = Align(b, 4)
      /\ IF m.header THEN start = sized ELSE start = aligned
  OBVIOUS
<1> HIDE DEF k, aligned, sized, start, counted, done, size
<1>3. CASE m.header
  <2>1. start = Write(Align(b, 4), 4, 0) /\ r = Patch(done, start.pos - 4, done.pos - start.pos)
    BY <1>1, <1>2, <1>3
  <2>2. AtMember(start)
    BY <2>1, NumberFirst
  <2>3. Fit(start, FALSE)
    BY <2>2 DEF AtMember, Fit
  <2> DEFINE no == FALSE
  <2>4. Fit(start, no) /\ start = start
    BY <2>3
  <2> HIDE DEF no
  <2>5. Fit(counted, no) /\ Extends(start, counted)
    BY <1>2, <2>4, CountRead
  <2>6. Extends(counted, done)
    <3>1. Sound(counted)
      BY <2>5 DEF Fit
    <3>2. Encoded(v2, counted, done)
      BY <1>2, <3>1, EachEncoded
    <3> QED
      BY <3>2, EncodedExtends
  <2>7. Extends(start, done)
    <3>1. Sound(start)
      BY <2>2 DEF AtMember
    <3> QED
      BY <2>5, <2>6, <3>1, ExtendsMore
  <2> QED
    BY <2>1, <2>7, FrameFirst
<1>4. CASE ~m.header
  <2>1. start = b /\ r = done /\ counted = Write(Align(b, 4), 4, k)
    <3> DEFINE four == 4
    <3>1. four \in Widths /\ aligned = Align(b, four)
      BY <1>2 DEF Widths
    <3> HIDE DEF four
    <3>2. Align(b, four) = b
      BY <3>1, AlignedMember
    <3> QED
      BY <1>1, <1>2, <1>4, <3>1, <3>2
  <2>2. /\ counted.pos = b.pos + 4 /\ AtMember(counted)
        /\ \A f, e : Extends(counted, f) /\ Holds(e, b, f) => Read(e, 4).v = k
    BY <2>1, NumberFirst
  <2>3. Sound(counted) /\ m.of.m = "Char"
    BY <1>4, <2>2 DEF AtMember, SizeFirst
  <2>4. Len(v) \in Nat
    BY <1>2
  <2>5. Each(m.of, counted, v, kind, ew).pos = counted.pos + Len(v) /\ Extends(counted, Each(m.of, counted, v, kind, ew))
    BY <2>3, <2>4, EachCharEnds
  <2>6. done.pos = counted.pos + k /\ Extends(counted, done)
    BY <1>2, <2>5
  <2>7. Read(d, 4).v = k
    BY <2>1, <2>2, <2>6
  <2>8. Announced(5, k) = k + 4
    BY DEF Announced
  <2>9. b.pos \in Nat /\ k \in Nat
    BY <1>2 DEF AtMember, Sound
  <2>10. r.pos = b.pos + 4 + k
    BY <2>1, <2>2, <2>6
  <2>11. b.pos + (k + 4) = r.pos
    BY <2>9, <2>10
  <2> QED
    BY <2>7, <2>8, <2>11
<1> QED
  BY <1>3, <1>4

LEMMA ArrayEnds ==
  ASSUME NEW m, m.m = "Array", LenType(m) = 5, NEW v2, NEW V, Encodes(m.of, V, v2),
         NEW b, AtMember(b), NEW v \in Seq(V), Len(v) = m.len, NEW ew,
         NEW r, r = SerializeArray(m, b, v, "DataSample", ew), NEW d, Holds(d, b, r)
  PROVE  EndsAt(b, 5, d, r)
<1> SUFFICES b.pos + Announced(5, Read(d, 4).v) = r.pos
  BY DEF EndsAt
<1> DEFINE start == Write(Align(b, 4), 4, 0)
           done == Each(m.of, start, v, "DataSample", ew)
<1>1. r = Patch(done, start.pos - 4, done.pos - start.pos)
  <2>1. m.header
    BY DEF LenType
  <2> QED
    BY <2>1 DEF SerializeArray, Check
<1>2. start = Write(Align(b, 4), 4, 0) /\ done = Each(m.of, start, v, "DataSample", ew)
  OBVIOUS
<1> HIDE DEF start, done
<1>3. AtMember(start)
  BY <1>2, NumberFirst
<1>4. Sound(start)
  BY <1>3 DEF AtMember
<1>5. Encoded(v2, start, done)
  BY <1>2, <1>4, EachEncoded
<1>6. Extends(start, done)
  BY <1>5, EncodedExtends
<1> QED
  BY <1>1, <1>2, <1>6, FrameFirst

\* The member's length code, if it has one, tells where it ends.
LEMMA CodesKnown ==
  ASSUME Recursion, NEW t \in Descs, NEW id, NEW header, NEW v2 \in BOOLEAN, NEW m, m = BuiltMachine(t, id, header, v2),
         m.m = "Sequence" => SizeFirst(m)
  PROVE  LenType(m) = 4 \/ SizeKnown(m, t, LenType(m))
<1>1. m = BuiltMachine(t, id, header, v2) /\ IsDescription(t)
  BY TypesAssumption
<1>2. \A v \in ValuesOf[t] : IsValue(t, v)
  BY ValuesAssumption
<1>3. \A b, v, ew : Serialize(m, b, v, "DataSample", ew) = Serialized(m, b, v, "DataSample", ew)
  BY DEF Recursion
<1>4. \A x \in Descs : Fits(x, v2)
  BY AllFit
<1> DEFINE sub == MachineFor(t.of, None, header, v2)
           V == ValuesOf[t.of]
\* Numbers.
<1>5. ASSUME NEW n \in Widths, LenType(m) = Log2(n),
             \A b, ew : \A v \in ValuesOf[t] : \E x : Serialize(m, b, v, "DataSample", ew) = Write(Align(b, n), n, x)
      PROVE  SizeKnown(m, t, LenType(m))
  <2> DEFINE lc == LenType(m)
  <2>1. lc \in {0, 1, 2, 3} /\ \A x : Announced(lc, x) = n
    BY <1>5, CodeOfWidth
  <2> HIDE DEF lc
  <2>2. ASSUME NEW b, AtMember(b), NEW v \in ValuesOf[t] PROVE EndsKnown(m, b, v, lc)
    <3> SUFFICES ASSUME NEW ew, NEW d
                 PROVE  b.pos + Announced(lc, Read(d, 4).v) = Serialize(m, b, v, "DataSample", ew).pos
      BY DEF EndsKnown
    <3>1. PICK x : Serialize(m, b, v, "DataSample", ew) = Write(Align(b, n), n, x)
      BY <1>5
    <3>2. Write(Align(b, n), n, x).pos = b.pos + n
      BY <2>2, NumberEnds
    <3> QED
      BY <2>1, <3>1, <3>2
  <2>3. lc \in {0, 1, 2, 3, 5, 6, 7}
    BY <2>1
  <2> QED
    BY <2>2, <2>3, SizeKnownBy DEF lc
<1>6. CASE t.k = "prim"
  <2>1. m = [m |-> "Primitive", size |-> t.size] /\ t.size \in Widths
    BY <1>1, <1>6 DEF BuiltMachine, IsDescription, Widths
  <2>2. LenType(m) = Log2(t.size)
    BY <2>1 DEF LenType
  <2>3. \A b, v, ew : Serialize(m, b, v, "DataSample", ew) = Write(Align(b, t.size), t.size, v)
    BY <1>3, <2>1 DEF Serialized, SerializePrimitive
  <2> QED
    BY <1>5, <2>1, <2>2, <2>3
<1>7. CASE t.k = "enum"
  <2> DEFINE h == EnumHolder(t.bits)
  <2>1. \/ m = [m |-> "Enum", default |-> t.default]
        \/ t.bits \in 1 .. MaxBits /\ m = [m |-> "BitBoundEnum", size |-> h, default |-> t.default]
    BY <1>1, <1>7 DEF BuiltMachine, IsDescription
  <2>2. t.bits \in 1 .. MaxBits => h \in Widths
    BY HolderWidth
  <2> HIDE DEF h
  <2>3. CASE m.m = "Enum"
    <3> DEFINE n == 4
    <3>1. LenType(m) = 2 /\ n \in Widths
      BY <2>3 DEF LenType, Widths
    <3>2. Log2(n) = 2
      BY DEF Log2, MaxBits
    <3>3. \A b, v, ew : Serialize(m, b, v, "DataSample", ew) = Write(Align(b, n), n, v)
      BY <1>3, <2>3 DEF Serialized, SerializeEnum
    <3> HIDE DEF n
    <3> QED
      BY <1>5, <3>1, <3>2, <3>3
  <2>4. CASE m.m = "BitBoundEnum"
    <3>1. m.size = h /\ h \in Widths
      BY <2>1, <2>2, <2>4
    <3>2. LenType(m) = Log2(h)
      BY <2>4, <3>1 DEF LenType
    <3>3. \A b, v, ew : Serialize(m, b, v, "DataSample", ew) = Write(Align(b, h), h, v)
      BY <1>3, <2>4, <3>1 DEF Serialized, SerializeBitBoundEnum
    <3> QED
      BY <1>5, <3>1, <3>2, <3>3
  <2> QED
    BY <2>1, <2>3, <2>4
<1>8. CASE t.k = "bitmask"
  <2> DEFINE h == MaskHolder(t.bits)
  <2>1. m = [m |-> "BitMask", size |-> h] /\ t.bits \in 1 .. MaxBits
    BY <1>1, <1>8 DEF BuiltMachine, IsDescription
  <2>2. h \in Widths
    BY <2>1, HolderWidth
  <2> HIDE DEF h
  <2>3. LenType(m) = Log2(h)
    BY <2>1 DEF LenType
  <2>4. ASSUME NEW b, NEW ew, NEW v \in ValuesOf[t]
        PROVE  \E x : Serialize(m, b, v, "DataSample", ew) = Write(Align(b, h), h, x)
    <3>1. Len(v) = 1
      BY <1>2, <1>8 DEF IsValue
    <3>2. v # <<>>
      <4> SUFFICES ASSUME v = <<>> PROVE FALSE
        OBVIOUS
      <4>1. Len(v) = 0
        OBVIOUS
      <4> QED
        BY <3>1, <4>1
    <3>3. Serialize(m, b, v, "DataSample", ew) = SerializeBitMask(m, b, v)
      BY <1>3, <2>1 DEF Serialized
    <3>4. SerializeBitMask(m, b, v) = Write(Align(b, h), h, v[1])
      BY <2>1, <3>2 DEF SerializeBitMask
    <3> QED
      BY <3>3, <3>4
  <2> QED
    BY <1>5, <2>2, <2>3, <2>4
<1>9. CASE t.k = "char"
  <2>1. m = [m |-> "Char"]
    BY <1>1, <1>9 DEF BuiltMachine
  <2> DEFINE lc == LenType(m)
  <2>2. lc = 0
    BY <2>1 DEF LenType
  <2> HIDE DEF lc
  <2>3. ASSUME NEW b, AtMember(b), NEW v \in ValuesOf[t] PROVE EndsKnown(m, b, v, lc)
    <3> SUFFICES ASSUME NEW ew, NEW d
                 PROVE  b.pos + Announced(lc, Read(d, 4).v) = Serialize(m, b, v, "DataSample", ew).pos
      BY DEF EndsKnown
    <3>1. Serialize(m, b, v, "DataSample", ew) = Write(b, 1, v)
      BY <1>3, <2>1 DEF Serialized, SerializeChar
    <3>2. Write(b, 1, v).pos = b.pos + 1
      <4>1. Sound(b)
        BY <2>3 DEF AtMember
      <4> QED
        BY <4>1, ByteEncoded
    <3>3. Announced(lc, Read(d, 4).v) = 1
      <4>1. \A x : Announced(0, x) = 1
        BY DEF Announced
      <4> QED
        BY <2>2, <4>1
    <3> QED
      BY <3>1, <3>2, <3>3
  <2>4. lc \in {0, 1, 2, 3, 5, 6, 7}
    BY <2>2
  <2> QED
    BY <2>3, <2>4, SizeKnownBy DEF lc
\* Strings.
<1>10. CASE t.k = "string"
  <2>1. m = [m |-> "String", bound |-> t.bound]
    BY <1>1, <1>10 DEF BuiltMachine
  <2> DEFINE lc == LenType(m)
  <2>2. lc = 5
    BY <2>1 DEF LenType
  <2> HIDE DEF lc
  <2>3. ASSUME NEW b, AtMember(b), NEW v \in ValuesOf[t] PROVE EndsKnown(m, b, v, lc)
    <3> SUFFICES ASSUME NEW ew, NEW d, Holds(d, b, Serialize(m, b, v, "DataSample", ew))
                 PROVE  b.pos + Announced(lc, Read(d, 4).v) = Serialize(m, b, v, "DataSample", ew).pos
      BY DEF EndsKnown
    <3>1. Serialize(m, b, v, "DataSample", ew) = SerializeString(m, b, v)
      BY <1>3, <2>1 DEF Serialized
    <3>2. v \in Seq(1 .. 4) /\ Bounded(v, m.bound)
      BY <1>2, <1>10, <2>1 DEF IsValue
    <3> QED
      BY <2>2, <2>3, <3>1, <3>2, StringEnds
  <2>4. lc \in {0, 1, 2, 3, 5, 6, 7}
    BY <2>2
  <2> QED
    BY <2>3, <2>4, SizeKnownBy DEF lc
\* Sequences.
<1>11. CASE m.m = "Sequence" /\ SizeFirst(m) /\ t.of \in Descs /\ Encodes(m.of, V, v2)
            /\ \A v \in ValuesOf[t] : v \in Seq(V) /\ Bounded(v, m.max)
  <2> DEFINE lc == LenType(m)
  <2>2. lc = 5
    BY <1>11 DEF LenType
  <2>1. Encodes(m.of, V, v2)
    BY <1>11
  <2> HIDE DEF lc, V
  <2>3. ASSUME NEW b, AtMember(b), NEW v \in ValuesOf[t] PROVE EndsKnown(m, b, v, lc)
    <3> SUFFICES ASSUME NEW ew, NEW d, Holds(d, b, Serialize(m, b, v, "DataSample", ew))
                 PROVE  b.pos + Announced(lc, Read(d, 4).v) = Serialize(m, b, v, "DataSample", ew).pos
      BY DEF EndsKnown
    <3> DEFINE r == Serialize(m, b, v, "DataSample", ew)
    <3>1. r = SerializeSequence(m, b, v, "DataSample", ew)
      BY <1>3, <1>11 DEF Serialized
    <3>2. v \in Seq(V) /\ Bounded(v, m.max) /\ SizeFirst(m)
      BY <1>11
    <3>3. Holds(d, b, r)
      OBVIOUS
    <3> HIDE DEF r
    <3>4. EndsAt(b, 5, d, r)
      BY <2>1, <2>3, <3>1, <3>2, <3>3, SequenceEnds
    <3> QED
      BY <2>2, <3>4 DEF r, EndsAt
  <2>4. lc \in {0, 1, 2, 3, 5, 6, 7}
    BY <2>2
  <2> QED
    BY <2>3, <2>4, SizeKnownBy DEF lc
<1>12. CASE t.k = "list"
  <2>1. m = [m |-> "Sequence", of |-> sub, max |-> None, header |-> header]
    BY <1>1, <1>12 DEF BuiltMachine
  <2>2. t.of \in Descs
    BY <1>12, TypesAssumption DEF Parts
  <2>3. Encodes(sub, V, v2)
    BY <1>4, <2>2 DEF Fits
  <2>4. \A v \in ValuesOf[t] : v \in Seq(V) /\ Bounded(v, m.max)
    BY <1>2, <1>12, <2>1 DEF IsValue, Bounded
  <2> HIDE DEF sub, V
  <2>5. m.m = "Sequence" /\ m.of = sub
    BY <2>1
  <2> QED
    BY <1>11, <2>2, <2>3, <2>4, <2>5
<1>13. CASE t.k = "seq"
  <2>1. m = IF sub.m = "Primitive" THEN [m |-> "PlainSequence", size |-> sub.size, max |-> t.max]
            ELSE [m |-> "Sequence", of |-> sub, max |-> t.max, header |-> header /\ sub.m # "Char"]
    BY <1>1, <1>13 DEF BuiltMachine, SequenceMachineFor
  <2>2. t.of \in Descs
    BY <1>13, TypesAssumption DEF Parts
  <2>3. Encodes(sub, V, v2)
    BY <1>4, <2>2 DEF Fits
  <2>4. \A v \in ValuesOf[t] : v \in Seq(V) /\ Bounded(v, t.max)
    BY <1>2, <1>13 DEF IsValue
  <2>5. sub.m = "Primitive" => sub.size \in Widths
    BY <2>2, PrimitiveMachine
  <2> HIDE DEF sub
  <2>6. CASE sub.m = "Primitive"
    <3>1. m.m = "PlainSequence" /\ m.size = sub.size /\ m.max = t.max /\ m.size \in Widths
      BY <2>1, <2>5, <2>6
    <3>2. CASE m.size = 2
      BY <3>1, <3>2 DEF LenType
    <3>3. CASE m.size \in {1, 4, 8}
      <4> DEFINE lc == LenType(m)
      <4>1. lc \in {0, 1, 2, 3, 5, 6, 7}
        BY <3>1, <3>3 DEF LenType
      <4> HIDE DEF lc
      <4>2. ASSUME NEW b, AtMember(b), NEW v \in ValuesOf[t] PROVE EndsKnown(m, b, v, lc)
        <5> SUFFICES ASSUME NEW ew, NEW d, Holds(d, b, Serialize(m, b, v, "DataSample", ew))
                     PROVE  b.pos + Announced(lc, Read(d, 4).v) = Serialize(m, b, v, "DataSample", ew).pos
          BY DEF EndsKnown
        <5> DEFINE r == Serialize(m, b, v, "DataSample", ew)
        <5>1. r = SerializePlainSequence(m, b, v)
          BY <1>3, <3>1 DEF Serialized
        <5>2. v \in Seq(V) /\ Bounded(v, m.max) /\ Holds(d, b, r)
          BY <2>4, <3>1
        <5>3. Len(v) \in Nat /\ (Len(v) = 0 <=> v = <<>>)
          BY <5>2
        <5> HIDE DEF r
        <5>4. b.pos + Announced(LenType(m), Read(d, 4).v) = r.pos \/ m.m # "PlainSequence"
          BY <3>3, <4>2, <5>1, <5>2, <5>3, PlainSequenceEnds
        <5> QED
          BY <3>1, <5>4 DEF lc, r
      <4> QED
        BY <4>1, <4>2, SizeKnownBy DEF lc
    <3> QED
      BY <3>1, <3>2, <3>3 DEF Widths
  <2>7. CASE sub.m # "Primitive"
    <3>1. m.m = "Sequence" /\ m.of = sub /\ m.max = t.max
      BY <2>1, <2>7
    <3> HIDE DEF V
    <3> QED
      BY <1>11, <2>2, <2>3, <2>4, <3>1
  <2> QED
    BY <2>6, <2>7
\* Arrays.
<1>14. CASE t.k = "array"
  <2> DEFINE of == StripHeaders(sub)
             plain == Innermost(sub) \in {"PlainArray", "Char"}
  <2>1. m = IF sub.m = "Primitive" THEN [m |-> "PlainArray", size |-> sub.size, len |-> t.len]
            ELSE [m |-> "Array", of |-> of, inner |-> Innermost(sub), len |-> t.len, header |-> header /\ ~plain]
    BY <1>1, <1>14 DEF BuiltMachine, ArrayMachineFor
  <2>2. t.of \in Descs
    BY <1>14, TypesAssumption DEF Parts
  <2>3. Encodes(of, V, v2)
    BY <1>4, <2>2 DEF Fits
  <2>4. \A v \in ValuesOf[t] : v \in Seq(V) /\ Len(v) = t.len
    BY <1>2, <1>14 DEF IsValue
  <2> HIDE DEF sub, of, plain, V
  <2>5. CASE m.m = "Array" /\ m.header
    <3> DEFINE lc == LenType(m)
    <3>1. lc = 5
      BY <2>5 DEF LenType
    <3>2. sub.m # "Primitive"
      BY <2>1, <2>5
    <3>3. m.of = of /\ m.len = t.len
      BY <2>1, <3>2
    <3>4. Encodes(m.of, V, v2)
      BY <2>3, <3>3
    <3> HIDE DEF lc
    <3>5. ASSUME NEW b, AtMember(b), NEW v \in ValuesOf[t] PROVE EndsKnown(m, b, v, lc)
      <4> SUFFICES ASSUME NEW ew, NEW d, Holds(d, b, Serialize(m, b, v, "DataSample", ew))
                   PROVE  b.pos + Announced(lc, Read(d, 4).v) = Serialize(m, b, v, "DataSample", ew).pos
        BY DEF EndsKnown
      <4> DEFINE r == Serialize(m, b, v, "DataSample", ew)
      <4>1. r = SerializeArray(m, b, v, "DataSample", ew)
        BY <1>3, <2>5 DEF Serialized
      <4>2. v \in Seq(V) /\ Len(v) = m.len /\ m.m = "Array" /\ LenType(m) = 5 /\ Holds(d, b, r)
        BY <2>4, <2>5, <3>1, <3>3 DEF lc
      <4> HIDE DEF r
      <4>3. EndsAt(b, 5, d, r)
        BY <3>4, <3>5, <4>1, <4>2, ArrayEnds
      <4> QED
        BY <3>1, <4>3 DEF r, EndsAt
    <3>6. lc \in {0, 1, 2, 3, 5, 6, 7}
      BY <3>1
    <3> QED
      BY <3>5, <3>6, SizeKnownBy DEF lc
  <2>6. CASE ~(m.m = "Array" /\ m.header)
    <3>1. m.m \in {"Array", "PlainArray"}
      BY <2>1
    <3> QED
      BY <2>6, <3>1 DEF LenType
  <2> QED
    BY <2>5, <2>6
<1>15. CASE t.k \in {"bytes", "opt", "map", "struct", "union"}
  <2>1. m.m \in {"Bytes", "Optional", "Mapping", "Mutable", "Delimited", "Struct", "Union", "DelimitedUnion"}
    BY <1>1, <1>15 DEF BuiltMachine, StructMachineFor, UnionMachineFor
  <2> QED
    BY <2>1 DEF LenType
<1> QED
  BY <1>1, <1>6, <1>7, <1>8, <1>9, <1>10, <1>12, <1>13, <1>14, <1>15 DEF IsDescription

(***************************************************************************)
(* What raises no error: with every step the buffer keeps the error it has. *)
(***************************************************************************)
Kept(b, r) == IsBufferRecord(b) => IsBufferRecord(r) /\ r.error = b.error

LEMMA KeptMore ==
  ASSUME NEW b, NEW c, NEW r, Kept(b, c), Kept(c, r)
  PROVE  Kept(b, r)
BY DEF Kept

LEMMA KeptMoved ==
  ASSUME NEW b
  PROVE  /\ Kept(b, b)
         /\ \A a : Kept(b, Align(b, a))
         /\ \A p : Kept(b, Seek(b, p))
         /\ \A offset : Kept(b, SetAlignOffset(b, offset))
BY DEF Kept, IsBufferRecord, Align, Seek, SetAlignOffset

LEMMA KeptWriteIn ==
  ASSUME NEW b, NEW n, NEW unit, NEW endian, NEW v
  PROVE  Kept(b, WriteIn(b, n, unit, endian, v))
<1> DEFINE g == EnsureSize(b, n)
           cells == PutCell(b.cells, b.pos, n, [width |-> n, unit |-> unit, endian |-> endian, v |-> v])
           end == b.pos + n
           r == WriteIn(b, n, unit, endian, v)
<1>1. r = g \/ r = [g EXCEPT !.pos = end, !.cells = cells]
  BY DEF WriteIn
<1>2. Kept(b, g)
  BY DEF EnsureSize, Kept, IsBufferRecord
<1> HIDE DEF g, cells, end, r
<1>3. Kept(g, r)
  BY <1>1 DEF Kept, IsBufferRecord
<1> QED
  BY <1>2, <1>3, KeptMore DEF r

LEMMA KeptCheck ==
  ASSUME NEW b, NEW c, Kept(b, c), NEW holds, holds, NEW error
  PROVE  Kept(b, Check(c, holds, error))
BY DEF Check

LEMMA KeptWrite ==
  ASSUME NEW b, NEW n, NEW v, InRange(n, v)
  PROVE  Kept(b, Write(b, n, v))
<1> DEFINE e == IF n = 1 THEN "any" ELSE b.endian
<1>1. Kept(b, WriteIn(b, n, n, e, v))
  BY KeptWriteIn
<1> QED
  BY <1>1, KeptCheck DEF Write

\* Numbers of 4 and 8 bytes have room for all there are.
LEMMA WideInRange ==
  ASSUME NEW v
  PROVE  InRange(4, v) /\ InRange(8, v)
BY DEF InRange

LEMMA KeptNumber ==
  ASSUME NEW b, NEW a, NEW v, InRange(a, v)
  PROVE  Kept(b, Write(Align(b, a), a, v))
<1>1. Kept(b, Align(b, a))
  BY KeptMoved
<1>2. Kept(Align(b, a), Write(Align(b, a), a, v))
  BY KeptWrite
<1> QED
  BY <1>1, <1>2, KeptMore

LEMMA KeptSize ==
  ASSUME NEW b, NEW v
  PROVE  Kept(b, Write(Align(b, 4), 4, v)) /\ Kept(b, Write(b, 4, v))
BY WideInRange, KeptNumber, KeptWrite

LEMMA KeptBytes ==
  ASSUME NEW b, NEW n, NEW v
  PROVE  Kept(b, WriteBytes(b, n, v))
BY KeptWriteIn DEF WriteBytes

LEMMA KeptBlock ==
  ASSUME NEW b, NEW a, NEW n, NEW v, \A i \in DOMAIN v : InRange(a, v[i])
  PROVE  Kept(b, WriteMulti(Align(b, a), n, a, v))
<1> DEFINE c == Align(b, a)
           e == IF a = 1 THEN "any" ELSE c.endian
<1>1. Kept(b, c)
  BY KeptMoved
<1>2. WriteMulti(c, n, a, v) = Check(WriteIn(c, n, a, e, v), \A i \in DOMAIN v : InRange(a, v[i]), "struct.error")
  BY DEF WriteMulti
<1>3. Kept(c, WriteIn(c, n, a, e, v))
  BY KeptWriteIn
<1>4. Kept(c, WriteMulti(c, n, a, v))
  BY <1>2, <1>3 DEF Check
<1> QED
  BY <1>1, <1>4, KeptMore

LEMMA KeptPatch ==
  ASSUME NEW b, NEW c, Kept(b, c), NEW q, NEW v
  PROVE  Kept(b, Patch(c, q, v))
<1> DEFINE s == Seek(c, q)
           w == Write(s, 4, v)
           r == Seek(w, c.pos)
<1>1. Patch(c, q, v) = r
  BY DEF Patch
<1>2. Kept(c, s) /\ Kept(w, r)
  BY KeptMoved
<1>3. Kept(s, w)
  BY KeptSize
<1> HIDE DEF s, w, r
<1>4. Kept(b, s)
  BY <1>2, KeptMore
<1>5. Kept(b, w)
  BY <1>3, <1>4, KeptMore
<1> QED
  BY <1>1, <1>2, <1>5, KeptMore

(***************************************************************************)
(* Machines that call other ones.                                          *)
(***************************************************************************)

\* A machine that raises no error for any of these values.
Accepts(m, V, kind, enabled) ==
  \A b : \A v \in V : Kept(b, Serialize(m, b, v, kind, enabled))

LEMMA AcceptsOne ==
  ASSUME NEW m, NEW V, NEW kind, NEW enabled, Accepts(m, V, kind, enabled), NEW v \in V
  PROVE  Accepts(m, {v}, kind, enabled)
BY DEF Accepts

\* One step after another.
LEMMA KeptSteps ==
  ASSUME NEW N \in Nat, NEW after, \A i \in 1 .. N : Kept(after[i - 1], after[i])
  PROVE  Kept(after[0], after[N])
<1> DEFINE T == {i \in Nat : Kept(after[0], after[i])}
<1>1. 0 \in T
  BY DEF Kept
<1>2. ASSUME NEW i \in 0 .. N - 1, i \in T PROVE i + 1 \in T
  <2>1. i + 1 \in 1 .. N /\ (i + 1) - 1 = i
    OBVIOUS
  <2>2. Kept(after[i], after[i + 1])
    BY <2>1
  <2>3. Kept(after[0], after[i + 1])
    BY <1>2, <2>2, KeptMore
  <2> QED
    BY <1>2, <2>3
<1> HIDE DEF T
<1>3. 0 .. N \subseteq T
  BY <1>1, <1>2, IntervalInduction
<1> QED
  BY <1>3 DEF T

LEMMA EachAccepted ==
  ASSUME NEW m, NEW V, NEW kind, NEW enabled, Accepts(m, V, kind, enabled), NEW s \in Seq(V), NEW b
  PROVE  Kept(b, Each(m, b, s, kind, enabled))
<1>1. Len(s) \in Nat /\ \A i \in 1 .. Len(s) : s[i] \in V
  OBVIOUS
<1>2. PICK after : EachRuns(after, m, b, s, kind, enabled)
  BY <1>1, EachSteps
<1>3. \A i \in 1 .. Len(s) : Kept(after[i - 1], after[i])
  BY <1>1, <1>2 DEF EachRuns, Accepts
<1>4. Kept(after[0], after[Len(s)])
  BY <1>1, <1>3, KeptSteps
<1> QED
  BY <1>2, <1>4 DEF EachRuns

LEMMA StringAccepted ==
  ASSUME NEW m, NEW v, Bounded(v, m.bound), NEW b
  PROVE  Kept(b, SerializeString(m, b, v))
<1> DEFINE n == SumOf(v)
           sized == Write(Align(b, 4), 4, n + 1)
           bytes == WriteBytes(sized, n, v)
           z == 0
<1>1. SerializeString(m, b, v) = Write(bytes, 1, z)
  BY DEF SerializeString, Check, Bounded
<1>2. Kept(b, sized)
  BY KeptSize
<1>3. Kept(sized, bytes)
  BY KeptBytes
<1>4. InRange(1, z)
  BY DEF InRange
<1> HIDE DEF z, sized, bytes
<1>5. Kept(bytes, Write(bytes, 1, z))
  BY <1>4, KeptWrite
<1>6. Kept(b, bytes)
  BY <1>2, <1>3, KeptMore
<1> QED
  BY <1>1, <1>5, <1>6, KeptMore

LEMMA BytesAccepted ==
  ASSUME NEW v, NEW b
  PROVE  Kept(b, SerializeBytes(b, v))
<1> DEFINE sized == Write(Align(b, 4), 4, Len(v))
<1>1. Kept(b, sized)
  BY KeptSize
<1>2. Kept(sized, WriteBytes(sized, Len(v), v))
  BY KeptBytes
<1> QED
  BY <1>1, <1>2, KeptMore DEF SerializeBytes

LEMMA PlainArrayAccepted ==
  ASSUME NEW m, NEW v, Len(v) = m.len, \A i \in DOMAIN v : InRange(m.size, v[i]), NEW b
  PROVE  Kept(b, SerializePlainArray(m, b, v))
<1>1. SerializePlainArray(m, b, v) = WriteMulti(Align(b, m.size), m.size * m.len, m.size, v)
  BY DEF SerializePlainArray, Check
<1> QED
  BY <1>1, KeptBlock

LEMMA PlainSequenceAccepted ==
  ASSUME NEW m, NEW v, Bounded(v, m.max), \A i \in DOMAIN v : InRange(m.size, v[i]), NEW b
  PROVE  Kept(b, SerializePlainSequence(m, b, v))
<1> DEFINE counted == Write(Align(b, 4), 4, Len(v))
           block == WriteMulti(Align(counted, m.size), m.size * Len(v), m.size, v)
<1>1. SerializePlainSequence(m, b, v) = IF v = <<>> THEN counted ELSE block
  BY DEF SerializePlainSequence, WithinMax, Check, Bounded
<1>2. Kept(b, counted)
  BY KeptSize
<1>3. Kept(counted, block)
  BY KeptBlock
<1> QED
  BY <1>1, <1>2, <1>3, KeptMore

LEMMA ArrayAccepted ==
  ASSUME NEW m, NEW V, NEW kind, NEW enabled, Accepts(m.of, V, kind, enabled),
         NEW v \in Seq(V), Len(v) = m.len, NEW b
  PROVE  Kept(b, SerializeArray(m, b, v, kind, enabled))
<1> DEFINE sized == Write(Align(b, 4), 4, 0)
           start == IF m.header THEN sized ELSE b
           done == Each(m.of, start, v, kind, enabled)
           q == start.pos - 4
           size == done.pos - start.pos
<1>1. SerializeArray(m, b, v, kind, enabled) = IF m.header THEN Patch(done, q, size) ELSE done
  BY DEF SerializeArray, Check
<1>2. Kept(b, start)
  BY KeptSize, KeptMoved
<1> HIDE DEF start, q, size
<1>3. Kept(start, done)
  BY EachAccepted
<1> HIDE DEF done
<1>4. Kept(b, done)
  BY <1>2, <1>3, KeptMore
<1> QED
  BY <1>1, <1>4, KeptPatch

LEMMA SequenceAccepted ==
  ASSUME NEW m, NEW V, NEW kind, NEW enabled, Accepts(m.of, V, kind, enabled),
         NEW v \in Seq(V), Bounded(v, m.max), NEW b
  PROVE  Kept(b, SerializeSequence(m, b, v, kind, enabled))
<1> DEFINE aligned == Align(b, 4)
           start == IF m.header THEN Write(aligned, 4, 0) ELSE aligned
           counted == Write(start, 4, Len(v))
           done == Each(m.of, counted, v, kind, enabled)
           q == start.pos - 4
           size == done.pos - start.pos
<1>1. SerializeSequence(m, b, v, kind, enabled) = IF m.header THEN Patch(done, q, size) ELSE done
  BY DEF SerializeSequence, WithinMax, Check, Bounded
<1>2. Kept(b, start)
  BY KeptSize, KeptMoved
<1> HIDE DEF start, q, size
<1>3. Kept(start, counted)
  BY KeptSize
<1> HIDE DEF counted
<1>4. Kept(counted, done)
  BY EachAccepted
<1> HIDE DEF done
<1>5. Kept(b, counted)
  BY <1>2, <1>3, KeptMore
<1>6. Kept(b, done)
  BY <1>4, <1>5, KeptMore
<1> QED
  BY <1>1, <1>6, KeptPatch

LEMMA MappingAccepted ==
  ASSUME NEW m, NEW K, NEW V, NEW kind, NEW enabled, Accepts(m.key, K, kind, enabled),
         Accepts(m.val, V, kind, enabled), NEW v \in Seq(K \X V), NEW b
  PROVE  Kept(b, SerializeMapping(m, b, v, kind, enabled))
<1>1. Len(v) \in Nat /\ \A i \in 1 .. Len(v) : v[i] \in K \X V
  OBVIOUS
<1>2. PICK after : MappingRuns(after, m, b, v, kind, enabled)
  BY <1>1, MappingSteps
<1>3. ASSUME NEW i \in 1 .. Len(v) PROVE Kept(after[i - 1], after[i])
  <2> DEFINE k == v[i][1]
             x == v[i][2]
             c == Serialize(m.key, after[i - 1], k, kind, enabled)
  <2>1. k \in K /\ x \in V
    BY <1>1
  <2>2. after[i] = Serialize(m.val, c, x, kind, enabled)
    BY <1>2 DEF MappingRuns
  <2> HIDE DEF k, x
  <2>3. Kept(after[i - 1], c)
    BY <2>1 DEF Accepts
  <2> HIDE DEF c
  <2>4. Kept(c, after[i])
    BY <2>1, <2>2 DEF Accepts
  <2> QED
    BY <2>3, <2>4, KeptMore
<1>4. Kept(after[0], after[Len(v)])
  BY <1>1, <1>3, KeptSteps
<1>5. Kept(b, after[0])
  BY <1>2, KeptSize DEF MappingRuns
<1>6. Kept(b, after[Len(v)])
  BY <1>4, <1>5, KeptMore
<1> QED
  BY <1>2, <1>6 DEF MappingRuns

LEMMA OptionalAccepted ==
  ASSUME NEW m, NEW V, Accepts(m.of, V, "DataSample", "Never"), NEW v, v \in {None} \cup V, NEW b
  PROVE  Kept(b, SerializeOptional(m, b, v, "DataSample"))
<1> DEFINE kind == "DataSample"
           never == "Never"
<1>1. Accepts(m.of, V, kind, never) /\ (v = None \/ v \in V)
  OBVIOUS
<1>2. CASE m.v2
  <2> DEFINE z == 0
             x == 1
             there == Write(b, 1, x)
  <2>1. SerializeOptional(m, b, v, kind) = IF v = None THEN Write(b, 1, z) ELSE Serialize(m.of, there, v, kind, never)
    BY <1>2 DEF SerializeOptional
  <2>2. InRange(1, z) /\ InRange(1, x)
    BY DEF InRange
  <2> HIDE DEF z, x, kind, never
  <2>3. Kept(b, Write(b, 1, z)) /\ Kept(b, there)
    BY <2>2, KeptWrite
  <2> HIDE DEF there
  <2>4. v # None => Kept(there, Serialize(m.of, there, v, kind, never))
    BY <1>1 DEF Accepts
  <2> QED
    BY <2>1, <2>3, <2>4, KeptMore DEF kind
<1>3. CASE ~m.v2
  <2> DEFINE aligned == Align(b, 4)
             eight == 8
             zero == 0
             pid == Write(aligned, 2, ExtendedPid)
             short == Write(pid, 2, eight)
             header == Write(short, 4, m.id)
             start == Write(header, 4, zero)
             inner == SetAlignOffset(start, start.pos)
             r == Serialize(m.of, inner, v, kind, never)
             done == SetAlignOffset(r, start.offset)
             q == header.pos
             size == done.pos - start.pos
  <2>1. SerializeOptional(m, b, v, kind) = IF v = None THEN start ELSE Patch(done, q, size)
    BY <1>3 DEF SerializeOptional
  <2>2. InRange(2, ExtendedPid) /\ InRange(2, eight)
    BY DEF InRange, ExtendedPid
  <2> HIDE DEF eight, kind, never, q, size
  <2>3. Kept(b, aligned)
    BY KeptMoved
  <2> HIDE DEF aligned
  <2>4. Kept(aligned, pid)
    BY <2>2, KeptWrite
  <2> HIDE DEF pid
  <2>5. Kept(pid, short)
    BY <2>2, KeptWrite
  <2> HIDE DEF short
  <2>6. Kept(short, header)
    BY KeptSize
  <2> HIDE DEF header
  <2>7. Kept(header, start)
    BY KeptSize
  <2> HIDE DEF start
  <2>8. Kept(b, pid)
    BY <2>3, <2>4, KeptMore
  <2>9. Kept(b, short)
    BY <2>5, <2>8, KeptMore
  <2>10. Kept(b, header)
    BY <2>6, <2>9, KeptMore
  <2>11. Kept(b, start)
    BY <2>7, <2>10, KeptMore
  <2>12. Kept(start, inner) /\ Kept(r, done)
    BY KeptMoved
  <2> HIDE DEF inner, done
  <2>13. v # None => Kept(inner, r)
    BY <1>1 DEF Accepts
  <2> HIDE DEF r
  <2>14. Kept(b, inner)
    BY <2>11, <2>12, KeptMore
  <2>15. v # None => Kept(b, r)
    BY <2>13, <2>14, KeptMore
  <2>16. v # None => Kept(b, done)
    BY <2>12, <2>15, KeptMore
  <2>17. v # None => Kept(b, Patch(done, q, size))
    BY <2>16, KeptPatch
  <2> QED
    BY <2>1, <2>11, <2>17 DEF kind
<1> QED
  BY <1>2, <1>3

LEMMA UnionAccepted ==
  ASSUME NEW m, NEW kind, NEW enabled, NEW inside, NEW D, Accepts(m.disc, D, kind, enabled), NEW u,
         Label(m, u) \in D, NEW V, u.v \in V,
         u.d \in DOMAIN m.cases => Accepts(m.cases[u.d], V, kind, inside),
         u.d \notin DOMAIN m.cases /\ m.default # None => Accepts(m.default, V, kind, inside), NEW b
  PROVE  Kept(b, SerializeUnion(m, b, u, kind, enabled, inside))
<1> DEFINE labelled == Serialize(m.disc, b, Label(m, u), kind, enabled)
           out == SerializeUnion(m, b, u, kind, enabled, inside)
<1>1. Kept(b, labelled)
  BY DEF Accepts
<1>2. \/ out = labelled
      \/ u.d \in DOMAIN m.cases /\ out = Serialize(m.cases[u.d], labelled, u.v, kind, inside)
      \/ u.d \notin DOMAIN m.cases /\ m.default # None /\ out = Serialize(m.default, labelled, u.v, kind, inside)
  BY DEF SerializeUnion
<1> HIDE DEF labelled, out
<1>3. out = labelled \/ Kept(labelled, out)
  BY <1>2 DEF Accepts
<1>4. Kept(b, out)
  BY <1>1, <1>3, KeptMore
<1> QED
  BY <1>4 DEF out

LEMMA DelimitedUnionAccepted ==
  ASSUME NEW m, NEW kind, NEW D, Accepts(m.disc, D, kind, "InKeylist"), NEW u,
         Label(m, u) \in D, NEW V, u.v \in V,
         u.d \in DOMAIN m.cases => Accepts(m.cases[u.d], V, kind, "InKeylist"),
         u.d \notin DOMAIN m.cases /\ m.default # None => Accepts(m.default, V, kind, "InKeylist"), NEW b
  PROVE  Kept(b, SerializeDelimitedUnion(m, b, u, kind))
<1> DEFINE start == Write(Align(b, 4), 4, 0)
           done == SerializeUnion(m, start, u, kind, "InKeylist", "InKeylist")
           q == start.pos - 4
           size == done.pos - start.pos
<1>1. SerializeDelimitedUnion(m, b, u, kind) = Patch(done, q, size)
  BY DEF SerializeDelimitedUnion
<1>2. Kept(b, start)
  BY KeptSize
<1> HIDE DEF start, q, size
<1>3. Kept(start, done)
  BY UnionAccepted
<1> HIDE DEF done
<1>4. Kept(b, done)
  BY <1>2, <1>3, KeptMore
<1> QED
  BY <1>1, <1>4, KeptPatch

\* A member that is left out of a key, or is accepted.
AcceptedMember(machine, name, keys, v, kind, enabled) ==
  LET e == KeyEnabled(keys, name, enabled)
  IN  \/ kind # "DataSample" /\ e = "Never"
      \/ Accepts(machine, {v[name]}, kind, e)

LEMMA MembersAccepted ==
  ASSUME NEW m, Len(m.members) \in Nat, NEW v, NEW kind, NEW enabled,
         \A i \in 1 .. Len(m.members) :
           AcceptedMember(m.members[i].machine, m.members[i].name, m.keys, v, kind, enabled),
         NEW b
  PROVE  Kept(b, SerializeMembers(m, b, v, kind, enabled))
<1> DEFINE N == Len(m.members)
<1>1. PICK after : MembersRuns(after, m, b, v, kind, enabled)
  BY MembersSteps
<1>2. ASSUME NEW i \in 1 .. N PROVE Kept(after[i - 1], after[i])
  <2> DEFINE x == m.members[i]
             e == KeyEnabled(m.keys, x.name, enabled)
             c == after[i - 1]
  <2>1. after[i] = SerializeMember(m, c, x, v, kind, enabled)
    BY <1>1 DEF MembersRuns
  <2>2. AcceptedMember(x.machine, x.name, m.keys, v, kind, enabled)
    OBVIOUS
  <2> HIDE DEF x, c
  <2>3. CASE kind # "DataSample" /\ e = "Never"
    <3>1. after[i] = c
      BY <2>1, <2>3 DEF SerializeMember
    <3> QED
      BY <3>1, KeptMoved DEF c
  <2>4. CASE ~(kind # "DataSample" /\ e = "Never")
    <3>1. after[i] = Serialize(x.machine, c, v[x.name], kind, e)
      BY <2>1, <2>4 DEF SerializeMember
    <3>2. Accepts(x.machine, {v[x.name]}, kind, e)
      BY <2>2, <2>4 DEF AcceptedMember
    <3> QED
      BY <3>1, <3>2 DEF Accepts, c
  <2> QED
    BY <2>3, <2>4
<1>3. Kept(after[0], after[N])
  BY <1>2, KeptSteps
<1> QED
  BY <1>1, <1>3 DEF MembersRuns

LEMMA DelimitedAccepted ==
  ASSUME NEW m, Len(m.members) \in Nat, NEW v, NEW kind, NEW enabled,
         \A i \in 1 .. Len(m.members) :
           AcceptedMember(m.members[i].machine, m.members[i].name, m.keys, v, kind, enabled),
         NEW b
  PROVE  Kept(b, SerializeDelimited(m, b, v, kind, enabled))
<1> DEFINE start == Write(Align(b, 4), 4, 0)
           done == SerializeMembers(m, start, v, kind, enabled)
           q == start.pos - 4
           size == done.pos - start.pos
<1>1. SerializeDelimited(m, b, v, kind, enabled) = Patch(done, q, size)
  BY DEF SerializeDelimited
<1>2. Kept(b, start)
  BY KeptSize
<1> HIDE DEF start, q, size
<1>3. Kept(start, done)
  BY MembersAccepted
<1> HIDE DEF done
<1>4. Kept(b, done)
  BY <1>2, <1>3, KeptMore
<1> QED
  BY <1>1, <1>4, KeptPatch

LEMMA MemberHeaderKept ==
  ASSUME NEW m, NEW b, NEW member
  PROVE  Kept(b, MemberHeader(m, b, member))
<1> DEFINE header == MemberHeader(m, b, member)
           aligned == Align(b, 4)
           eight == 8
           pid == Write(aligned, 2, ExtendedPid)
           short == Write(pid, 2, eight)
           x == [mu |-> member.mu, lc |-> member.lentype, id |-> member.id]
           y == [mu |-> member.mu, id |-> member.id]
<1>1. header = Write(aligned, 4, x) \/ header = Write(short, 4, y)
  BY DEF MemberHeader
<1>2. InRange(2, ExtendedPid) /\ InRange(2, eight)
  BY DEF InRange, ExtendedPid
<1> HIDE DEF header, eight, x, y
<1>3. Kept(b, Write(aligned, 4, x)) /\ Kept(b, aligned)
  BY KeptSize, KeptMoved
<1> HIDE DEF aligned
<1>4. Kept(aligned, pid)
  BY <1>2, KeptWrite
<1> HIDE DEF pid
<1>5. Kept(pid, short)
  BY <1>2, KeptWrite
<1> HIDE DEF short
<1>6. Kept(short, Write(short, 4, y))
  BY KeptSize
<1>7. Kept(b, pid)
  BY <1>3, <1>4, KeptMore
<1>8. Kept(b, short)
  BY <1>5, <1>7, KeptMore
<1>9. Kept(b, Write(short, 4, y))
  BY <1>6, <1>8, KeptMore
<1> QED
  BY <1>1, <1>3, <1>9 DEF header

LEMMA MutableMemberAccepted ==
  ASSUME NEW m, NEW member, NEW v, NEW kind, NEW enabled, Accepts(member.machine, {v}, kind, enabled), NEW b
  PROVE  Kept(b, SerializeMutableMember(m, b, member, v, kind, enabled))
<1> DEFINE header == MemberHeader(m, b, member)
           sized == IF member.lentype = 4 THEN Write(header, 4, 0) ELSE header
           origin == IF m.v2 THEN sized ELSE SetAlignOffset(sized, sized.pos)
           written == Serialize(member.machine, origin, v, kind, enabled)
           back == SetAlignOffset(written, sized.offset)
           done == IF m.v2 THEN written ELSE Align(back, 4)
           q == header.pos
           size == done.pos - header.pos - 4
           r == SerializeMutableMember(m, b, member, v, kind, enabled)
<1>1. r = IF member.lentype = 4 THEN Patch(done, q, size) ELSE done
  BY DEF SerializeMutableMember
<1> HIDE DEF r, q, size
<1>2. Kept(b, header)
  BY MemberHeaderKept
<1>3. Kept(header, sized)
  BY KeptSize, KeptMoved
<1> HIDE DEF header, sized
<1>4. Kept(sized, origin)
  BY KeptMoved
<1> HIDE DEF origin
<1>5. Kept(origin, written)
  BY DEF Accepts
<1> HIDE DEF written
<1>6. Kept(written, done)
  <2>1. Kept(written, back) /\ Kept(back, Align(back, 4)) /\ Kept(written, written)
    BY KeptMoved
  <2> QED
    BY <2>1, KeptMore
<1> HIDE DEF done
<1>7. Kept(b, sized)
  BY <1>2, <1>3, KeptMore
<1>8. Kept(b, origin)
  BY <1>4, <1>7, KeptMore
<1>9. Kept(b, written)
  BY <1>5, <1>8, KeptMore
<1>10. Kept(b, done)
  BY <1>6, <1>9, KeptMore
<1>11. Kept(b, r)
  BY <1>1, <1>10, KeptPatch
<1> QED
  BY <1>11 DEF r

\* A member of a mutable struct may also be None.
PassedOrNone(x, keys, v, kind, enabled) ==
  \/ x.optional /\ v[x.name] = None
  \/ AcceptedMember(x.machine, x.name, keys, v, kind, enabled)

LEMMA MutableMembersAccepted ==
  ASSUME NEW m, NEW members, Len(members) \in Nat, NEW v, NEW kind, NEW enabled,
         \A i \in 1 .. Len(members) : PassedOrNone(members[i], m.keys, v, kind, enabled), NEW b
  PROVE  Kept(b, MutableMembersFrom(m, b, members, v, kind, enabled))
<1> DEFINE N == Len(members)
<1>1. PICK after : MutableRuns(after, m, members, b, v, kind, enabled)
  BY MutableSteps
<1>2. ASSUME NEW i \in 1 .. N PROVE Kept(after[i - 1], after[i])
  <2> DEFINE x == members[i]
             e == KeyEnabled(m.keys, x.name, enabled)
             c == after[i - 1]
             out == \/ kind # "DataSample" /\ e = "Never"
                    \/ x.optional /\ v[x.name] = None
             w == v[x.name]
  <2>1. after[i] = MutableMemberOrNone(m, c, x, v, kind, enabled)
    BY <1>1 DEF MutableRuns
  <2>2. PassedOrNone(x, m.keys, v, kind, enabled)
    OBVIOUS
  <2>3. CASE out
    <3> HIDE DEF x, c
    <3>1. after[i] = c
      BY <2>1, <2>3 DEF MutableMemberOrNone
    <3> QED
      BY <3>1, KeptMoved DEF c
  <2>4. CASE ~out
    <3> HIDE DEF x, c
    <3>1. after[i] = SerializeMutableMember(m, c, x, w, kind, e)
      BY <2>1, <2>4 DEF MutableMemberOrNone
    <3>2. Accepts(x.machine, {w}, kind, e)
      BY <2>2, <2>4 DEF AcceptedMember, PassedOrNone
    <3> HIDE DEF e, w
    <3> QED
      BY <3>1, <3>2, MutableMemberAccepted DEF c
  <2> HIDE DEF out
  <2> QED
    BY <2>3, <2>4
<1>3. Kept(after[0], after[N])
  BY <1>2, KeptSteps
<1> QED
  BY <1>1, <1>3 DEF MutableRuns

LEMMA MutableAccepted ==
  ASSUME NEW m, NEW v, NEW kind, NEW enabled, Len(MemberOrder(m, kind)) \in Nat,
         \A i \in 1 .. Len(MemberOrder(m, kind)) :
           PassedOrNone(MemberOrder(m, kind)[i], m.keys, v, kind, enabled), NEW b
  PROVE  Kept(b, SerializeMutable(m, b, v, kind, enabled))
<1> DEFINE members == MemberOrder(m, kind)
           start == IF m.v2 THEN Write(Align(b, 4), 4, 0) ELSE b
           done == MutableMembersFrom(m, start, members, v, kind, enabled)
           q == start.pos - 4
           size == done.pos - start.pos
           z == 0
           end == Write(Align(done, 4), 2, ListEnd)
           last == Write(end, 2, z)
<1>1. SerializeMutable(m, b, v, kind, enabled) = IF m.v2 THEN Patch(done, q, size) ELSE last
  BY DEF SerializeMutable
<1>2. InRange(2, ListEnd) /\ InRange(2, z)
  BY DEF InRange, ListEnd
<1> HIDE DEF members, q, size, z
<1>3. Kept(b, start)
  BY KeptSize, KeptMoved
<1> HIDE DEF start
<1>4. Kept(start, done)
  BY MutableMembersAccepted DEF members
<1> HIDE DEF done
<1>5. Kept(b, done)
  BY <1>3, <1>4, KeptMore
<1>6. Kept(done, Align(done, 4))
  BY KeptMoved
<1>7. Kept(Align(done, 4), end)
  BY <1>2, KeptWrite
<1>8. Kept(done, end)
  BY <1>6, <1>7, KeptMore
<1> HIDE DEF end
<1>9. Kept(end, last)
  BY <1>2, KeptWrite
<1> HIDE DEF last
<1>10. Kept(b, end)
  BY <1>5, <1>8, KeptMore
<1>11. Kept(b, last)
  BY <1>9, <1>10, KeptMore
<1> QED
  BY <1>1, <1>5, <1>11, KeptPatch

(***************************************************************************)
(* The machines of types that can be encoded, by the depth of the types.   *)
(***************************************************************************)
KeyExtents == Extents \ {"Whole"}
AllKinds == KeyKinds \cup {"DataSample"}

Accepted(t, kind, e, v2) ==
  \A id, header : /\ Accepts(MachineFor(t, id, header, v2), ValuesOf[t], kind, e)
                  /\ Accepts(StripHeaders(MachineFor(t, id, header, v2)), ValuesOf[t], kind, e)

\* All that can be encoded of t raises no error.
Passes(t, version) ==
  \A kind \in AllKinds, e \in KeyExtents :
    <<t, Extent(kind, e)>> \in Encodable[version] => Accepted(t, kind, e, version = 2)

LEMMA AcceptedBy ==
  ASSUME Recursion, NEW t, NEW v2, NEW kind, NEW e,
         \A id, header :
           /\ BuiltMachine(t, id, header, v2).m # "Array"
           /\ \A b : \A v \in ValuesOf[t] : Kept(b, Serialized(BuiltMachine(t, id, header, v2), b, v, kind, e))
  PROVE  Accepted(t, kind, e, v2)
<1> SUFFICES ASSUME NEW id, NEW header
             PROVE  /\ Accepts(MachineFor(t, id, header, v2), ValuesOf[t], kind, e)
                    /\ Accepts(StripHeaders(MachineFor(t, id, header, v2)), ValuesOf[t], kind, e)
  BY DEF Accepted
<1> DEFINE m == MachineFor(t, id, header, v2)
<1>1. m = BuiltMachine(t, id, header, v2)
  BY DEF Recursion
<1> HIDE DEF m
<1>2. StripHeaders(m) = m
  BY <1>1 DEF StripHeaders
<1>3. ASSUME NEW b, NEW v \in ValuesOf[t] PROVE Kept(b, Serialize(m, b, v, kind, e))
  <2>1. Serialize(m, b, v, kind, e) = Serialized(m, b, v, kind, e)
    BY DEF Recursion
  <2> QED
    BY <1>1, <2>1
<1>4. Accepts(m, ValuesOf[t], kind, e)
  BY <1>3 DEF Accepts
<1> QED
  BY <1>2, <1>4 DEF m

\* What Encodable says of what it holds.
LEMMA EncodableParts ==
  ASSUME NEW version \in Versions, NEW t, NEW x, <<t, x>> \in Encodable[version]
  PROVE  /\ t \in Descs /\ x \in Extents /\ Writable(t, x, version = 2)
         /\ PartsWritten(t, x, version = 2) \subseteq Encodable[version]
BY EncodableAssumption

LEMMA PartsOfExtent ==
  ASSUME NEW t, NEW kind \in AllKinds, NEW e \in KeyExtents, NEW v2
  PROVE  /\ kind = "DataSample" => /\ Extent(kind, e) = "Whole"
                                   /\ PartsWritten(t, Extent(kind, e), v2) = {<<x, "Whole">> : x \in Parts(t)}
         /\ kind # "DataSample" => /\ Extent(kind, e) = e
                                   /\ PartsWritten(t, Extent(kind, e), v2) = PartsOfKey(t, e, v2)
BY DEF Extent, PartsWritten, KeyExtents

LEMMA SimpleAccepted ==
  ASSUME Recursion, NEW t \in Descs, t.k \in {"prim", "char", "string", "bytes", "enum", "bitmask"},
         NEW v2 \in BOOLEAN, FitsHolder(t, v2), NEW kind, NEW e
  PROVE  Accepted(t, kind, e, v2)
<1>1. IsDescription(t) /\ \A v \in ValuesOf[t] : IsValue(t, v)
  BY TypesAssumption, ValuesAssumption
<1> SUFFICES ASSUME NEW id, NEW header
             PROVE  /\ BuiltMachine(t, id, header, v2).m # "Array"
                    /\ \A b : \A v \in ValuesOf[t] :
                         Kept(b, Serialized(BuiltMachine(t, id, header, v2), b, v, kind, e))
  BY AcceptedBy
<1> DEFINE m == BuiltMachine(t, id, header, v2)
<1> SUFFICES m.m # "Array" /\ \A b : \A v \in ValuesOf[t] : Kept(b, Serialized(m, b, v, kind, e))
  OBVIOUS
<1>2. CASE t.k = "prim"
  <2>1. m = [m |-> "Primitive", size |-> t.size]
    BY <1>2 DEF BuiltMachine
  <2> HIDE DEF m
  <2>2. ASSUME NEW b, NEW v \in ValuesOf[t] PROVE Kept(b, Serialized(m, b, v, kind, e))
    <3>1. Serialized(m, b, v, kind, e) = Write(Align(b, t.size), t.size, v)
      BY <2>1 DEF Serialized, SerializePrimitive
    <3>2. InRange(t.size, v)
      BY <1>1, <1>2 DEF IsValue
    <3> QED
      BY <3>1, <3>2, KeptNumber
  <2> QED
    BY <2>1, <2>2
<1>3. CASE t.k = "char"
  <2>1. m = [m |-> "Char"]
    BY <1>3 DEF BuiltMachine
  <2> HIDE DEF m
  <2>2. ASSUME NEW b, NEW v \in ValuesOf[t] PROVE Kept(b, Serialized(m, b, v, kind, e))
    <3>1. Serialized(m, b, v, kind, e) = Write(b, 1, v)
      BY <2>1 DEF Serialized, SerializeChar
    <3>2. InRange(1, v)
      BY <1>1, <1>3 DEF IsValue
    <3> QED
      BY <3>1, <3>2, KeptWrite
  <2> QED
    BY <2>1, <2>2
<1>4. CASE t.k = "string"
  <2>1. m = [m |-> "String", bound |-> t.bound]
    BY <1>4 DEF BuiltMachine
  <2> HIDE DEF m
  <2>2. ASSUME NEW b, NEW v \in ValuesOf[t] PROVE Kept(b, Serialized(m, b, v, kind, e))
    <3>1. Serialized(m, b, v, kind, e) = SerializeString(m, b, v)
      BY <2>1 DEF Serialized
    <3>2. Bounded(v, m.bound)
      BY <1>1, <1>4, <2>1 DEF IsValue
    <3> QED
      BY <3>1, <3>2, StringAccepted
  <2> QED
    BY <2>1, <2>2
<1>5. CASE t.k = "bytes"
  <2>1. m = [m |-> "Bytes"]
    BY <1>5 DEF BuiltMachine
  <2> HIDE DEF m
  <2>2. ASSUME NEW b, NEW v \in ValuesOf[t] PROVE Kept(b, Serialized(m, b, v, kind, e))
    <3>1. Serialized(m, b, v, kind, e) = SerializeBytes(b, v)
      BY <2>1 DEF Serialized
    <3> QED
      BY <3>1, BytesAccepted
  <2> QED
    BY <2>1, <2>2
<1>6. CASE t.k = "enum"
  <2>1. \/ m = [m |-> "Enum", default |-> t.default]
        \/ t.bits # None /\ v2 /\ m = [m |-> "BitBoundEnum", size |-> EnumHolder(t.bits), default |-> t.default]
    BY <1>6 DEF BuiltMachine
  <2> DEFINE n == EnumHolder(t.bits)
  <2> HIDE DEF m
  <2>2. ASSUME NEW b, NEW v \in ValuesOf[t] PROVE Kept(b, Serialized(m, b, v, kind, e))
    <3>1. \/ Serialized(m, b, v, kind, e) = Write(Align(b, 4), 4, v)
          \/ t.bits # None /\ v2 /\ Serialized(m, b, v, kind, e) = Write(Align(b, n), n, v)
      BY <2>1 DEF Serialized, SerializeEnum, SerializeBitBoundEnum
    <3>2. t.bits # None /\ v2 => InRange(n, v)
      BY <1>6 DEF FitsHolder
    <3> HIDE DEF n
    <3> QED
      BY <3>1, <3>2, KeptNumber, KeptSize
  <2> QED
    BY <2>1, <2>2
<1>7. CASE t.k = "bitmask"
  <2> DEFINE n == MaskHolder(t.bits)
  <2>1. m = [m |-> "BitMask", size |-> n]
    BY <1>7 DEF BuiltMachine
  <2> HIDE DEF m
  <2>2. ASSUME NEW b, NEW v \in ValuesOf[t] PROVE Kept(b, Serialized(m, b, v, kind, e))
    <3>1. v \in Seq(Int) /\ Len(v) = 1 /\ InRange(n, v[1])
      BY <1>1, <1>7 DEF IsValue
    <3> HIDE DEF n
    <3>2. v # <<>>
      <4> SUFFICES ASSUME v = <<>> PROVE FALSE
        OBVIOUS
      <4>1. Len(v) = 0
        OBVIOUS
      <4> QED
        BY <3>1, <4>1
    <3> DEFINE x == v[1]
    <3>3. Serialized(m, b, v, kind, e) = Write(Align(b, n), n, x)
      BY <2>1, <3>2 DEF Serialized, SerializeBitMask
    <3>4. InRange(n, x)
      BY <3>1
    <3> HIDE DEF x
    <3> QED
      BY <3>3, <3>4, KeptNumber
  <2> QED
    BY <2>1, <2>2
<1> QED
  BY <1>2, <1>3, <1>4, <1>5, <1>6, <1>7

LEMMA OptionalPasses ==
  ASSUME Recursion, NEW t \in Descs, t.k = "opt", NEW version \in Versions, Passes(t.of, version)
  PROVE  Passes(t, version)
<1> SUFFICES ASSUME NEW kind \in AllKinds, NEW e \in KeyExtents, <<t, Extent(kind, e)>> \in Encodable[version]
             PROVE  Accepted(t, kind, e, version = 2)
  BY DEF Passes
<1> DEFINE v2 == version = 2
           sample == "DataSample"
           never == "Never"
<1>1. Writable(t, Extent(kind, e), v2) /\ PartsWritten(t, Extent(kind, e), v2) \subseteq Encodable[version]
  BY EncodableParts
<1>2. kind = sample
  BY <1>1 DEF Writable, Extent, KeyExtents
<1>3. <<t.of, "Whole">> \in Encodable[version]
  <2>1. Parts(t) = {t.of}
    BY DEF Parts
  <2>2. PartsWritten(t, Extent(kind, e), v2) = {<<x, "Whole">> : x \in Parts(t)}
    BY <1>2, PartsOfExtent
  <2> HIDE DEF v2
  <2> QED
    BY <1>1, <2>1, <2>2
<1>4. never \in KeyExtents /\ sample \in AllKinds /\ Extent(sample, never) = "Whole"
  BY DEF KeyExtents, Extents, AllKinds, Extent
<1>5. Accepted(t.of, sample, never, v2)
  BY <1>3, <1>4 DEF Passes
<1>6. \A v \in ValuesOf[t] : v \in {None} \cup ValuesOf[t.of]
  BY ValuesAssumption DEF IsValue
<1> SUFFICES ASSUME NEW id, NEW header
             PROVE  /\ BuiltMachine(t, id, header, v2).m # "Array"
                    /\ \A b : \A v \in ValuesOf[t] :
                         Kept(b, Serialized(BuiltMachine(t, id, header, v2), b, v, kind, e))
  BY AcceptedBy
<1> DEFINE m == BuiltMachine(t, id, header, v2)
<1>7. m = [m |-> "Optional", of |-> MachineFor(t.of, None, header, v2), id |-> id, v2 |-> v2]
  BY DEF BuiltMachine
<1>8. Accepts(MachineFor(t.of, None, header, v2), ValuesOf[t.of], sample, never)
  BY <1>5 DEF Accepted
<1> HIDE DEF m, v2
<1>9. m.m = "Optional" /\ Accepts(m.of, ValuesOf[t.of], sample, never)
  BY <1>7, <1>8
<1>10. ASSUME NEW b, NEW v \in ValuesOf[t] PROVE Kept(b, Serialized(m, b, v, kind, e))
  <2>1. Serialized(m, b, v, kind, e) = SerializeOptional(m, b, v, sample)
    BY <1>2, <1>9 DEF Serialized
  <2>2. v \in {None} \cup ValuesOf[t.of]
    BY <1>6
  <2> QED
    BY <1>9, <2>1, <2>2, OptionalAccepted
<1> QED
  BY <1>9, <1>10 DEF m

\* The parts of a list, a sequence, an array or a map are met as it is.
LEMMA SamePartsPass ==
  ASSUME NEW t, t.k \in {"list", "seq", "array", "map"}, NEW version \in Versions,
         NEW kind \in AllKinds, NEW e \in KeyExtents, <<t, Extent(kind, e)>> \in Encodable[version],
         NEW x \in Parts(t), Passes(x, version)
  PROVE  Accepted(x, kind, e, version = 2)
<1>1. PartsWritten(t, Extent(kind, e), version = 2) \subseteq Encodable[version]
  BY EncodableParts
<1>2. PartsOfKey(t, e, version = 2) = {<<y, e>> : y \in Parts(t)}
  BY DEF PartsOfKey
<1>3. <<x, Extent(kind, e)>> \in Encodable[version]
  BY <1>1, <1>2, PartsOfExtent
<1> QED
  BY <1>3 DEF Passes

LEMMA ListPasses ==
  ASSUME Recursion, NEW t \in Descs, t.k = "list", NEW version \in Versions, Passes(t.of, version)
  PROVE  Passes(t, version)
<1> SUFFICES ASSUME NEW kind \in AllKinds, NEW e \in KeyExtents, <<t, Extent(kind, e)>> \in Encodable[version]
             PROVE  Accepted(t, kind, e, version = 2)
  BY DEF Passes
<1> DEFINE v2 == version = 2
<1>1. Accepted(t.of, kind, e, v2)
  BY SamePartsPass DEF Parts
<1>2. \A v \in ValuesOf[t] : v \in Seq(ValuesOf[t.of])
  BY ValuesAssumption DEF IsValue
<1> HIDE DEF v2
<1> SUFFICES ASSUME NEW id, NEW header
             PROVE  /\ BuiltMachine(t, id, header, v2).m # "Array"
                    /\ \A b : \A v \in ValuesOf[t] :
                         Kept(b, Serialized(BuiltMachine(t, id, header, v2), b, v, kind, e))
  BY AcceptedBy DEF v2
<1> DEFINE m == BuiltMachine(t, id, header, v2)
<1>3. m = [m |-> "Sequence", of |-> MachineFor(t.of, None, header, v2), max |-> None, header |-> header]
  BY DEF BuiltMachine
<1>4. Accepts(MachineFor(t.of, None, header, v2), ValuesOf[t.of], kind, e)
  BY <1>1 DEF Accepted
<1> HIDE DEF m
<1>5. m.m = "Sequence" /\ m.max = None /\ Accepts(m.of, ValuesOf[t.of], kind, e)
  BY <1>3, <1>4
<1>6. ASSUME NEW b, NEW v \in ValuesOf[t] PROVE Kept(b, Serialized(m, b, v, kind, e))
  <2>1. Serialized(m, b, v, kind, e) = SerializeSequence(m, b, v, kind, e)
    BY <1>5 DEF Serialized
  <2>2. v \in Seq(ValuesOf[t.of]) /\ Bounded(v, m.max)
    BY <1>2, <1>5 DEF Bounded
  <2> QED
    BY <1>5, <2>1, <2>2, SequenceAccepted
<1> QED
  BY <1>5, <1>6 DEF m

\* A machine of primitives is one for a number of the width of its type.
LEMMA PrimitiveOf ==
  ASSUME Recursion, NEW t \in Descs, NEW id, NEW header, NEW v2 \in BOOLEAN,
         MachineFor(t, id, header, v2).m = "Primitive"
  PROVE  \A v \in ValuesOf[t] : InRange(MachineFor(t, id, header, v2).size, v)
<1>1. IsDescription(t) /\ \A v \in ValuesOf[t] : IsValue(t, v)
  BY TypesAssumption, ValuesAssumption
<1> DEFINE m == BuiltMachine(t, id, header, v2)
<1>2. MachineFor(t, id, header, v2) = m
  BY DEF Recursion
<1>3. t.k \in {"prim", "char", "string", "bytes", "enum", "bitmask", "opt", "list", "seq", "array",
               "map", "struct", "union"}
  BY <1>1 DEF IsDescription
<1>4. t.k = "prim"
  <2> SUFFICES ASSUME t.k # "prim" PROVE m.m # "Primitive"
    BY <1>2
  <2> QED
    BY <1>3 DEF BuiltMachine, SequenceMachineFor, ArrayMachineFor, StructMachineFor, UnionMachineFor
<1>5. m = [m |-> "Primitive", size |-> t.size]
  BY <1>4 DEF BuiltMachine
<1> QED
  BY <1>1, <1>2, <1>4, <1>5 DEF IsValue

LEMMA SeqPasses ==
  ASSUME Recursion, NEW t \in Descs, t.k = "seq", NEW version \in Versions, t.of \in Descs, Passes(t.of, version)
  PROVE  Passes(t, version)
<1> SUFFICES ASSUME NEW kind \in AllKinds, NEW e \in KeyExtents, <<t, Extent(kind, e)>> \in Encodable[version]
             PROVE  Accepted(t, kind, e, version = 2)
  BY DEF Passes
<1> DEFINE v2 == version = 2
           V == ValuesOf[t.of]
<1>1. Accepted(t.of, kind, e, v2)
  BY SamePartsPass DEF Parts
<1>2. \A v \in ValuesOf[t] : v \in Seq(V) /\ Bounded(v, t.max)
  BY ValuesAssumption DEF IsValue
<1>0. v2 \in BOOLEAN
  OBVIOUS
<1> HIDE DEF v2
<1> SUFFICES ASSUME NEW id, NEW header
             PROVE  /\ BuiltMachine(t, id, header, v2).m # "Array"
                    /\ \A b : \A v \in ValuesOf[t] :
                         Kept(b, Serialized(BuiltMachine(t, id, header, v2), b, v, kind, e))
  BY AcceptedBy DEF v2
<1> DEFINE m == BuiltMachine(t, id, header, v2)
           sub == MachineFor(t.of, None, header, v2)
<1>3. m = IF sub.m = "Primitive"
          THEN [m |-> "PlainSequence", size |-> sub.size, max |-> t.max]
          ELSE [m |-> "Sequence", of |-> sub, max |-> t.max, header |-> header /\ sub.m # "Char"]
  BY DEF BuiltMachine, SequenceMachineFor
<1>4. Accepts(sub, V, kind, e)
  BY <1>1 DEF Accepted
<1>5. sub.m = "Primitive" => \A x \in V : InRange(sub.size, x)
  BY <1>0, PrimitiveOf
<1> HIDE DEF m, sub
<1>6. \/ m.m = "PlainSequence" /\ \A x \in V : InRange(m.size, x)
      \/ m.m = "Sequence" /\ Accepts(m.of, V, kind, e)
  BY <1>3, <1>4, <1>5
<1>7. m.max = t.max
  BY <1>3
<1>8. ASSUME NEW b, NEW v \in ValuesOf[t] PROVE Kept(b, Serialized(m, b, v, kind, e))
  <2>1. v \in Seq(V) /\ Bounded(v, m.max)
    BY <1>2, <1>7
  <2> HIDE DEF V
  <2>2. CASE m.m = "PlainSequence" /\ \A x \in V : InRange(m.size, x)
    <3>1. Serialized(m, b, v, kind, e) = SerializePlainSequence(m, b, v)
      BY <2>2 DEF Serialized
    <3>2. \A i \in DOMAIN v : InRange(m.size, v[i])
      BY <2>1, <2>2
    <3> QED
      BY <2>1, <3>1, <3>2, PlainSequenceAccepted
  <2>3. CASE m.m = "Sequence" /\ Accepts(m.of, V, kind, e)
    <3>1. Serialized(m, b, v, kind, e) = SerializeSequence(m, b, v, kind, e)
      BY <2>3 DEF Serialized
    <3> QED
      BY <2>1, <2>3, <3>1, SequenceAccepted
  <2> QED
    BY <1>6, <2>2, <2>3
<1> QED
  BY <1>6, <1>8 DEF m

LEMMA ArrayPasses ==
  ASSUME Recursion, NEW t \in Descs, t.k = "array", NEW version \in Versions, t.of \in Descs, Passes(t.of, version)
  PROVE  Passes(t, version)
<1> SUFFICES ASSUME NEW kind \in AllKinds, NEW e \in KeyExtents, <<t, Extent(kind, e)>> \in Encodable[version]
             PROVE  Accepted(t, kind, e, version = 2)
  BY DEF Passes
<1> DEFINE v2 == version = 2
           V == ValuesOf[t.of]
<1>1. Accepted(t.of, kind, e, v2)
  BY SamePartsPass DEF Parts
<1>2. \A v \in ValuesOf[t] : v \in Seq(V) /\ Len(v) = t.len
  BY ValuesAssumption DEF IsValue
<1>0. v2 \in BOOLEAN
  OBVIOUS
<1> HIDE DEF v2
<1> SUFFICES ASSUME NEW id, NEW header
             PROVE  /\ Accepts(MachineFor(t, id, header, v2), ValuesOf[t], kind, e)
                    /\ Accepts(StripHeaders(MachineFor(t, id, header, v2)), ValuesOf[t], kind, e)
  BY DEF Accepted, v2
<1> DEFINE m == MachineFor(t, id, header, v2)
           sub == MachineFor(t.of, None, header, v2)
           plain == Innermost(sub) \in {"PlainArray", "Char"}
           Fine(x) == \/ x.m = "PlainArray" /\ (\A y \in V : InRange(x.size, y)) /\ x.len = t.len
                      \/ x.m = "Array" /\ Accepts(x.of, V, kind, e) /\ x.len = t.len
<1>3. m = IF sub.m = "Primitive"
          THEN [m |-> "PlainArray", size |-> sub.size, len |-> t.len]
          ELSE [m |-> "Array", of |-> StripHeaders(sub), inner |-> Innermost(sub), len |-> t.len,
                header |-> header /\ ~plain]
  BY DEF BuiltMachine, ArrayMachineFor, Recursion
<1>4. Accepts(StripHeaders(sub), V, kind, e)
  BY <1>1 DEF Accepted
<1>5. sub.m = "Primitive" => \A y \in V : InRange(sub.size, y)
  BY <1>0, PrimitiveOf
<1> HIDE DEF m, sub, plain
<1>6. Fine(m)
  BY <1>3, <1>4, <1>5
<1>7. Fine(StripHeaders(m))
  <2>1. CASE m.m = "Array"
    <3>1. StripHeaders(m) = [m |-> "Array", of |-> StripHeaders(sub), inner |-> Innermost(sub),
                             len |-> t.len, header |-> FALSE]
      BY <1>3, <2>1 DEF StripHeaders
    <3> QED
      BY <1>4, <3>1
  <2>2. CASE m.m # "Array"
    BY <1>6, <2>2 DEF StripHeaders
  <2> QED
    BY <2>1, <2>2
<1>8. ASSUME NEW x, Fine(x) PROVE Accepts(x, ValuesOf[t], kind, e)
  <2> SUFFICES ASSUME NEW b, NEW v \in ValuesOf[t] PROVE Kept(b, Serialize(x, b, v, kind, e))
    BY DEF Accepts
  <2>1. Serialize(x, b, v, kind, e) = Serialized(x, b, v, kind, e)
    BY DEF Recursion
  <2>2. v \in Seq(V) /\ Len(v) = x.len
    BY <1>2, <1>8
  <2> HIDE DEF V
  <2>3. CASE x.m = "PlainArray" /\ \A y \in V : InRange(x.size, y)
    <3>1. Serialized(x, b, v, kind, e) = SerializePlainArray(x, b, v)
      BY <2>3 DEF Serialized
    <3>2. \A i \in DOMAIN v : InRange(x.size, v[i])
      BY <2>2, <2>3
    <3> QED
      BY <2>1, <2>2, <3>1, <3>2, PlainArrayAccepted
  <2>4. CASE x.m = "Array" /\ Accepts(x.of, V, kind, e)
    <3>1. Serialized(x, b, v, kind, e) = SerializeArray(x, b, v, kind, e)
      BY <2>4 DEF Serialized
    <3> QED
      BY <2>1, <2>2, <2>4, <3>1, ArrayAccepted
  <2> QED
    BY <1>8, <2>3, <2>4
<1> HIDE DEF Fine
<1> QED
  BY <1>6, <1>7, <1>8 DEF m

LEMMA MapPasses ==
  ASSUME Recursion, NEW t \in Descs, t.k = "map", NEW version \in Versions, Passes(t.key, version),
         Passes(t.val, version)
  PROVE  Passes(t, version)
<1> SUFFICES ASSUME NEW kind \in AllKinds, NEW e \in KeyExtents, <<t, Extent(kind, e)>> \in Encodable[version]
             PROVE  Accepted(t, kind, e, version = 2)
  BY DEF Passes
<1> DEFINE v2 == version = 2
           K == ValuesOf[t.key]
           V == ValuesOf[t.val]
<1>1. Accepted(t.key, kind, e, v2) /\ Accepted(t.val, kind, e, v2)
  BY SamePartsPass DEF Parts
<1>2. \A v \in ValuesOf[t] : v \in Seq(K \X V)
  BY ValuesAssumption DEF IsValue
<1> HIDE DEF v2
<1> SUFFICES ASSUME NEW id, NEW header
             PROVE  /\ BuiltMachine(t, id, header, v2).m # "Array"
                    /\ \A b : \A v \in ValuesOf[t] :
                         Kept(b, Serialized(BuiltMachine(t, id, header, v2), b, v, kind, e))
  BY AcceptedBy DEF v2
<1> DEFINE m == BuiltMachine(t, id, header, v2)
<1>3. m = [m |-> "Mapping", key |-> MachineFor(t.key, None, header, v2),
           val |-> MachineFor(t.val, None, header, v2)]
  BY DEF BuiltMachine
<1>4. Accepts(MachineFor(t.key, None, header, v2), K, kind, e) /\ Accepts(MachineFor(t.val, None, header, v2), V, kind, e)
  BY <1>1 DEF Accepted
<1> HIDE DEF m
<1>5. m.m = "Mapping" /\ Accepts(m.key, K, kind, e) /\ Accepts(m.val, V, kind, e)
  BY <1>3, <1>4
<1>6. ASSUME NEW b, NEW v \in ValuesOf[t] PROVE Kept(b, Serialized(m, b, v, kind, e))
  <2>1. Serialized(m, b, v, kind, e) = SerializeMapping(m, b, v, kind, e)
    BY <1>5 DEF Serialized
  <2>2. v \in Seq(K \X V)
    BY <1>2
  <2> HIDE DEF K, V
  <2>3. Kept(b, SerializeMapping(m, b, v, kind, e))
    BY <1>5, <2>2, MappingAccepted
  <2> QED
    BY <2>1, <2>3
<1> QED
  BY <1>5, <1>6 DEF m

LEMMA UnionPasses ==
  ASSUME Recursion, NEW t \in Descs, t.k = "union", NEW version \in Versions,
         \A x \in Parts(t) : Passes(x, version)
  PROVE  Passes(t, version)
<1> SUFFICES ASSUME NEW kind \in AllKinds, NEW e \in KeyExtents, <<t, Extent(kind, e)>> \in Encodable[version]
             PROVE  Accepted(t, kind, e, version = 2)
  BY DEF Passes
<1> DEFINE v2 == version = 2
           D == ValuesOf[t.disc]
           framed == t.ext = "appendable" /\ v2
           first == IF framed THEN "InKeylist" ELSE e
           inside == IF framed THEN "InKeylist" ELSE "Never"
<1>1. Parts(t) = {t.disc} \cup {t.cases[label] : label \in DOMAIN t.cases} \cup ({t.default} \ {None})
  BY DEF Parts
<1>2. first \in KeyExtents /\ inside \in KeyExtents
  BY DEF KeyExtents, Extents
<1>3. PartsWritten(t, Extent(kind, e), v2) \subseteq Encodable[version]
  BY EncodableParts
<1>4. kind # "DataSample" => /\ <<t.disc, first>> \in Encodable[version]
                             /\ \A x \in Parts(t) : <<x, inside>> \in Encodable[version]
  <2>1. CASE framed
    <3>1. PartsOfKey(t, e, v2) = {<<x, "InKeylist">> : x \in Parts(t)}
      BY <2>1 DEF PartsOfKey
    <3> QED
      BY <1>1, <1>3, <2>1, <3>1, PartsOfExtent
  <2>2. CASE ~framed
    <3>1. PartsOfKey(t, e, v2) = {<<t.disc, e>>} \cup {<<x, "Never">> : x \in Parts(t)}
      BY <2>2 DEF PartsOfKey
    <3> QED
      BY <1>3, <2>2, <3>1, PartsOfExtent
  <2> QED
    BY <2>1, <2>2
<1>5. kind = "DataSample" => \A x \in Parts(t) : <<x, "Whole">> \in Encodable[version]
  BY <1>3, PartsOfExtent
<1>6. /\ <<t.disc, Extent(kind, first)>> \in Encodable[version]
      /\ \A x \in Parts(t) : <<x, Extent(kind, inside)>> \in Encodable[version]
  BY <1>1, <1>4, <1>5 DEF Extent
<1> HIDE DEF inside, first
<1>7. Accepted(t.disc, kind, first, v2) /\ \A x \in Parts(t) : Accepted(x, kind, inside, v2)
  <2>1. t.disc \in Parts(t)
    BY <1>1
  <2> QED
    BY <1>2, <1>6, <2>1 DEF Passes
<1>8. \A u \in ValuesOf[t] :
         /\ LabelOf(t, u) \in ValuesOf[t.disc]
         /\ u.d \in DOMAIN t.cases => u.v \in ValuesOf[t.cases[u.d]]
         /\ u.d \notin DOMAIN t.cases /\ t.default # None => u.v \in ValuesOf[t.default]
  BY ValuesAssumption DEF IsValue
<1> HIDE DEF v2
<1> SUFFICES ASSUME NEW id, NEW header
             PROVE  /\ BuiltMachine(t, id, header, v2).m # "Array"
                    /\ \A b : \A v \in ValuesOf[t] :
                         Kept(b, Serialized(BuiltMachine(t, id, header, v2), b, v, kind, e))
  BY AcceptedBy DEF v2
<1> DEFINE m == BuiltMachine(t, id, header, v2)
<1>9. m = [m |-> IF framed THEN "DelimitedUnion" ELSE "Union",
           disc |-> MachineFor(t.disc, None, v2, v2),
           cases |-> [label \in DOMAIN t.cases |-> MachineFor(t.cases[label], None, v2, v2)],
           default |-> IF t.default = None THEN None ELSE MachineFor(t.default, None, v2, v2),
           defaultDisc |-> t.defaultDisc]
  BY DEF BuiltMachine, UnionMachineFor
<1> HIDE DEF m, framed
<1>10. m.m = (IF framed THEN "DelimitedUnion" ELSE "Union") /\ m.defaultDisc = t.defaultDisc
  BY <1>9
<1>11. Accepts(m.disc, D, kind, first)
  BY <1>7, <1>9 DEF Accepted
<1>12. DOMAIN m.cases = DOMAIN t.cases
       /\ \A label \in DOMAIN t.cases : Accepts(m.cases[label], ValuesOf[t.cases[label]], kind, inside)
  BY <1>1, <1>7, <1>9 DEF Accepted
<1>13. m.default # None => t.default # None /\ Accepts(m.default, ValuesOf[t.default], kind, inside)
  BY <1>1, <1>7, <1>9 DEF Accepted
<1>14. ASSUME NEW b, NEW u \in ValuesOf[t] PROVE Kept(b, Serialized(m, b, u, kind, e))
  <2> DEFINE w == u.v
             V == {w}
             never == "Never"
  <2>1. Label(m, u) \in D
    BY <1>8, <1>10 DEF Label, LabelOf
  <2>2. u.d \in DOMAIN m.cases => Accepts(m.cases[u.d], V, kind, inside)
    <3>1. u.d \in DOMAIN m.cases => w \in ValuesOf[t.cases[u.d]]
      BY <1>8, <1>12
    <3> QED
      BY <1>12, <3>1, AcceptsOne
  <2>3. u.d \notin DOMAIN m.cases /\ m.default # None => Accepts(m.default, V, kind, inside)
    <3>1. u.d \notin DOMAIN m.cases /\ m.default # None => w \in ValuesOf[t.default]
      BY <1>8, <1>12, <1>13
    <3> QED
      BY <1>13, <3>1, AcceptsOne
  <2>4. u.v \in V
    OBVIOUS
  <2> HIDE DEF V, D, never
  <2>5. Kept(b, SerializeUnion(m, b, u, kind, first, inside))
    BY <1>11, <2>1, <2>2, <2>3, <2>4, UnionAccepted
  <2>6. CASE framed
    <3>1. Serialized(m, b, u, kind, e) = SerializeDelimitedUnion(m, b, u, kind)
      BY <1>10, <2>6 DEF Serialized
    <3>2. first = "InKeylist" /\ inside = "InKeylist"
      BY <2>6 DEF first, inside
    <3> QED
      BY <1>11, <2>1, <2>2, <2>3, <2>4, <3>1, <3>2, DelimitedUnionAccepted
  <2>7. CASE ~framed
    <3>1. Serialized(m, b, u, kind, e) = SerializeUnion(m, b, u, kind, e, never)
      BY <1>10, <2>7 DEF Serialized, never
    <3>2. first = e /\ inside = never
      BY <2>7 DEF first, inside, never
    <3> QED
      BY <2>5, <3>1, <3>2
  <2> QED
    BY <2>6, <2>7
<1> QED
  BY <1>10, <1>14 DEF m

\* A member that is written can be encoded with the KeyEnabled it is written with.
LEMMA MemberEncodable ==
  ASSUME NEW t, t.k = "struct", NEW version \in Versions, NEW kind \in AllKinds, NEW e \in KeyExtents,
         <<t, Extent(kind, e)>> \in Encodable[version], NEW x \in ToSet(t.members),
         ~(kind # "DataSample" /\ KeyEnabled(t.keys, x.name, e) = "Never")
  PROVE  LET inner == KeyEnabled(t.keys, x.name, e)
         IN  /\ inner \in KeyExtents
             /\ <<InMember(t, x), Extent(kind, inner)>> \in Encodable[version]
<1> DEFINE inner == KeyEnabled(t.keys, x.name, e)
           v2 == version = 2
<1>1. inner \in {"InKeylistOrKeyless", "Never"}
  BY DEF KeyEnabled
<1>2. inner \in KeyExtents
  BY <1>1 DEF KeyExtents, Extents
<1>3. PartsWritten(t, Extent(kind, e), v2) \subseteq Encodable[version]
  BY EncodableParts
<1> HIDE DEF inner, v2
<1>4. CASE kind = "DataSample"
  <2>1. x.type \in Parts(t)
    BY DEF Parts
  <2>2. <<x.type, "Whole">> \in Encodable[version]
    BY <1>3, <1>4, <2>1, PartsOfExtent
  <2>3. x.type.k = "opt" => <<x.type.of, "Whole">> \in Encodable[version]
    <3> SUFFICES ASSUME x.type.k = "opt" PROVE <<x.type.of, "Whole">> \in Encodable[version]
      OBVIOUS
    <3>1. x.type.of \in Parts(x.type)
      BY DEF Parts
    <3>2. PartsWritten(x.type, "Whole", v2) \subseteq Encodable[version]
      BY <2>2, EncodableParts DEF v2
    <3> QED
      BY <3>1, <3>2 DEF PartsWritten
  <2>4. <<InMember(t, x), "Whole">> \in Encodable[version]
    BY <2>2, <2>3 DEF InMember
  <2> QED
    BY <1>2, <1>4, <2>4 DEF Extent, inner
<1>5. CASE kind # "DataSample"
  <2>1. inner = "InKeylistOrKeyless" /\ x \in KeyMembers(t, e)
    BY <1>1, <1>5 DEF KeyMembers, inner
  <2>2. PartsOfKey(t, e, v2) = {<<InMember(t, y), "InKeylistOrKeyless">> : y \in KeyMembers(t, e)}
    BY DEF PartsOfKey
  <2>3. <<InMember(t, x), inner>> \in Encodable[version]
    BY <1>3, <1>5, <2>1, <2>2, PartsOfExtent
  <2> QED
    BY <1>2, <1>5, <2>3 DEF Extent, inner
<1> QED
  BY <1>4, <1>5

LEMMA StructPasses ==
  ASSUME Recursion, NEW t \in Descs, t.k = "struct", t.ext # "mutable", NEW version \in Versions,
         \A x \in Parts(t) : Passes(x, version)
  PROVE  Passes(t, version)
<1> SUFFICES ASSUME NEW kind \in AllKinds, NEW e \in KeyExtents, <<t, Extent(kind, e)>> \in Encodable[version]
             PROVE  Accepted(t, kind, e, version = 2)
  BY DEF Passes
<1> DEFINE v2 == version = 2
           N == Len(t.members)
<1>1. N \in Nat /\ DOMAIN t.members = 1 .. N
  BY TypesAssumption DEF IsDescription
<1>2. \A i \in 1 .. N : t.members[i] \in ToSet(t.members) /\ t.members[i].type \in Parts(t)
  BY <1>1 DEF ToSet, Parts
<1> HIDE DEF N
<1>3. \A v \in ValuesOf[t] : \A i \in 1 .. N : v[t.members[i].name] \in ValuesOf[t.members[i].type]
  BY <1>2, ValuesAssumption DEF IsValue
<1>4. ASSUME NEW i \in 1 .. N, ~(kind # "DataSample" /\ KeyEnabled(t.keys, t.members[i].name, e) = "Never")
      PROVE  Accepted(t.members[i].type, kind, KeyEnabled(t.keys, t.members[i].name, e), v2)
  <2> DEFINE x == t.members[i]
             inner == KeyEnabled(t.keys, x.name, e)
  <2>1. x \in ToSet(t.members) /\ Passes(x.type, version)
    BY <1>2
  <2>2. InMember(t, x) = x.type
    BY DEF InMember
  <2>3. inner \in KeyExtents /\ <<InMember(t, x), Extent(kind, inner)>> \in Encodable[version]
    BY <1>4, <2>1, MemberEncodable
  <2> HIDE DEF x, inner
  <2>4. Accepted(x.type, kind, inner, v2)
    BY <2>1, <2>2, <2>3 DEF Passes
  <2> QED
    BY <2>4 DEF x, inner
<1> HIDE DEF v2
<1> SUFFICES ASSUME NEW id, NEW header
             PROVE  /\ BuiltMachine(t, id, header, v2).m # "Array"
                    /\ \A b : \A v \in ValuesOf[t] :
                         Kept(b, Serialized(BuiltMachine(t, id, header, v2), b, v, kind, e))
  BY AcceptedBy DEF v2
<1> DEFINE m == BuiltMachine(t, id, header, v2)
           members == [i \in 1 .. N |-> PlainMember(t.members[i], v2)]
<1>5. m = [m |-> IF t.ext = "appendable" /\ v2 THEN "Delimited" ELSE "Struct", keys |-> t.keys,
           members |-> members]
  BY <1>1 DEF BuiltMachine, StructMachineFor
<1> HIDE DEF m
<1>6. m.m \in {"Struct", "Delimited"} /\ m.members = members /\ m.keys = t.keys
  BY <1>5
<1>7. Len(m.members) = N
  BY <1>1, <1>6
<1>8. \A i \in 1 .. N : /\ m.members[i].name = t.members[i].name
                        /\ m.members[i].machine = MachineFor(t.members[i].type, t.members[i].id, v2, v2)
  BY <1>6 DEF PlainMember
<1> HIDE DEF members
<1>9. ASSUME NEW b, NEW v \in ValuesOf[t] PROVE Kept(b, Serialized(m, b, v, kind, e))
  <2>1. ASSUME NEW i \in 1 .. N
        PROVE  AcceptedMember(m.members[i].machine, m.members[i].name, m.keys, v, kind, e)
    <3> DEFINE x == t.members[i]
               inner == KeyEnabled(t.keys, x.name, e)
               w == v[x.name]
    <3>1. m.members[i].machine = MachineFor(x.type, x.id, v2, v2) /\ m.members[i].name = x.name
      BY <1>8
    <3>2. w \in ValuesOf[x.type]
      BY <1>3
    <3>3. \/ kind # "DataSample" /\ inner = "Never"
          \/ Accepts(MachineFor(x.type, x.id, v2, v2), ValuesOf[x.type], kind, inner)
      BY <1>4 DEF Accepted
    <3> HIDE DEF x, inner, w
    <3>4. \/ kind # "DataSample" /\ inner = "Never"
          \/ Accepts(m.members[i].machine, {w}, kind, inner)
      BY <3>1, <3>2, <3>3, AcceptsOne
    <3> QED
      BY <1>6, <3>1, <3>4 DEF AcceptedMember, inner, w
  <2>2. Len(m.members) \in Nat
    BY <1>1, <1>7
  <2>3. \A i \in 1 .. Len(m.members) :
          AcceptedMember(m.members[i].machine, m.members[i].name, m.keys, v, kind, e)
    BY <1>7, <2>1
  <2>4. Kept(b, SerializeMembers(m, b, v, kind, e))
    BY <2>2, <2>3, MembersAccepted
  <2>5. Kept(b, SerializeDelimited(m, b, v, kind, e))
    BY <2>2, <2>3, DelimitedAccepted
  <2>6. \/ Serialized(m, b, v, kind, e) = SerializeMembers(m, b, v, kind, e)
        \/ Serialized(m, b, v, kind, e) = SerializeDelimited(m, b, v, kind, e)
    BY <1>6 DEF Serialized
  <2> QED
    BY <2>4, <2>5, <2>6
<1> QED
  BY <1>6, <1>9 DEF m

\* A member of a mutable struct: its machine is the one inside if it is optional.
LEMMA MutableMemberPassed ==
  ASSUME Recursion, NEW t, t.k = "struct", t.ext = "mutable", NEW version \in Versions,
         NEW kind \in AllKinds, NEW e \in KeyExtents, <<t, Extent(kind, e)>> \in Encodable[version],
         NEW member \in ToSet(t.members), member.type \in Descs, Passes(member.type, version),
         member.type.k = "opt" => Passes(member.type.of, version),
         NEW v, v[member.name] \in ValuesOf[member.type]
  PROVE  PassedOrNone(MutableMember(member, version = 2), t.keys, v, kind, e)
<1> DEFINE v2 == version = 2
           d == member.type
           m == MachineFor(d, member.id, v2, v2)
           w == v[member.name]
           x == MutableMember(member, v2)
           inner == KeyEnabled(t.keys, member.name, e)
<1>1. /\ x.name = member.name /\ x.optional = (m.m = "Optional")
      /\ x.machine = IF m.m = "Optional" THEN m.of ELSE m
  BY DEF MutableMember
<1>2. m = BuiltMachine(d, member.id, v2, v2)
  BY DEF Recursion
<1>3. IsDescription(d) /\ IsValue(d, w)
  BY TypesAssumption, ValuesAssumption
<1>4. CASE kind # "DataSample" /\ inner = "Never"
  BY <1>1, <1>4 DEF PassedOrNone, AcceptedMember
<1>5. CASE ~(kind # "DataSample" /\ inner = "Never")
  <2>1. inner \in KeyExtents /\ <<InMember(t, member), Extent(kind, inner)>> \in Encodable[version]
    BY <1>5, MemberEncodable
  <2>2. CASE d.k = "opt"
    <3>1. InMember(t, member) = d.of
      BY <2>2 DEF InMember
    <3>2. Accepted(d.of, kind, inner, v2)
      BY <2>1, <2>2, <3>1 DEF Passes
    <3>3. m = [m |-> "Optional", of |-> MachineFor(d.of, None, v2, v2), id |-> member.id, v2 |-> v2]
      BY <1>2, <2>2 DEF BuiltMachine
    <3>4. Accepts(MachineFor(d.of, None, v2, v2), ValuesOf[d.of], kind, inner)
      BY <3>2 DEF Accepted
    <3>5. w \in {None} \cup ValuesOf[d.of]
      BY <1>3, <2>2 DEF IsValue
    <3> HIDE DEF m, w, d, inner, x
    <3>6. x.machine = MachineFor(d.of, None, v2, v2) /\ x.optional /\ x.name = member.name
      BY <1>1, <3>3
    <3>7. CASE w = None
      BY <3>6, <3>7 DEF PassedOrNone, w, x
    <3>8. CASE w # None
      <4>1. Accepts(x.machine, {w}, kind, inner)
        BY <3>4, <3>5, <3>6, <3>8, AcceptsOne
      <4> QED
        BY <3>6, <4>1 DEF PassedOrNone, AcceptedMember, w, x, inner
    <3> QED
      BY <3>7, <3>8
  <2>3. CASE d.k # "opt"
    <3>1. InMember(t, member) = d
      BY <2>3 DEF InMember
    <3>2. Accepts(m, ValuesOf[d], kind, inner)
      BY <2>1, <3>1 DEF Passes, Accepted
    <3>3. m.m # "Optional"
      BY <1>2, <1>3, <2>3, OnlyOptional
    <3>4. w \in ValuesOf[d]
      OBVIOUS
    <3> HIDE DEF m, w, d, inner, x
    <3>5. x.machine = m /\ x.name = member.name
      BY <1>1, <3>3
    <3>6. Accepts(m, {w}, kind, inner)
      BY <3>2, <3>4, AcceptsOne
    <3> QED
      BY <3>5, <3>6 DEF PassedOrNone, AcceptedMember, w, x, inner
  <2> QED
    BY <2>2, <2>3
<1> QED
  BY <1>4, <1>5

LEMMA MutablePasses ==
  ASSUME Recursion, NEW t \in Descs, t.k = "struct", t.ext = "mutable", NEW version \in Versions,
         \A x \in Parts(t) : x \in Descs /\ Passes(x, version) /\ \A y \in Parts(x) : Passes(y, version)
  PROVE  Passes(t, version)
<1> SUFFICES ASSUME NEW kind \in AllKinds, NEW e \in KeyExtents, <<t, Extent(kind, e)>> \in Encodable[version]
             PROVE  Accepted(t, kind, e, version = 2)
  BY DEF Passes
<1> DEFINE v2 == version = 2
           N == Len(t.members)
<1>0. IsDescription(t)
  BY TypesAssumption
<1>1. N \in Nat /\ DOMAIN t.members = 1 .. N
  BY <1>0 DEF IsDescription
<1>2. \A i \in 1 .. N : t.members[i] \in ToSet(t.members) /\ t.members[i].type \in Parts(t)
  BY <1>1 DEF ToSet, Parts
<1>3. /\ \A i \in 1 .. N : t.members[i].id \in Nat
      /\ \A i, j \in 1 .. N : i # j => t.members[i].id # t.members[j].id
  BY <1>0, <1>1 DEF IsDescription
<1> HIDE DEF N
<1>4. \A v \in ValuesOf[t] : \A i \in 1 .. N : v[t.members[i].name] \in ValuesOf[t.members[i].type]
  BY <1>2, ValuesAssumption DEF IsValue
<1>5. ASSUME NEW v \in ValuesOf[t], NEW i \in 1 .. N
      PROVE  PassedOrNone(MutableMember(t.members[i], v2), t.keys, v, kind, e)
  <2> DEFINE x == t.members[i]
  <2>1. x \in ToSet(t.members) /\ x.type \in Parts(t) /\ v[x.name] \in ValuesOf[x.type]
    BY <1>2, <1>4
  <2> HIDE DEF x
  <2>2. x.type \in Descs /\ Passes(x.type, version)
    BY <2>1
  <2>3. x.type.k = "opt" => Passes(x.type.of, version)
    BY <2>1 DEF Parts
  <2>4. PassedOrNone(MutableMember(x, v2), t.keys, v, kind, e)
    BY <2>1, <2>2, <2>3, MutableMemberPassed
  <2> QED
    BY <2>4 DEF x
<1> HIDE DEF v2
<1> SUFFICES ASSUME NEW id, NEW header
             PROVE  /\ BuiltMachine(t, id, header, v2).m # "Array"
                    /\ \A b : \A v \in ValuesOf[t] :
                         Kept(b, Serialized(BuiltMachine(t, id, header, v2), b, v, kind, e))
  BY AcceptedBy DEF v2
<1> DEFINE m == BuiltMachine(t, id, header, v2)
           members == [i \in 1 .. N |-> MutableMember(t.members[i], v2)]
<1>6. m = [m |-> "Mutable", v2 |-> v2, keys |-> t.keys, members |-> members]
  BY <1>1 DEF BuiltMachine, StructMachineFor
<1> HIDE DEF m
<1>7. m.m = "Mutable" /\ m.members = members /\ m.keys = t.keys
  BY <1>6
<1>8. DOMAIN members = 1 .. N /\ \A i \in 1 .. N : members[i] = MutableMember(t.members[i], v2)
  OBVIOUS
<1> HIDE DEF members
<1>9. members \in [1 .. N -> ToSet(members)]
  <2>1. members = [i \in 1 .. N |-> members[i]]
    BY DEF members
  <2>2. \A i \in 1 .. N : members[i] \in ToSet(members)
    BY <1>8 DEF ToSet
  <2> QED
    BY <2>1, <2>2
<1>10. \A i \in 1 .. N : members[i].id = t.members[i].id
  BY <1>8 DEF MutableMember
<1>11. Apart(members, N)
  BY <1>3, <1>9, <1>10 DEF Apart
<1>12. ASSUME NEW b, NEW v \in ValuesOf[t] PROVE Kept(b, Serialized(m, b, v, kind, e))
  <2> DEFINE order == MemberOrder(m, kind)
  <2>1. OutOf(order, members, N)
    BY <1>1, <1>7, <1>11, OrderedMembers
  <2>2. \A j \in 1 .. N : PassedOrNone(members[j], m.keys, v, kind, e)
    BY <1>5, <1>7, <1>8
  <2> HIDE DEF order
  <2>3. Len(order) \in Nat /\ \A i \in 1 .. Len(order) : PassedOrNone(order[i], m.keys, v, kind, e)
    BY <1>1, <2>1, <2>2 DEF OutOf
  <2>4. Kept(b, SerializeMutable(m, b, v, kind, e))
    BY <2>3, MutableAccepted DEF order
  <2>5. Serialized(m, b, v, kind, e) = SerializeMutable(m, b, v, kind, e)
    BY <1>7 DEF Serialized
  <2> QED
    BY <2>4, <2>5
<1> QED
  BY <1>7, <1>12 DEF m

\* Whatever can be encoded raises no error.
LEMMA AllPass ==
  ASSUME Recursion, NEW version \in Versions
  PROVE  \A t \in Descs : Passes(t, version)
<1> DEFINE T == {d \in Nat : \A t \in Descs : Depth[t] <= d => Passes(t, version)}
<1>1. \A t \in Descs : Depth[t] \in Nat /\ IsDescription(t)
                       /\ \A x \in Parts(t) : x \in Descs /\ Depth[x] < Depth[t]
  BY TypesAssumption
<1>2. ASSUME NEW t \in Descs, \A y \in Descs : Depth[y] < Depth[t] => Passes(y, version)
      PROVE  Passes(t, version)
  <2>1. \A x \in Parts(t) : x \in Descs /\ Passes(x, version)
    BY <1>1, <1>2
  <2>2. \A x \in Parts(t) : \A y \in Parts(x) : Passes(y, version)
    <3> SUFFICES ASSUME NEW x \in Parts(t), NEW y \in Parts(x) PROVE Passes(y, version)
      OBVIOUS
    <3>1. x \in Descs /\ Depth[x] < Depth[t]
      BY <1>1
    <3>2. y \in Descs /\ Depth[y] < Depth[x]
      BY <1>1, <3>1
    <3>3. Depth[y] < Depth[t]
      BY <1>1, <3>1, <3>2
    <3> QED
      BY <1>2, <3>2, <3>3
  <2>3. IsDescription(t)
    BY <1>1
  <2>4. CASE t.k \in {"prim", "char", "string", "bytes", "enum", "bitmask"}
    <3> SUFFICES ASSUME NEW kind \in AllKinds, NEW e \in KeyExtents,
                        <<t, Extent(kind, e)>> \in Encodable[version]
                 PROVE  Accepted(t, kind, e, version = 2)
      BY DEF Passes
    <3>1. FitsHolder(t, version = 2)
      BY EncodableParts DEF Writable
    <3>2. (version = 2) \in BOOLEAN
      OBVIOUS
    <3> QED
      BY <2>4, <3>1, <3>2, SimpleAccepted
  <2>5. CASE t.k \in {"opt", "list", "seq", "array"}
    <3>1. t.of \in Parts(t)
      BY <2>5 DEF Parts
    <3>2. t.of \in Descs /\ Passes(t.of, version)
      BY <2>1, <3>1
    <3> QED
      BY <2>5, <3>2, OptionalPasses, ListPasses, SeqPasses, ArrayPasses
  <2>6. CASE t.k = "map"
    <3>1. t.key \in Parts(t) /\ t.val \in Parts(t)
      BY <2>6 DEF Parts
    <3> QED
      BY <2>1, <2>6, <3>1, MapPasses
  <2>7. CASE t.k = "struct" /\ t.ext = "mutable"
    BY <2>1, <2>2, <2>7, MutablePasses
  <2>8. CASE t.k = "struct" /\ t.ext # "mutable"
    BY <2>1, <2>8, StructPasses
  <2>9. CASE t.k = "union"
    BY <2>1, <2>9, UnionPasses
  <2> QED
    BY <2>3, <2>4, <2>5, <2>6, <2>7, <2>8, <2>9 DEF IsDescription
<1>3. 0 \in T
  <2> SUFFICES ASSUME NEW t \in Descs, Depth[t] <= 0 PROVE Passes(t, version)
    OBVIOUS
  <2>1. \A y \in Descs : ~(Depth[y] < Depth[t])
    BY <1>1
  <2> QED
    BY <1>2, <2>1
<1>4. ASSUME NEW d \in T PROVE d + 1 \in T
  <2> SUFFICES ASSUME NEW t \in Descs, Depth[t] <= d + 1 PROVE Passes(t, version)
    OBVIOUS
  <2>1. \A y \in Descs : Depth[y] < Depth[t] => Depth[y] <= d
    BY <1>1
  <2> QED
    BY <1>2, <1>4, <2>1
<1>5. T = Nat
  <2>1. T \in SUBSET Nat
    OBVIOUS
  <2> HIDE DEF T
  <2> QED
    BY <1>3, <1>4, <2>1, SetInduction
<1> QED
  BY <1>1, <1>5

LEMMA HeaderKept ==
  ASSUME NEW b, NEW encoding \in 0 .. 255
  PROVE  Kept(b, PrependHeader(b, encoding))
<1> DEFINE z == 0
           b1 == Write(b, 1, z)
           b2 == Write(b1, 1, encoding)
           b3 == Write(b2, 1, z)
           b4 == Write(b3, 1, z)
           c == SetAlignOffset(b4, 4)
<1>1. PrependHeader(b, encoding) = c
  BY DEF PrependHeader
<1>2. InRange(1, z) /\ InRange(1, encoding)
  BY DEF InRange
<1> HIDE DEF z
<1>3. Kept(b, b1)
  BY <1>2, KeptWrite
<1>4. Kept(b1, b2)
  BY <1>2, KeptWrite
<1>5. Kept(b2, b3)
  BY <1>2, KeptWrite
<1>6. Kept(b3, b4)
  BY <1>2, KeptWrite
<1>7. Kept(b4, c)
  BY KeptMoved
<1> HIDE DEF b1, b2, b3, b4, c
<1>8. Kept(b, b2)
  BY <1>3, <1>4, KeptMore
<1>9. Kept(b, b3)
  BY <1>5, <1>8, KeptMore
<1>10. Kept(b, b4)
  BY <1>6, <1>9, KeptMore
<1> QED
  BY <1>1, <1>7, <1>10, KeptMore

(***************************************************************************)
(* Messages.                                                               *)
(***************************************************************************)
\* An empty buffer, whatever it was used for before.
LEMMA Prepared ==
  ASSUME NEW b \in Buffers, NEW version \in Versions, NEW endian
  PROVE  LET c == Prepare(b, version, endian)
         IN  /\ Sound(c) /\ Room(c) /\ c.offset = 0 /\ (version = 2 => Regular(c))
             /\ c.pos = 0 /\ c.endian = endian /\ c.error = "none" /\ c.alignMax = (IF version = 2 THEN 4 ELSE 8)
<1> DEFINE c == Prepare(b, version, endian)
<1>1. IsBufferRecord(b) /\ b.size \in Nat \ {0}
  BY BuffersAssumption
<1> DEFINE b1 == Seek(b, 0)
           b2 == ZeroOut(b1)
           b3 == SetAlignOffset(b2, 0)
           b4 == SetEndianness(b3, endian)
<1>2. c = [b4 EXCEPT !.alignMax = IF version = 2 THEN 4 ELSE 8, !.error = "none"]
  BY DEF Prepare
<1> HIDE DEF c
<1>3. /\ c.pos = 0 /\ c.size = b.size /\ c.offset = 0 /\ c.endian = endian /\ c.cells = NoCells
      /\ c.alignMax = (IF version = 2 THEN 4 ELSE 8) /\ c.error = "none"
      /\ IsBufferRecord(c)
  <2>1. IsBufferRecord(b1) /\ b1.pos = 0 /\ b1.size = b.size
    BY <1>1 DEF Seek, IsBufferRecord
  <2> HIDE DEF b1
  <2>2. IsBufferRecord(b2) /\ b2.pos = 0 /\ b2.size = b.size /\ b2.cells = NoCells
    BY <2>1 DEF ZeroOut, IsBufferRecord
  <2> HIDE DEF b2
  <2>3. IsBufferRecord(b3) /\ b3.pos = 0 /\ b3.size = b.size /\ b3.cells = NoCells /\ b3.offset = 0
    BY <2>2 DEF SetAlignOffset, IsBufferRecord
  <2> HIDE DEF b3
  <2>4. /\ IsBufferRecord(b4) /\ b4.pos = 0 /\ b4.size = b.size /\ b4.cells = NoCells /\ b4.offset = 0
        /\ b4.endian = endian
    BY <2>3 DEF SetEndianness, IsBufferRecord
  <2> HIDE DEF b4
  <2> QED
    BY <1>2, <2>4 DEF IsBufferRecord
<1>4. IsBufferRecord(c)
  BY <1>3
<1>5. DOMAIN c.cells = {}
  BY <1>3 DEF NoCells
<1>6. CellsBefore(c.cells, c.pos)
  BY <1>5 DEF CellsBefore
<1>7. Sound(c)
  BY <1>1, <1>3, <1>4, <1>6 DEF Sound
<1>8. Room(c)
  BY <1>1, <1>3 DEF Room
<1>9. version = 2 => Regular(c)
  BY <1>3, <1>5 DEF Regular, CellsAligned
<1> QED
  BY <1>3, <1>7, <1>8, <1>9 DEF c

\* Four bytes later the grid is the same.
LEMMA GridMoved ==
  ASSUME NEW p \in Nat, NEW a \in Widths, OnGrid(p, 0, AtMost(a, 4))
  PROVE  OnGrid(p, 4, AtMost(a, 4))
<1>1. CASE a = 1
  BY <1>1 DEF OnGrid, AtMost
<1>2. CASE a = 2
  BY <1>2 DEF OnGrid, AtMost
<1>3. CASE a = 4
  BY <1>3 DEF OnGrid, AtMost
<1>4. CASE a = 8
  BY <1>4 DEF OnGrid, AtMost
<1> QED
  BY <1>1, <1>2, <1>3, <1>4 DEF Widths

LEMMA HeaderPrepended ==
  ASSUME NEW v2, NEW b, Sound(b), Room(b), b.offset = 0, v2 => Regular(b), NEW encoding
  PROVE  LET c == PrependHeader(b, encoding)
         IN  /\ Sound(c) /\ Room(c) /\ c.offset = 4 /\ (v2 => Regular(c))
<1> DEFINE z == 0
           b1 == Write(b, 1, z)
           b2 == Write(b1, 1, encoding)
           b3 == Write(b2, 1, z)
           b4 == Write(b3, 1, z)
           c == PrependHeader(b, encoding)
<1>1. c = SetAlignOffset(b4, 4)
  BY DEF PrependHeader
<1> HIDE DEF z, c
<1>2. Encoded(v2, b, b1) /\ Sound(b)
  BY ByteEncoded
<1> HIDE DEF b1
<1>3. Encoded(v2, b1, b2)
  BY <1>2, ByteEncoded DEF Encoded, Wrote
<1> HIDE DEF b2
<1>4. Encoded(v2, b2, b3)
  BY <1>3, ByteEncoded DEF Encoded, Wrote
<1> HIDE DEF b3
<1>5. Encoded(v2, b3, b4)
  BY <1>4, ByteEncoded DEF Encoded, Wrote
<1> HIDE DEF b4
<1>6. Encoded(v2, b, b2)
  BY <1>2, <1>3, EncodedMore
<1>7. Encoded(v2, b, b3)
  BY <1>2, <1>4, <1>6, EncodedMore
<1>8. Encoded(v2, b, b4)
  BY <1>2, <1>5, <1>7, EncodedMore
<1>9. Sound(b4) /\ Room(b4) /\ b4.offset = 0 /\ (v2 => Regular(b4))
  BY <1>8 DEF Encoded, Wrote
<1>10. /\ IsBufferRecord(c) /\ c.pos = b4.pos /\ c.size = b4.size /\ c.offset = 4
       /\ c.alignMax = b4.alignMax /\ c.endian = b4.endian /\ c.cells = b4.cells
  BY <1>1, <1>9 DEF SetAlignOffset, IsBufferRecord, Sound
<1>11. Sound(c) /\ Room(c)
  BY <1>9, <1>10 DEF Sound, Room
<1>12. ASSUME v2 PROVE Regular(c)
  <2>1. Regular(b4)
    BY <1>9, <1>12
  <2> SUFFICES ASSUME NEW p \in DOMAIN c.cells, c.cells[p].endian # "any"
               PROVE  OnGrid(p, 4, AtMost(c.cells[p].unit, 4))
    BY <1>10, <2>1 DEF Regular, CellsAligned
  <2>2. OnGrid(p, 0, AtMost(c.cells[p].unit, 4))
    BY <1>9, <1>10, <2>1 DEF Regular, CellsAligned
  <2>3. p \in Nat /\ c.cells[p].unit \in Widths
    BY <1>9, <1>10 DEF Sound, CellsBefore, IsCell
  <2> QED
    BY <2>2, <2>3, GridMoved
<1> QED
  BY <1>10, <1>11, <1>12 DEF c

LEMMA SampleWritten ==
  ASSUME Recursion, NEW t \in Types, NEW v \in Samples[t], NEW version \in Versions, NEW endian,
         NEW kind \in KeyKinds \cup {"DataSample"}, NEW header \in BOOLEAN, NEW b \in Buffers
  PROVE  LET r == SerializeInto(b, t, version, endian, kind, header, v)
         IN  /\ Sound(r) /\ Room(r)
             /\ <<Desc[t], Extent(kind, "InKeylist")>> \in Encodable[version] => r.error = "none"
             /\ version = 2 => CellsAligned(r.cells, IF header THEN 4 ELSE 0)
<1> DEFINE v2 == version = 2
           clean == Prepare(b, version, endian)
           encoding == Encoding(t, version, endian)
           headed == PrependHeader(clean, encoding)
           start == IF header THEN headed ELSE clean
           m == MachineOf(t, version)
           keys == "InKeylist"
           r == Serialize(m, start, v, kind, keys)
           whole == <<Desc[t], Extent(kind, keys)>> \in Encodable[version]
<1>1. SerializeInto(b, t, version, endian, kind, header, v) = r
  BY DEF SerializeInto
<1>2. Sound(clean) /\ Room(clean) /\ clean.offset = 0 /\ (v2 => Regular(clean)) /\ clean.error = "none"
  BY Prepared
<1>0. encoding \in 0 .. 255
  BY DEF Encoding, XcdrHead, Versions
<1> HIDE DEF clean, encoding
<1>3. /\ Sound(headed) /\ Room(headed) /\ headed.offset = 4 /\ (v2 => Regular(headed))
      /\ headed.error = "none"
  <2>1. Sound(headed) /\ Room(headed) /\ headed.offset = 4 /\ (v2 => Regular(headed))
    BY <1>2, HeaderPrepended
  <2>2. Kept(clean, headed)
    BY <1>0, HeaderKept
  <2> QED
    BY <1>2, <2>1, <2>2 DEF Kept, Sound
<1> HIDE DEF headed
<1>4. /\ Sound(start) /\ Room(start) /\ start.offset = (IF header THEN 4 ELSE 0)
      /\ (v2 => Regular(start)) /\ start.error = "none"
  BY <1>2, <1>3
<1> HIDE DEF start
<1>5. Desc[t] \in Descs /\ v \in ValuesOf[Desc[t]]
  BY TypesAssumption
<1>6. v2 \in BOOLEAN /\ m = MachineFor(Desc[t], None, v2, v2)
  BY DEF MachineOf
<1>12. whole => Accepts(m, ValuesOf[Desc[t]], kind, keys)
  <2>1. keys \in KeyExtents
    BY DEF KeyExtents, Extents
  <2>2. kind \in AllKinds
    BY DEF AllKinds
  <2>3. Passes(Desc[t], version)
    BY <1>5, AllPass
  <2>4. whole => Accepted(Desc[t], kind, keys, v2)
    BY <2>1, <2>2, <2>3 DEF Passes
  <2> HIDE DEF keys, whole, m, v2
  <2> QED
    BY <1>6, <2>4 DEF Accepted
<1> HIDE DEF v2, m, keys, whole
<1>7. Fits(Desc[t], v2)
  BY <1>5, <1>6, AllFit
<1>8. Encodes(m, ValuesOf[Desc[t]], v2)
  BY <1>6, <1>7 DEF Fits
<1>9. Encoded(v2, start, r)
  BY <1>4, <1>5, <1>8 DEF Encodes
<1>13. whole => Kept(start, r)
  BY <1>5, <1>12 DEF Accepts
<1> HIDE DEF r
<1>10. Sound(r) /\ Room(r) /\ r.offset = start.offset /\ (v2 => Regular(r))
  BY <1>4, <1>9 DEF Encoded, Wrote
<1>11. v2 => CellsAligned(r.cells, IF header THEN 4 ELSE 0)
  BY <1>4, <1>10 DEF Regular
<1>14. whole => r.error = "none"
  BY <1>4, <1>13 DEF Kept, Sound
<1> QED
  BY <1>1, <1>10, <1>11, <1>14 DEF v2, whole, keys

(***************************************************************************)
(* The invariants, together: each of them is inductive.                    *)
(***************************************************************************)
Sent == TypeOK /\ EncodingIsWhole /\ NumbersAligned

LEMMA MessageSent ==
  ASSUME Recursion, NEW t \in Types, NEW v \in Samples[t], NEW version \in Versions, NEW endian,
         NEW kind \in KeyKinds \cup {"DataSample"}, NEW header \in BOOLEAN, NEW b \in Buffers,
         Sent, wire = None, UNCHANGED seen,
         wire' = Message(t, version, kind, header, v, SerializeInto(b, t, version, endian, kind, header, v))
  PROVE  Sent'
<1> DEFINE r == SerializeInto(b, t, version, endian, kind, header, v)
           origin == IF header THEN 4 ELSE 0
           whole == <<Desc[t], Extent(kind, "InKeylist")>> \in Encodable[version]
<1>1. /\ Sound(r) /\ Room(r) /\ (whole => r.error = "none")
      /\ (version = 2 => CellsAligned(r.cells, origin))
  BY SampleWritten
<1> HIDE DEF r, origin, whole
<1>2. wire' = Message(t, version, kind, header, v, r)
  BY DEF r
<1>3. /\ wire'.type = t /\ wire'.version = version /\ wire'.kind = kind /\ wire'.header = header
      /\ wire'.value = v /\ wire'.bytes = AsBytes(r) /\ wire'.sent = r.pos /\ wire'.error = r.error
  BY <1>2 DEF Message
<1>4. seen' = None
  BY DEF Sent, TypeOK
<1>5. wire'.bytes.cells = r.cells /\ wire'.bytes.length = r.pos
  BY <1>1, <1>3 DEF AsBytes, AtMost, Room, Sound
<1>6. \A p \in DOMAIN r.cells : p >= 0 /\ p + r.cells[p].width <= r.pos
  BY <1>1 DEF Sound, CellsBefore
<1>7. TypeOK'
  BY <1>3, <1>4, <1>5, <1>6 DEF TypeOK
<1>8. EncodingIsWhole'
  BY <1>1, <1>3, <1>5 DEF EncodingIsWhole, whole
<1>9. NumbersAligned'
  <2> SUFFICES ASSUME version = 2, NEW p \in DOMAIN r.cells, r.cells[p].endian # "any"
               PROVE  (p - origin) % AtMost(r.cells[p].unit, 4) = 0
    BY <1>3, <1>5 DEF NumbersAligned, origin
  <2> QED
    BY <1>1 DEF CellsAligned, OnGrid
<1> QED
  BY <1>7, <1>8, <1>9 DEF Sent

LEMMA SentStep ==
  ASSUME Recursion, Sent, [Next]_vars
  PROVE  Sent'
<1>1. CASE UNCHANGED vars
  BY <1>1 DEF vars, Sent, TypeOK, EncodingIsWhole, NumbersAligned
<1>2. ASSUME NEW t \in Types, NEW version \in Versions, NEW e \in Endians, NEW b \in Buffers,
             NEW v \in Samples[t], SerializeSample(t, v, version, e, b)
      PROVE  Sent'
  <2> DEFINE kind == "DataSample"
             header == TRUE
  <2>1. /\ wire = None /\ UNCHANGED seen
        /\ wire' = Message(t, version, kind, header, v, SerializeInto(b, t, version, e, kind, header, v))
    BY <1>2 DEF SerializeSample
  <2>2. kind \in KeyKinds \cup {"DataSample"} /\ header \in BOOLEAN
    OBVIOUS
  <2> HIDE DEF kind, header
  <2> QED
    BY <2>1, <2>2, MessageSent
<1>3. ASSUME NEW t \in Types, NEW version \in Versions, NEW kind \in KeyKinds, NEW header \in BOOLEAN,
             NEW e \in Endians, NEW b \in Buffers, NEW v \in Samples[t],
             SerializeKey(t, v, version, kind, header, e, b)
      PROVE  Sent'
  <2>1. /\ wire = None /\ UNCHANGED seen
        /\ wire' = Message(t, version, kind, header, v, SerializeInto(b, t, version, e, kind, header, v))
    BY <1>3 DEF SerializeKey
  <2>2. kind \in KeyKinds \cup {"DataSample"}
    OBVIOUS
  <2> QED
    BY <2>1, <2>2, MessageSent
<1>4. ASSUME NEW t \in Types, DeserializeSample(t) \/ DeserializeKey(t)
      PROVE  Sent'
  <2>1. wire # None /\ UNCHANGED wire /\ seen'.type = t
    BY <1>4 DEF DeserializeSample, DeserializeKey, Reading
  <2> QED
    BY <2>1 DEF Sent, TypeOK, EncodingIsWhole, NumbersAligned
<1> QED
  BY <1>1, <1>2, <1>3, <1>4 DEF Next

LEMMA AlwaysSent ==
  ASSUME Recursion
  PROVE  Spec => []Sent
<1>1. Init => Sent
  BY DEF Init, Sent, TypeOK, EncodingIsWhole, NumbersAligned
<1>2. Sent /\ [Next]_vars => Sent'
  BY SentStep
<1> QED
  BY <1>1, <1>2, PTL DEF Spec

\* A message is of a known type and holds one of its samples, and every number
\* in it lies inside its bytes (Buffer.ensure_size before each write, asbytes).
THEOREM MessagesTyped ==
  ASSUME Recursion
  PROVE  Spec => []TypeOK
<1>1. Sent => TypeOK
  BY DEF Sent
<1> QED
  BY <1>1, AlwaysSent, PTL

\* Nothing within the bounds of its type is refused by a serializer, but for an enum
\* with a value too large for its holder and an optional member in a key, and none of
\* the bytes is left behind in the buffer (Machine.serialize, Buffer.asbytes).
THEOREM EncodingComplete ==
  ASSUME Recursion
  PROVE  Spec => []EncodingIsWhole
<1>1. Sent => EncodingIsWhole
  BY DEF Sent
<1> QED
  BY <1>1, AlwaysSent, PTL

\* Every number of an XCDR2 message lies at a multiple of its width, at most 4,
\* behind the header, however deep in the type it is (Buffer.align).
THEOREM AlignmentKept ==
  ASSUME Recursion
  PROVE  Spec => []NumbersAligned
<1>1. Sent => NumbersAligned
  BY DEF Sent
<1> QED
  BY <1>1, AlwaysSent, PTL
=============================================================================
