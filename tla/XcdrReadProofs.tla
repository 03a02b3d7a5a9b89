--------------------------- MODULE XcdrReadProofs ---------------------------
(***************************************************************************)
(* What was written reads back, with its own type and with other versions  *)
(* of it, for any types, samples and buffers; and two versions of a type   *)
(* make the same key of what they both know.  The machines call each other *)
(* as Recursion says and the views as ViewRecursion says; the proofs go by *)
(* the depth of the types.                                                 *)
(***************************************************************************)
EXTENDS XcdrViews, XcdrProofs, FiniteSetTheorems

(***************************************************************************)
(* Machines that call other ones, read.                                    *)
(***************************************************************************)
\* What machine mw writes of a value of type w, machine mr reads as type r.
ReadsBack(mw, mr, w, r, v2) ==
  \A b, v, ew :
    Fit(b, v2) /\ v \in ValuesOf[w] =>
      LET a == Serialize(mw, b, v, "DataSample", ew)
      IN  /\ Extends(b, a) /\ b.pos < a.pos
          /\ \A d, er : Holds(d, b, a) => Deserialize(mr, d, "DataSample", er) = Came(d, a.pos, View(w, r, v))

LEMMA WritesBack ==
  ASSUME NEW mw, NEW mr, NEW w, NEW r, NEW v2, ReadsBack(mw, mr, w, r, v2),
         NEW b, Fit(b, v2), NEW v \in ValuesOf[w], NEW ew, NEW a, a = Serialize(mw, b, v, "DataSample", ew)
  PROVE  /\ Extends(b, a) /\ b.pos < a.pos
         /\ \A d, er : Holds(d, b, a) => Deserialize(mr, d, "DataSample", er) = Came(d, a.pos, View(w, r, v))
BY DEF ReadsBack

Taken(m, y, kind, enabled) ==
  LET x == Deserialize(m, y.b, kind, enabled) IN [b |-> x.b, v |-> Append(y.v, x.v)]

CollectRuns(read, m, b, n, kind, enabled) ==
  /\ read[0] = [b |-> b, v |-> <<>>]
  /\ \A i \in 1 .. n : read[i] = Taken(m, read[i - 1], kind, enabled)
  /\ Collect(m, b, n, kind, enabled) = read[n]

LEMMA CollectSteps ==
  ASSUME NEW m, NEW b, NEW n \in Nat, NEW kind, NEW enabled
  PROVE  \E read : CollectRuns(read, m, b, n, kind, enabled)
<1> DEFINE N == Rounds(n)
           base == [b |-> b, v |-> <<>>]
           Step(y) == Taken(m, y, kind, enabled)
           Runs(f, k) == f = [i \in 0 .. k |-> IF i = 0 THEN base ELSE Step(f[i - 1])]
           T == {k \in Nat : \E f : Runs(f, k)}
           read == CHOOSE f : Runs(f, N)
<1>1. Collect(m, b, n, kind, enabled) = read[N]
  BY DEF Collect, Taken
<1>2. N = n
  BY DEF Rounds
<1> HIDE DEF N, base
<1>3. 0 \in T
  <2> DEFINE g == [i \in 0 .. 0 |-> base]
  <2>1. Runs(g, 0)
    OBVIOUS
  <2> QED
    BY <2>1
<1>4. ASSUME NEW k \in T PROVE k + 1 \in T
  <2>1. PICK f : Runs(f, k)
    OBVIOUS
  <2> DEFINE g == [i \in 0 .. k + 1 |-> IF i <= k THEN f[i] ELSE Step(f[k])]
  <2> HIDE DEF Step
  <2>2. \A i \in 0 .. k : f[i] = IF i = 0 THEN base ELSE Step(f[i - 1])
    BY <2>1
  <2>3. ASSUME NEW i \in 0 .. k + 1 PROVE g[i] = IF i = 0 THEN base ELSE Step(g[i - 1])
    <3>1. CASE i <= k
      <4>1. g[i] = f[i] /\ (i # 0 => g[i - 1] = f[i - 1])
        BY <3>1
      <4> QED
        BY <2>2, <3>1, <4>1
    <3>2. CASE i = k + 1
      BY <3>2
    <3> QED
      BY <3>1, <3>2
  <2>4. g = [i \in 0 .. k + 1 |-> g[i]]
    OBVIOUS
  <2> HIDE DEF g
  <2>5. Runs(g, k + 1)
    BY <2>3, <2>4
  <2>6. k + 1 \in Nat
    OBVIOUS
  <2> HIDE DEF Runs
  <2> QED
    BY <2>5, <2>6
<1>5. T = Nat
  <2>1. T \in SUBSET Nat
    OBVIOUS
  <2> HIDE DEF T
  <2> QED
    BY <1>3, <1>4, <2>1, SetInduction
<1>6. Runs(read, N)
  BY <1>2, <1>5
<1> HIDE DEF read, Step
<1>7. \A i \in 0 .. N : read[i] = IF i = 0 THEN base ELSE Step(read[i - 1])
  BY <1>6
<1>8. read[0] = base /\ \A i \in 1 .. N : read[i] = Step(read[i - 1])
  BY <1>2, <1>7
<1>9. CollectRuns(read, m, b, n, kind, enabled)
  BY <1>1, <1>2, <1>8 DEF base, Step, CollectRuns
<1> QED
  BY <1>9

LEMMA BackEach ==
  ASSUME NEW v2, NEW mw, NEW mr, NEW w, NEW r, ReadsBack(mw, mr, w, r, v2),
         NEW s \in Seq(ValuesOf[w]), NEW b, Fit(b, v2), NEW ew, NEW er
  PROVE  LET a == Each(mw, b, s, "DataSample", ew)
         IN  /\ Extends(b, a) /\ (s # <<>> => b.pos < a.pos)
             /\ \A d : Holds(d, b, a) =>
                  Collect(mr, d, Len(s), "DataSample", er) = Came(d, a.pos, [i \in DOMAIN s |-> View(w, r, s[i])])
<1> DEFINE N == Len(s)
           kind == "DataSample"
           a == Each(mw, b, s, kind, ew)
           f == [i \in DOMAIN s |-> View(w, r, s[i])]
<1>0. N \in Nat /\ DOMAIN s = 1 .. N /\ (s # <<>> => N > 0) /\ \A i \in 1 .. N : s[i] \in ValuesOf[w]
  OBVIOUS
<1> HIDE DEF kind
<1>8. PICK after : EachRuns(after, mw, b, s, kind, ew)
  BY <1>0, EachSteps
<1>1. /\ after[0] = b
      /\ \A i \in 1 .. N : after[i] = Serialize(mw, after[i - 1], s[i], kind, ew)
      /\ a = after[N]
  BY <1>8 DEF EachRuns
<1> HIDE DEF N, a
<1>2. ASSUME NEW i \in 1 .. N, Fit(after[i - 1], v2)
      PROVE  /\ Extends(after[i - 1], after[i]) /\ after[i - 1].pos < after[i].pos
             /\ \A d : Holds(d, after[i - 1], after[i]) =>
                  Deserialize(mr, d, kind, er) = Came(d, after[i].pos, View(w, r, s[i]))
  <2>1. after[i] = Serialize(mw, after[i - 1], s[i], kind, ew) /\ s[i] \in ValuesOf[w]
    BY <1>0, <1>1
  <2> QED
    BY <1>2, <2>1, WritesBack DEF kind
<1>3. Fit(after[0], v2) /\ \A i \in 1 .. N : Fit(after[i - 1], v2) => Extends(after[i - 1], after[i])
  BY <1>1, <1>2
<1>4. \A i \in 0 .. N : Fit(after[i], v2) /\ Extends(after[0], after[i]) /\ Extends(after[i], after[N])
  BY <1>0, <1>3, Chain
<1>5. Extends(b, a)
  BY <1>0, <1>1, <1>4
<1>6. ASSUME N > 0 PROVE b.pos < a.pos
  <2> DEFINE one == 1
  <2>1. one \in 1 .. N /\ one \in 0 .. N /\ one - 1 = 0
    BY <1>0, <1>6
  <2> HIDE DEF one
  <2>2. after[0].pos < after[one].pos
    BY <1>2, <1>3, <2>1
  <2>3. Extends(after[one], a) /\ Sound(after[one])
    BY <1>1, <1>4, <2>1 DEF Fit
  <2>4. after[one].pos <= a.pos /\ after[one].pos \in Nat /\ a.pos \in Nat /\ b.pos \in Nat
    BY <1>5, <2>3, ExtendsFacts DEF Fit, Sound
  <2> QED
    BY <1>1, <2>2, <2>4
<1>7. ASSUME NEW d, Holds(d, b, a) PROVE Collect(mr, d, N, kind, er) = Came(d, a.pos, f)
  <2>1. Holds(d, after[0], after[N])
    BY <1>1, <1>7
  <2>2. \A i \in 1 .. N : Holds(Seek(d, after[i - 1].pos), after[i - 1], after[i])
    BY <1>0, <1>3, <2>1, ChainHeld
  <2>10. PICK read : CollectRuns(read, mr, d, N, kind, er)
    BY <1>0, CollectSteps
  <2>3. /\ read[0] = [b |-> d, v |-> <<>>]
        /\ \A i \in 1 .. N : read[i] = Taken(mr, read[i - 1], kind, er)
        /\ Collect(mr, d, N, kind, er) = read[N]
    BY <2>10 DEF CollectRuns
  <2>4. IsBufferRecord(d) /\ d.pos = b.pos
    BY <1>7, HeldRecord
  <2> DEFINE Sofar(i) == [j \in 1 .. i |-> View(w, r, s[j])]
             T == {i \in Nat : read[i] = Came(d, after[i].pos, Sofar(i))}
  <2>5. 0 \in T
    <3>1. Sofar(0) = <<>>
      OBVIOUS
    <3>2. Seek(d, after[0].pos) = d
      BY <1>1, <2>4, SeekFacts
    <3> HIDE DEF Sofar
    <3> QED
      BY <2>3, <3>1, <3>2 DEF Came
  <2>6. ASSUME NEW i \in 0 .. N - 1, i \in T PROVE i + 1 \in T
    <3> DEFINE e == Seek(d, after[i].pos)
               k == i + 1
               x == View(w, r, s[k])
    <3>1. k \in 1 .. N /\ k - 1 = i /\ i \in 0 .. N /\ k \in Nat
      BY <1>0
    <3>2. Append(Sofar(i), x) = Sofar(k)
      <4>1. Sofar(i) \in Seq({View(w, r, s[j]) : j \in 1 .. i}) /\ Len(Sofar(i)) = i
        OBVIOUS
      <4>2. \A j \in 1 .. i : Append(Sofar(i), x)[j] = Sofar(k)[j]
        BY <3>1, <4>1
      <4>3. Append(Sofar(i), x)[k] = Sofar(k)[k]
        BY <3>1, <4>1
      <4>4. DOMAIN Append(Sofar(i), x) = 1 .. k /\ DOMAIN Sofar(k) = 1 .. k
        BY <3>1, <4>1
      <4>5. \A j \in 1 .. k : j \in 1 .. i \/ j = k
        BY <3>1
      <4> QED
        BY <4>2, <4>3, <4>4, <4>5
    <3> HIDE DEF Sofar, k
    <3>3. Fit(after[k - 1], v2)
      BY <1>4, <3>1
    <3>4. Holds(e, after[k - 1], after[k])
      BY <2>2, <3>1
    <3> HIDE DEF e
    <3>5. Deserialize(mr, e, kind, er) = Came(e, after[k].pos, x)
      BY <1>2, <3>1, <3>3, <3>4
    <3> HIDE DEF x
    <3>6. Came(e, after[k].pos, x) = Came(d, after[k].pos, x)
      BY <2>4, CameAgain DEF e
    <3>7. read[i].b = e /\ read[i].v = Sofar(i)
      BY <2>6 DEF Came, e
    <3>8. read[k] = Taken(mr, read[i], kind, er)
      BY <2>3, <3>1
    <3>10. read[k] = LET y == Deserialize(mr, e, kind, er) IN [b |-> y.b, v |-> Append(Sofar(i), y.v)]
      BY <3>7, <3>8 DEF Taken
    <3>9. read[k] = Came(d, after[k].pos, Append(Sofar(i), x))
      BY <3>5, <3>6, <3>10 DEF Came
    <3> QED
      BY <3>1, <3>2, <3>9 DEF k
  <2>7. Sofar(N) = f
    BY <1>0
  <2> HIDE DEF Sofar, T, f
  <2>8. 0 .. N \subseteq T
    BY <1>0, <2>5, <2>6, IntervalInduction
  <2>9. read[N] = Came(d, after[N].pos, Sofar(N))
    BY <1>0, <2>8 DEF T
  <2> QED
    BY <1>1, <2>3, <2>7, <2>9
<1> QED
  BY <1>0, <1>5, <1>6, <1>7 DEF N, a, kind

Seen(w, r, s) == [i \in DOMAIN s |-> View(w, r, s[i])]

LEMMA BackElements ==
  ASSUME NEW v2, NEW mw, NEW mr, NEW w, NEW r, ReadsBack(mw, mr, w, r, v2),
         NEW s \in Seq(ValuesOf[w]), NEW b, Fit(b, v2), NEW ew, NEW a, a = Each(mw, b, s, "DataSample", ew)
  PROVE  /\ Extends(b, a) /\ (s # <<>> => b.pos < a.pos)
         /\ \A d, er : Holds(d, b, a) => Collect(mr, d, Len(s), "DataSample", er) = Came(d, a.pos, Seen(w, r, s))
BY BackEach DEF Seen

LEMMA BackArray ==
  ASSUME NEW v2, NEW mw, NEW mr, NEW w, NEW r, ReadsBack(mw.of, mr.of, w, r, v2),
         mw.header = mr.header, mw.len = mr.len,
         NEW v \in Seq(ValuesOf[w]), Len(v) = mw.len, v # <<>>,
         NEW b, Fit(b, v2), NEW ew, NEW a, a = SerializeArray(mw, b, v, "DataSample", ew)
  PROVE  /\ Extends(b, a) /\ b.pos < a.pos
         /\ \A d, er : Holds(d, b, a) => DeserializeArray(mr, d, "DataSample", er) = Came(d, a.pos, Seen(w, r, v))
<1> DEFINE kind == "DataSample"
           start == IF mw.header THEN Write(Align(b, 4), 4, 0) ELSE b
           done == Each(mw.of, start, v, kind, ew)
           size == done.pos - start.pos
<1>1. a = IF mw.header THEN Patch(done, start.pos - 4, size) ELSE done
  BY DEF SerializeArray, Check
<1>2. Fit(start, v2)
  BY FrameOpened
<1> HIDE DEF start, size
<1>3. /\ Extends(start, done) /\ start.pos < done.pos
      /\ \A d, er : Holds(d, start, done) => Collect(mr.of, d, Len(v), kind, er) = Came(d, done.pos, Seen(w, r, v))
  BY <1>2, BackElements
<1> HIDE DEF done, kind
<1>4. CASE ~mw.header
  <2>1. start = b /\ a = done
    BY <1>1, <1>4 DEF start
  <2>2. ASSUME NEW d, NEW er, Holds(d, b, a) PROVE DeserializeArray(mr, d, kind, er) = Came(d, a.pos, Seen(w, r, v))
    <3>1. DeserializeArray(mr, d, kind, er) = Collect(mr.of, d, mr.len, kind, er)
      BY <1>4 DEF DeserializeArray
    <3> QED
      BY <1>3, <2>1, <2>2, <3>1
  <2> QED
    BY <1>3, <2>1, <2>2 DEF kind
<1>5. CASE mw.header
  <2>1. start = Write(Align(b, 4), 4, 0) /\ a = Patch(done, start.pos - 4, size)
    BY <1>1, <1>5 DEF start
  <2>2. Extends(b, a) /\ a.pos = done.pos /\ b.pos < a.pos
    BY <1>3, <2>1, FrameClosed
  <2>3. ASSUME NEW d, NEW er, Holds(d, b, a) PROVE DeserializeArray(mr, d, kind, er) = Came(d, a.pos, Seen(w, r, v))
    <3> DEFINE e == Seek(d, start.pos)
               n == Number(d, 4)
               c == Collect(mr.of, n.b, mr.len, kind, er)
    <3>1. Sound(b)
      BY DEF Fit
    <3>2. n = Came(d, start.pos, size) /\ Holds(e, start, done)
      BY <1>3, <2>1, <2>3, <3>1, Framed
    <3>3. n.b = e /\ n.v = size
      BY <3>2 DEF Came
    <3>4. IsBufferRecord(d)
      BY <2>3, HeldRecord
    <3>5. c = Came(e, done.pos, Seen(w, r, v))
      BY <1>3, <3>2, <3>3
    <3>6. c = Came(d, done.pos, Seen(w, r, v))
      BY <3>4, <3>5, CameAgain
    <3>7. DeserializeArray(mr, d, kind, er) = IF c.b.pos # n.b.pos + n.v THEN [c EXCEPT !.b = Fail(@, "assert")] ELSE c
      BY <1>5 DEF DeserializeArray
    <3> HIDE DEF n, c, e
    <3>8. c.b = Seek(d, done.pos)
      BY <3>6 DEF Came
    <3>9. c.b.pos = done.pos /\ n.b.pos = start.pos
      BY <3>3, <3>4, <3>8, SeekFacts DEF e
    <3>10. start.pos \in Nat /\ done.pos \in Nat
      BY <1>2, <1>3, ExtendsFacts DEF Fit
    <3>11. c.b.pos = n.b.pos + n.v
      BY <3>3, <3>9, <3>10 DEF size
    <3> QED
      BY <2>2, <3>6, <3>7, <3>11
  <2> QED
    BY <2>2, <2>3 DEF kind
<1> QED
  BY <1>4, <1>5

LEMMA BackSequence ==
  ASSUME NEW v2, NEW mw, NEW mr, NEW w, NEW r, ReadsBack(mw.of, mr.of, w, r, v2), mw.header = mr.header,
         NEW v \in Seq(ValuesOf[w]), Bounded(v, mw.max),
         NEW b, Fit(b, v2), NEW ew, NEW a, a = SerializeSequence(mw, b, v, "DataSample", ew)
  PROVE  /\ Extends(b, a) /\ b.pos < a.pos
         /\ \A d, er : Holds(d, b, a) => DeserializeSequence(mr, d, "DataSample", er) = Came(d, a.pos, Seen(w, r, v))
<1> DEFINE kind == "DataSample"
           k == Len(v)
           aligned == Align(b, 4)
           start == IF mw.header THEN Write(aligned, 4, 0) ELSE aligned
           counted == Write(start, 4, k)
           done == Each(mw.of, counted, v, kind, ew)
           size == done.pos - start.pos
<1>1. a = IF mw.header THEN Patch(done, start.pos - 4, size) ELSE done
  BY DEF SerializeSequence, WithinMax, Check, Bounded
<1>2. k \in Nat
  OBVIOUS
<1> HIDE DEF k, size
<1>3. Sound(b) /\ IsBufferRecord(b)
  BY DEF Fit, Sound
<1>4. Extends(b, aligned) /\ Fit(aligned, v2)
  <2> DEFINE n == 4
  <2>1. n \in Widths /\ aligned = Align(b, n)
    BY DEF Widths
  <2> HIDE DEF n
  <2>2. Extends(b, aligned)
    BY <1>3, <2>1, AlignWrote DEF Extends
  <2> QED
    BY <2>2, FitStays
<1>5. Fit(start, v2)
  BY <1>4, FrameOpened DEF start
<1> HIDE DEF start
<1>6. /\ Fit(counted, v2) /\ Extends(start, counted) /\ start.pos < counted.pos
      /\ \A d : Holds(d, start, counted) => Read(d, 4) = Came(d, counted.pos, k)
  BY <1>5, CountRead
<1> HIDE DEF counted
<1>7. /\ Extends(counted, done)
      /\ \A d, er : Holds(d, counted, done) => Collect(mr.of, d, k, kind, er) = Came(d, done.pos, Seen(w, r, v))
  BY <1>6, BackElements DEF k
<1> HIDE DEF done, kind
<1>8. Sound(start) /\ Sound(counted)
  BY <1>5, <1>6 DEF Fit
<1>9. Extends(start, done)
  BY <1>6, <1>7, <1>8, ExtendsMore
<1>10. start.pos < done.pos
  BY <1>6, <1>7, <1>8, ExtendsFacts
\* What follows the header.
<1>11. ASSUME NEW d, NEW er, Holds(d, start, done)
       PROVE  LET n == Read(d, 4) IN /\ n = Came(d, counted.pos, k)
                                     /\ Collect(mr.of, n.b, n.v, kind, er) = Came(d, done.pos, Seen(w, r, v))
  <2> DEFINE e == Seek(d, counted.pos)
  <2>1. Holds(d, start, counted) /\ Holds(e, counted, done)
    BY <1>6, <1>7, <1>8, <1>11, HoldsParts
  <2>2. Read(d, 4) = Came(d, counted.pos, k)
    BY <1>6, <2>1
  <2>3. Read(d, 4).b = e /\ Read(d, 4).v = k
    BY <2>2 DEF Came
  <2>4. Collect(mr.of, e, k, kind, er) = Came(e, done.pos, Seen(w, r, v))
    BY <1>7, <2>1
  <2>5. Came(e, done.pos, Seen(w, r, v)) = Came(d, done.pos, Seen(w, r, v))
    BY <1>11, HeldRecord, CameAgain
  <2> QED
    BY <2>2, <2>3, <2>4, <2>5
<1>12. CASE ~mw.header
  <2>1. start = aligned /\ a = done
    BY <1>1, <1>12 DEF start
  <2>2. Extends(b, a)
    BY <1>3, <1>4, <1>9, <2>1, ExtendsMore
  <2>3. b.pos < a.pos
    BY <1>3, <1>4, <1>8, <1>9, <1>10, <2>1, ExtendsFacts
  <2>4. ASSUME NEW d, NEW er, Holds(d, b, a) PROVE DeserializeSequence(mr, d, kind, er) = Came(d, a.pos, Seen(w, r, v))
    <3> DEFINE e == Seek(d, aligned.pos)
               n == Read(e, 4)
               four == 4
    <3>1. four \in Widths /\ aligned = Align(b, four) /\ four = 4
      BY DEF Widths
    <3> HIDE DEF four
    <3>2. Align(d, 4) = e /\ Holds(e, start, done)
      <4>1. Extends(Align(b, four), a)
        BY <1>9, <2>1, <3>1
      <4> QED
        BY <1>3, <2>1, <2>4, <3>1, <4>1, AlignHeld
    <3>3. Collect(mr.of, n.b, n.v, kind, er) = Came(e, done.pos, Seen(w, r, v))
      BY <1>11, <3>2
    <3>4. DeserializeSequence(mr, d, kind, er) = Collect(mr.of, n.b, n.v, kind, er)
      BY <1>12, <3>2 DEF DeserializeSequence
    <3>5. Came(e, done.pos, Seen(w, r, v)) = Came(d, done.pos, Seen(w, r, v))
      BY <2>4, HeldRecord, CameAgain
    <3> QED
      BY <2>1, <3>3, <3>4, <3>5
  <2> QED
    BY <2>2, <2>3, <2>4 DEF kind
<1>13. CASE mw.header
  <2>1. start = Write(Align(b, 4), 4, 0) /\ a = Patch(done, start.pos - 4, size)
    BY <1>1, <1>13 DEF start
  <2>2. Extends(b, a) /\ a.pos = done.pos /\ b.pos < a.pos
    BY <1>9, <2>1, FrameClosed
  <2>3. ASSUME NEW d, NEW er, Holds(d, b, a) PROVE DeserializeSequence(mr, d, kind, er) = Came(d, a.pos, Seen(w, r, v))
    <3> DEFINE e == Seek(d, start.pos)
               n == Number(d, 4)
               count == Read(e, 4)
               c == Collect(mr.of, count.b, count.v, kind, er)
    <3>1. n = Came(d, start.pos, size) /\ Holds(e, start, done)
      BY <1>3, <1>9, <2>1, <2>3, Framed
    <3>2. n.b = e /\ n.v = size /\ IsBufferRecord(d)
      BY <2>3, <3>1, HeldRecord DEF Came
    <3>3. c = Came(e, done.pos, Seen(w, r, v))
      BY <1>11, <3>1
    <3>4. c = Came(d, done.pos, Seen(w, r, v))
      BY <3>2, <3>3, CameAgain
    <3>5. DeserializeSequence(mr, d, kind, er) = [c EXCEPT !.b = Seek(@, n.b.pos + n.v)]
      BY <1>13, <3>2 DEF DeserializeSequence, Number
    <3> HIDE DEF n, c, e, count
    <3>6. n.b.pos + n.v = done.pos
      <4>1. start.pos \in Nat /\ done.pos \in Nat
        BY <1>8, <1>9, ExtendsFacts
      <4>2. n.b.pos = start.pos
        BY <3>2, SeekFacts DEF e
      <4> QED
        BY <3>2, <4>1, <4>2 DEF size
    <3>7. [c EXCEPT !.b = Seek(@, done.pos)] = [b |-> Seek(Seek(d, done.pos), done.pos), v |-> Seen(w, r, v)]
      BY <3>4 DEF Came
    <3>8. Seek(Seek(d, done.pos), done.pos) = Seek(d, done.pos)
      BY <3>2, CameAgain
    <3> QED
      BY <2>2, <3>5, <3>6, <3>7, <3>8 DEF Came
  <2> QED
    BY <2>2, <2>3 DEF kind
<1> QED
  BY <1>12, <1>13

TakenPair(m, y, kind, enabled) ==
  LET key == Deserialize(m.key, y.b, kind, enabled)
      val == Deserialize(m.val, key.b, kind, enabled)
  IN  [b |-> val.b, v |-> Append(y.v, <<key.v, val.v>>)]

ReadMappingRuns(read, m, b, n, kind, enabled) ==
  /\ read[0] = Got(n, <<>>)
  /\ \A i \in 1 .. n.v : read[i] = TakenPair(m, read[i - 1], kind, enabled)
  /\ DeserializeMapping(m, b, kind, enabled) = read[n.v]

LEMMA ReadMappingSteps ==
  ASSUME NEW m, NEW b, NEW n, n = Number(b, 4), n.v \in Nat, NEW kind, NEW enabled
  PROVE  \E read : ReadMappingRuns(read, m, b, n, kind, enabled)
<1> DEFINE N == Rounds(n.v)
           base == Got(n, <<>>)
           Step(y) == TakenPair(m, y, kind, enabled)
           Runs(f, k) == f = [i \in 0 .. k |-> IF i = 0 THEN base ELSE Step(f[i - 1])]
           T == {k \in Nat : \E f : Runs(f, k)}
           read == CHOOSE f : Runs(f, N)
<1>1. DeserializeMapping(m, b, kind, enabled) = read[N]
  BY DEF DeserializeMapping, TakenPair
<1>2. N = n.v
  BY DEF Rounds
<1> HIDE DEF N, base
<1>3. 0 \in T
  <2> DEFINE g == [i \in 0 .. 0 |-> base]
  <2>1. Runs(g, 0)
    OBVIOUS
  <2> QED
    BY <2>1
<1>4. ASSUME NEW k \in T PROVE k + 1 \in T
  <2>1. PICK f : Runs(f, k)
    OBVIOUS
  <2> DEFINE g == [i \in 0 .. k + 1 |-> IF i <= k THEN f[i] ELSE Step(f[k])]
  <2> HIDE DEF Step
  <2>2. \A i \in 0 .. k : f[i] = IF i = 0 THEN base ELSE Step(f[i - 1])
    BY <2>1
  <2>3. ASSUME NEW i \in 0 .. k + 1 PROVE g[i] = IF i = 0 THEN base ELSE Step(g[i - 1])
    <3>1. CASE i <= k
      <4>1. g[i] = f[i] /\ (i # 0 => g[i - 1] = f[i - 1])
        BY <3>1
      <4> QED
        BY <2>2, <3>1, <4>1
    <3>2. CASE i = k + 1
      BY <3>2
    <3> QED
      BY <3>1, <3>2
  <2>4. g = [i \in 0 .. k + 1 |-> g[i]]
    OBVIOUS
  <2> HIDE DEF g
  <2>5. Runs(g, k + 1)
    BY <2>3, <2>4
  <2>6. k + 1 \in Nat
    OBVIOUS
  <2> HIDE DEF Runs
  <2> QED
    BY <2>5, <2>6
<1>5. T = Nat
  <2>1. T \in SUBSET Nat
    OBVIOUS
  <2> HIDE DEF T
  <2> QED
    BY <1>3, <1>4, <2>1, SetInduction
<1>6. Runs(read, N)
  BY <1>2, <1>5
<1> HIDE DEF read, Step
<1>7. \A i \in 0 .. N : read[i] = IF i = 0 THEN base ELSE Step(read[i - 1])
  BY <1>6
<1>8. read[0] = base /\ \A i \in 1 .. N : read[i] = Step(read[i - 1])
  BY <1>2, <1>7
<1>9. ReadMappingRuns(read, m, b, n, kind, enabled)
  BY <1>1, <1>2, <1>8 DEF base, Step, ReadMappingRuns
<1> QED
  BY <1>9

\* A key and its value, read.
PairRead(mr, d, kind, er, p, key, val) ==
  LET k == Deserialize(mr.key, d, kind, er)
      x == Deserialize(mr.val, k.b, kind, er)
  IN  x.b = Seek(d, p) /\ k.v = key /\ x.v = val

LEMMA BackPair ==
  ASSUME NEW v2, NEW mw, NEW mr, NEW wk, NEW rk, ReadsBack(mw.key, mr.key, wk, rk, v2),
         NEW wv, NEW rv, ReadsBack(mw.val, mr.val, wv, rv, v2),
         NEW k \in ValuesOf[wk], NEW x \in ValuesOf[wv], NEW b, Fit(b, v2), NEW ew,
         NEW mid, mid = Serialize(mw.key, b, k, "DataSample", ew),
         NEW a, a = Serialize(mw.val, mid, x, "DataSample", ew)
  PROVE  /\ Extends(b, a) /\ b.pos < a.pos
         /\ \A d, er : Holds(d, b, a) =>
              PairRead(mr, d, "DataSample", er, a.pos, View(wk, rk, k), View(wv, rv, x))
<1> DEFINE kind == "DataSample"
<1>1. /\ Extends(b, mid) /\ b.pos < mid.pos
      /\ \A d, er : Holds(d, b, mid) => Deserialize(mr.key, d, kind, er) = Came(d, mid.pos, View(wk, rk, k))
  BY WritesBack
<1>2. Fit(mid, v2)
  BY <1>1, FitStays
<1>3. /\ Extends(mid, a) /\ mid.pos < a.pos
      /\ \A d, er : Holds(d, mid, a) => Deserialize(mr.val, d, kind, er) = Came(d, a.pos, View(wv, rv, x))
  BY <1>2, WritesBack
<1> HIDE DEF kind
<1>4. Sound(b) /\ Sound(mid)
  BY <1>2 DEF Fit
<1>5. Extends(b, a)
  BY <1>1, <1>3, <1>4, ExtendsMore
<1>6. b.pos < a.pos
  BY <1>1, <1>3, <1>4, ExtendsFacts
<1>7. ASSUME NEW d, NEW er, Holds(d, b, a) PROVE PairRead(mr, d, kind, er, a.pos, View(wk, rk, k), View(wv, rv, x))
  <2> DEFINE e == Seek(d, mid.pos)
  <2>1. Holds(d, b, mid) /\ Holds(e, mid, a)
    BY <1>1, <1>3, <1>4, <1>7, HoldsParts
  <2>2. Deserialize(mr.key, d, kind, er) = Came(d, mid.pos, View(wk, rk, k))
    BY <1>1, <2>1
  <2>3. Deserialize(mr.val, e, kind, er) = Came(e, a.pos, View(wv, rv, x))
    BY <1>3, <2>1
  <2>4. Seek(e, a.pos) = Seek(d, a.pos)
    BY <1>7, HeldRecord, CameAgain
  <2> QED
    BY <2>2, <2>3, <2>4 DEF PairRead, Came
<1> QED
  BY <1>5, <1>6, <1>7 DEF kind

SeenPairs(wk, rk, wv, rv, s) == [i \in DOMAIN s |-> <<View(wk, rk, s[i][1]), View(wv, rv, s[i][2])>>]

LEMMA BackMapping ==
  ASSUME NEW v2, NEW mw, NEW mr, NEW wk, NEW rk, ReadsBack(mw.key, mr.key, wk, rk, v2),
         NEW wv, NEW rv, ReadsBack(mw.val, mr.val, wv, rv, v2),
         NEW s \in Seq(ValuesOf[wk] \X ValuesOf[wv]), NEW b, Fit(b, v2), NEW ew,
         NEW a, a = SerializeMapping(mw, b, s, "DataSample", ew)
  PROVE  /\ Extends(b, a) /\ b.pos < a.pos
         /\ \A d, er : Holds(d, b, a) =>
              DeserializeMapping(mr, d, "DataSample", er) = Came(d, a.pos, SeenPairs(wk, rk, wv, rv, s))
<1> DEFINE N == Len(s)
           kind == "DataSample"
           four == 4
           base == Write(Align(b, four), four, N)
           f == SeenPairs(wk, rk, wv, rv, s)
           pair(i) == <<View(wk, rk, s[i][1]), View(wv, rv, s[i][2])>>
<1>0. /\ N \in Nat /\ DOMAIN s = 1 .. N /\ four \in Widths /\ four = 4
      /\ \A i \in 1 .. N : s[i][1] \in ValuesOf[wk] /\ s[i][2] \in ValuesOf[wv]
  BY DEF Widths
<1> HIDE DEF kind
<1>1. PICK after : MappingRuns(after, mw, b, s, kind, ew)
  BY <1>0, MappingSteps
<1>2. /\ after[0] = base /\ a = after[N]
      /\ \A i \in 1 .. N :
           after[i] = Serialize(mw.val, Serialize(mw.key, after[i - 1], s[i][1], kind, ew), s[i][2], kind, ew)
  BY <1>1 DEF MappingRuns, kind
<1> HIDE DEF N, four
<1>3. Sound(b)
  BY DEF Fit
<1>4. Extends(b, base) /\ b.pos < base.pos /\ b.pos \in Nat /\ base.pos \in Nat
  <2>1. Extends(b, base) /\ base.pos = Align(b, four).pos + four
    BY <1>0, <1>3, NumberEncoded, EncodedExtends
  <2>2. Align(b, four).pos \in Nat /\ b.pos <= Align(b, four).pos
    BY <1>0, <1>3, AlignedFacts
  <2>3. b.pos \in Nat
    BY <1>3 DEF Sound
  <2> HIDE DEF base
  <2> QED
    BY <1>0, <2>1, <2>2, <2>3
<1> HIDE DEF base
<1>5. ASSUME NEW i \in 1 .. N, Fit(after[i - 1], v2)
      PROVE  /\ Extends(after[i - 1], after[i])
             /\ \A d, er : Holds(d, after[i - 1], after[i]) =>
                  PairRead(mr, d, kind, er, after[i].pos, View(wk, rk, s[i][1]), View(wv, rv, s[i][2]))
  <2> DEFINE k == s[i][1]
             x == s[i][2]
  <2>1. k \in ValuesOf[wk] /\ x \in ValuesOf[wv] /\ after[i] = Serialize(mw.val, Serialize(mw.key, after[i - 1], k, kind, ew), x, kind, ew)
    BY <1>0, <1>2
  <2> HIDE DEF k, x
  <2>2. /\ Extends(after[i - 1], after[i])
        /\ \A d, er : Holds(d, after[i - 1], after[i]) =>
             PairRead(mr, d, kind, er, after[i].pos, View(wk, rk, k), View(wv, rv, x))
    BY <1>5, <2>1, BackPair DEF kind
  <2> QED
    BY <2>2 DEF k, x
<1>6. Fit(after[0], v2) /\ \A i \in 1 .. N : Fit(after[i - 1], v2) => Extends(after[i - 1], after[i])
  BY <1>2, <1>4, <1>5, FitStays
<1>7. \A i \in 0 .. N : Fit(after[i], v2) /\ Extends(after[0], after[i]) /\ Extends(after[i], after[N])
  BY <1>0, <1>6, Chain
<1>8. Extends(base, a)
  BY <1>0, <1>2, <1>7
<1>9. Extends(b, a) /\ b.pos < a.pos
  <2>1. Extends(b, a)
    BY <1>3, <1>4, <1>8, ExtendsMore
  <2>2. base.pos <= a.pos /\ a.pos \in Nat
    BY <1>2, <1>6, <1>8, ExtendsFacts DEF Fit
  <2> QED
    BY <1>4, <2>1, <2>2
<1>10. ASSUME NEW d, NEW er, Holds(d, b, a) PROVE DeserializeMapping(mr, d, kind, er) = Came(d, a.pos, f)
  <2> DEFINE g == Seek(d, base.pos)
             n == Number(d, 4)
  <2>1. Holds(d, b, base) /\ Holds(g, base, a)
    BY <1>3, <1>4, <1>8, <1>10, HoldsParts
  <2>2. n = Came(d, base.pos, N)
    BY <1>0, <1>3, <2>1, ReadNumber DEF base
  <2>3. n.v = N /\ Got(n, <<>>) = Came(d, base.pos, <<>>)
    BY <2>2 DEF Came, Got
  <2>4. \A i \in 1 .. N : Holds(Seek(g, after[i - 1].pos), after[i - 1], after[i])
    BY <1>0, <1>2, <1>6, <2>1, ChainHeld
  <2> HIDE DEF n
  <2>5. PICK read : ReadMappingRuns(read, mr, d, n, kind, er)
    BY <1>0, <2>3, ReadMappingSteps DEF n
  <2>6. /\ read[0] = Came(d, base.pos, <<>>)
        /\ \A i \in 1 .. N : read[i] = TakenPair(mr, read[i - 1], kind, er)
        /\ DeserializeMapping(mr, d, kind, er) = read[N]
    BY <2>3, <2>5 DEF ReadMappingRuns
  <2>7. IsBufferRecord(d) /\ d.pos = b.pos
    BY <1>10, HeldRecord
  <2> DEFINE Sofar(i) == [j \in 1 .. i |-> pair(j)]
             T == {i \in Nat : read[i] = Came(d, after[i].pos, Sofar(i))}
  <2>8. 0 \in T
    <3>1. Sofar(0) = <<>>
      OBVIOUS
    <3> HIDE DEF Sofar
    <3> QED
      BY <1>2, <2>6, <3>1
  <2>9. ASSUME NEW i \in 0 .. N - 1, i \in T PROVE i + 1 \in T
    <3> DEFINE e == Seek(d, after[i].pos)
               k == i + 1
               x == pair(k)
    <3>1. k \in 1 .. N /\ k - 1 = i /\ i \in 0 .. N /\ k \in Nat
      BY <1>0
    <3>2. Append(Sofar(i), x) = Sofar(k)
      <4> HIDE DEF pair
      <4>1. Sofar(i) \in Seq({pair(j) : j \in 1 .. i}) /\ Len(Sofar(i)) = i
        OBVIOUS
      <4>2. \A j \in 1 .. i : Append(Sofar(i), x)[j] = Sofar(k)[j]
        BY <3>1, <4>1
      <4>3. Append(Sofar(i), x)[k] = Sofar(k)[k]
        BY <3>1, <4>1
      <4>4. DOMAIN Append(Sofar(i), x) = 1 .. k /\ DOMAIN Sofar(k) = 1 .. k
        BY <3>1, <4>1
      <4>5. \A j \in 1 .. k : j \in 1 .. i \/ j = k
        BY <3>1
      <4> QED
        BY <4>2, <4>3, <4>4, <4>5
    <3> HIDE DEF Sofar, k
    <3>3. Fit(after[k - 1], v2)
      BY <1>7, <3>1
    <3>4. Holds(e, after[k - 1], after[k])
      <4>1. Holds(Seek(g, after[k - 1].pos), after[k - 1], after[k])
        BY <2>4, <3>1
      <4>2. Seek(g, after[k - 1].pos) = e
        BY <2>7, <3>1, CameAgain
      <4> QED
        BY <4>1, <4>2
    <3> HIDE DEF e
    <3>5. PairRead(mr, e, kind, er, after[k].pos, View(wk, rk, s[k][1]), View(wv, rv, s[k][2]))
      BY <1>5, <3>1, <3>3, <3>4
    <3>6. Seek(e, after[k].pos) = Seek(d, after[k].pos)
      BY <2>7, CameAgain DEF e
    <3>7. read[i].b = e /\ read[i].v = Sofar(i)
      BY <2>9 DEF Came, e
    <3>8. read[k] = TakenPair(mr, read[i], kind, er)
      BY <2>6, <3>1
    <3>9. TakenPair(mr, read[i], kind, er) = [b |-> Seek(d, after[k].pos), v |-> Append(Sofar(i), x)]
      BY <3>5, <3>6, <3>7 DEF TakenPair, PairRead
    <3>10. read[k] = Came(d, after[k].pos, Append(Sofar(i), x))
      BY <3>8, <3>9 DEF Came
    <3> QED
      BY <3>1, <3>2, <3>10 DEF k
  <2>10. Sofar(N) = f
    BY <1>0 DEF SeenPairs
  <2> HIDE DEF Sofar, T, f
  <2>11. 0 .. N \subseteq T
    BY <1>0, <2>8, <2>9, IntervalInduction
  <2>12. read[N] = Came(d, after[N].pos, Sofar(N))
    BY <1>0, <2>11 DEF T
  <2> QED
    BY <1>2, <2>6, <2>10, <2>12
<1> QED
  BY <1>9, <1>10 DEF kind

\* In XCDR1 the reader's origin moves as the writer's one does.
LEMMA OriginFacts ==
  ASSUME NEW b, IsBufferRecord(b), NEW o
  PROVE  /\ IsBufferRecord(SetAlignOffset(b, o)) /\ SetAlignOffset(b, o).pos = b.pos
         /\ SetAlignOffset(b, o).size = b.size /\ SetAlignOffset(b, o).offset = o
         /\ SetAlignOffset(b, o).alignMax = b.alignMax /\ SetAlignOffset(b, o).endian = b.endian
         /\ SetAlignOffset(b, o).error = b.error /\ SetAlignOffset(b, o).cells = b.cells
         /\ \A q : SetAlignOffset(Seek(SetAlignOffset(b, o), q), b.offset) = Seek(b, q)
<1>1. ASSUME NEW q PROVE SetAlignOffset(Seek(SetAlignOffset(b, o), q), b.offset) = Seek(b, q)
  BY DEF SetAlignOffset, Seek, IsBufferRecord
<1> QED
  BY <1>1 DEF SetAlignOffset, IsBufferRecord

LEMMA OriginFit ==
  ASSUME NEW v2, NEW b, Fit(b, v2), NEW o \in Int
  PROVE  Fit(SetAlignOffset(b, o), v2)
<1> DEFINE c == SetAlignOffset(b, o)
<1>1. IsBufferRecord(b)
  BY DEF Fit, Sound
<1>2. /\ IsBufferRecord(c) /\ c.pos = b.pos /\ c.size = b.size /\ c.offset = o
      /\ c.alignMax = b.alignMax /\ c.endian = b.endian /\ c.error = b.error /\ c.cells = b.cells
  BY <1>1, OriginFacts
<1> HIDE DEF c
<1> QED
  BY <1>2 DEF Fit, Sound, c

LEMMA OriginExtends ==
  ASSUME NEW b, Sound(b), NEW o \in Int, NEW r, Extends(SetAlignOffset(b, o), r)
  PROVE  /\ Extends(b, SetAlignOffset(r, b.offset)) /\ SetAlignOffset(r, b.offset).pos = r.pos
         /\ Sound(r) /\ SetAlignOffset(b, o).pos = b.pos
<1> DEFINE c == SetAlignOffset(b, o)
           d == SetAlignOffset(r, b.offset)
<1>1. IsBufferRecord(b) /\ b.offset \in Int
  BY DEF Sound
<1>2. /\ IsBufferRecord(c) /\ c.pos = b.pos /\ c.size = b.size /\ c.offset = o
      /\ c.alignMax = b.alignMax /\ c.endian = b.endian /\ c.error = b.error /\ c.cells = b.cells
  BY <1>1, OriginFacts
<1>3. Wrote(FALSE, c, r) /\ Sound(r) /\ IsBufferRecord(r)
  BY DEF Extends, Wrote, Sound
<1>4. /\ IsBufferRecord(d) /\ d.pos = r.pos /\ d.size = r.size /\ d.offset = b.offset
      /\ d.alignMax = r.alignMax /\ d.endian = r.endian /\ d.error = r.error /\ d.cells = r.cells
  BY <1>3, OriginFacts
<1> HIDE DEF c, d
<1>5. Sound(d)
  BY <1>1, <1>3, <1>4 DEF Sound
<1>6. Wrote(FALSE, b, d)
  BY <1>2, <1>3, <1>4, <1>5 DEF Wrote
<1> QED
  BY <1>2, <1>3, <1>4, <1>6 DEF Extends, c, d

LEMMA OriginHeld ==
  ASSUME NEW b, IsBufferRecord(b), NEW o, NEW r, IsBufferRecord(r), NEW p, NEW d, Holds(d, b, SetAlignOffset(r, p))
  PROVE  Holds(SetAlignOffset(d, o), SetAlignOffset(b, o), r)
<1> DEFINE c == SetAlignOffset(b, o)
           e == SetAlignOffset(d, o)
           s == SetAlignOffset(r, p)
<1>1. /\ IsBufferRecord(c) /\ c.pos = b.pos /\ c.size = b.size /\ c.offset = o
      /\ c.alignMax = b.alignMax /\ c.endian = b.endian /\ c.error = b.error /\ c.cells = b.cells
  BY OriginFacts
<1>2. IsBufferRecord(d)
  BY HeldRecord
<1>3. /\ IsBufferRecord(e) /\ e.pos = d.pos /\ e.size = d.size /\ e.offset = o
      /\ e.alignMax = d.alignMax /\ e.endian = d.endian /\ e.error = d.error /\ e.cells = d.cells
  BY <1>2, OriginFacts
<1>4. s.pos = r.pos /\ s.cells = r.cells
  BY OriginFacts
<1>5. Holds(d, b, s)
  OBVIOUS
<1> HIDE DEF c, e, s
<1> QED
  BY <1>1, <1>3, <1>4, <1>5 DEF Holds, c, e

\* A part that is read with its own origin.
PartRead(mr, d, er, p, x) ==
  LET y == Deserialize(mr, SetAlignOffset(d, d.pos), "DataSample", er)
  IN  SetAlignOffset(y.b, d.offset) = Seek(d, p) /\ y.v = x

LEMMA BackMoved ==
  ASSUME NEW v2, NEW mw, NEW mr, NEW w, NEW r, ReadsBack(mw, mr, w, r, v2), NEW b, Fit(b, v2),
         NEW v \in ValuesOf[w], NEW ew, NEW c, c = Serialize(mw, SetAlignOffset(b, b.pos), v, "DataSample", ew),
         NEW a, a = SetAlignOffset(c, b.offset)
  PROVE  /\ Extends(b, a) /\ b.pos < a.pos
         /\ \A d, er : Holds(d, b, a) => PartRead(mr, d, er, a.pos, View(w, r, v))
<1> DEFINE o == b.pos
           s == SetAlignOffset(b, o)
           kind == "DataSample"
           x == View(w, r, v)
<1>1. Sound(b) /\ o \in Int /\ IsBufferRecord(b)
  BY DEF Fit, Sound
<1>2. Fit(s, v2)
  BY <1>1, OriginFit
<1>3. /\ Extends(s, c) /\ s.pos < c.pos
      /\ \A d, er : Holds(d, s, c) => Deserialize(mr, d, kind, er) = Came(d, c.pos, x)
  BY <1>2, WritesBack
<1> HIDE DEF kind, x
<1>4. Extends(b, a) /\ a.pos = c.pos /\ Sound(c) /\ s.pos = b.pos
  BY <1>1, <1>3, OriginExtends
<1>5. ASSUME NEW d, NEW er, Holds(d, b, a) PROVE PartRead(mr, d, er, a.pos, x)
  <2> DEFINE e == SetAlignOffset(d, o)
             y == Deserialize(mr, e, kind, er)
  <2>1. IsBufferRecord(c)
    BY <1>4 DEF Sound
  <2>2. Holds(e, s, c)
    BY <1>1, <1>5, <2>1, OriginHeld
  <2>3. y = Came(e, c.pos, x)
    BY <1>3, <2>2
  <2>4. y.b = Seek(e, c.pos) /\ y.v = x
    BY <2>3 DEF Came
  <2>5. IsBufferRecord(d) /\ d.pos = o
    BY <1>5, HeldRecord
  <2>6. SetAlignOffset(Seek(e, c.pos), d.offset) = Seek(d, c.pos)
    BY <2>5, OriginFacts
  <2> QED
    BY <1>4, <2>4, <2>5, <2>6 DEF PartRead, kind
<1>6. b.pos < a.pos
  BY <1>3, <1>4
<1> QED
  BY <1>4, <1>5, <1>6 DEF x

Given(x, v) == IF v = None THEN None ELSE x

LEMMA BackOptional2 ==
  ASSUME NEW mw, NEW mr, mw.v2, mr.v2, NEW v2, NEW w, NEW r, ReadsBack(mw.of, mr.of, w, r, v2),
         NEW b, Fit(b, v2), NEW v \in {None} \cup ValuesOf[w], NEW a, a = SerializeOptional(mw, b, v, "DataSample")
  PROVE  /\ Extends(b, a) /\ b.pos < a.pos
         /\ \A d : Holds(d, b, a) => DeserializeOptional(mr, d, "DataSample") = Came(d, a.pos, Given(View(w, r, v), v))
<1> DEFINE kind == "DataSample"
           never == "Never"
           flag == IF v = None THEN 0 ELSE 1
           one == 1
           start == Write(b, one, flag)
           x == View(w, r, v)
<1>1. a = IF v = None THEN start ELSE Serialize(mw.of, start, v, kind, never)
  BY DEF SerializeOptional
<1>2. one \in Widths /\ one = 1 /\ start = Write(b, one, flag)
  BY DEF Widths
<1>3. (flag = 1) <=> (v # None)
  OBVIOUS
<1> HIDE DEF flag, one, never, start
<1>4. /\ Fit(start, v2) /\ Sound(start) /\ Extends(b, start) /\ b.pos < start.pos
      /\ \A d : Holds(d, b, start) => Read(d, one) = Came(d, start.pos, flag)
  BY <1>2, NumberHere
<1>5. Sound(b)
  BY DEF Fit
<1>6. CASE v = None
  <2>1. a = start
    BY <1>1, <1>6
  <2>2. ASSUME NEW d, Holds(d, b, a) PROVE DeserializeOptional(mr, d, kind) = Came(d, a.pos, None)
    <3>1. Read(d, one) = Came(d, start.pos, flag)
      BY <1>4, <2>1, <2>2
    <3>2. DeserializeOptional(mr, d, kind) = Got(Read(d, one), None)
      BY <1>2, <1>3, <1>6, <3>1 DEF DeserializeOptional, Came
    <3> QED
      BY <2>1, <3>1, <3>2 DEF Got, Came
  <2> QED
    BY <1>4, <1>6, <2>1, <2>2 DEF Given
<1>7. CASE v # None
  <2>1. a = Serialize(mw.of, start, v, kind, never) /\ v \in ValuesOf[w]
    BY <1>1, <1>7
  <2>2. /\ Extends(start, a) /\ start.pos < a.pos
        /\ \A d, er : Holds(d, start, a) => Deserialize(mr.of, d, kind, er) = Came(d, a.pos, x)
    <3>1. Fit(start, v2)
      BY <1>4
    <3> QED
      BY <2>1, <3>1, WritesBack
  <2> HIDE DEF x
  <2>3. Extends(b, a)
    BY <1>4, <1>5, <2>2, ExtendsMore
  <2>4. b.pos < a.pos
    BY <1>4, <1>5, <2>2, ExtendsFacts
  <2>5. ASSUME NEW d, Holds(d, b, a) PROVE DeserializeOptional(mr, d, kind) = Came(d, a.pos, x)
    <3> DEFINE e == Seek(d, start.pos)
    <3>1. Holds(d, b, start) /\ Holds(e, start, a)
      BY <1>4, <1>5, <2>2, <2>5, HoldsParts
    <3>2. Read(d, one) = Came(d, start.pos, flag)
      BY <1>4, <3>1
    <3>3. Read(d, one).b = e /\ Read(d, one).v = flag
      BY <3>2 DEF Came
    <3> HIDE DEF e
    <3>4. Deserialize(mr.of, e, kind, never) = Came(e, a.pos, x)
      BY <2>2, <3>1
    <3>5. Came(e, a.pos, x) = Came(d, a.pos, x)
      BY <2>5, HeldRecord, CameAgain DEF e
    <3>6. DeserializeOptional(mr, d, kind) = Deserialize(mr.of, e, kind, never)
      BY <1>2, <1>3, <1>7, <3>3 DEF DeserializeOptional, never
    <3> QED
      BY <3>4, <3>5, <3>6
  <2> QED
    BY <1>7, <2>3, <2>4, <2>5 DEF Given, x
<1> QED
  BY <1>6, <1>7

\* Two fields before a place for a size: what XCDR1 puts in front of a part.
LongHeader(b, id) == Write(Write(Write(Align(b, 4), 2, ExtendedPid), 2, 8), 4, id)

\* What is read of it: p is where it ends.
HeaderRead(d, p, id) ==
  LET pid == Read(Align(d, 4), 2)
      short == Read(pid.b, 2)
      long == Read(short.b, 4)
  IN  pid.v = ExtendedPid /\ short.v = 8 /\ long = Came(d, p, id)

LEMMA BackHeader ==
  ASSUME NEW v2, NEW b, Fit(b, v2), NEW id, NEW h, h = LongHeader(b, id)
  PROVE  /\ Fit(h, v2) /\ Sound(h) /\ Extends(b, h) /\ b.pos < h.pos
         /\ \A d : Holds(d, b, h) => HeaderRead(d, h.pos, id)
<1> DEFINE a == 4
           n == 2
           eight == 8
           aligned == Align(b, a)
           pid == Write(aligned, n, ExtendedPid)
           short == Write(pid, n, eight)
<1>1. a \in Widths /\ n \in Widths /\ a = 4 /\ n = 2 /\ eight = 8 /\ h = Write(short, a, id)
  BY DEF Widths, LongHeader
<1>0. pid = Write(aligned, n, ExtendedPid) /\ short = Write(pid, n, eight)
  OBVIOUS
<1> HIDE DEF a, n, eight
<1>2. Sound(b) /\ b.pos \in Nat
  BY DEF Fit, Sound
<1>3. Extends(b, aligned) /\ Fit(aligned, v2)
  <2>1. Extends(b, aligned)
    BY <1>1, <1>2, AlignWrote DEF Extends
  <2> QED
    BY <2>1, FitStays
<1>4. Sound(aligned)
  BY <1>3 DEF Fit
<1> HIDE DEF pid, short
<1>5. /\ Fit(pid, v2) /\ Sound(pid) /\ Extends(aligned, pid) /\ aligned.pos < pid.pos
      /\ \A d : Holds(d, aligned, pid) => Read(d, n) = Came(d, pid.pos, ExtendedPid)
  BY <1>0, <1>1, <1>3, NumberHere
<1>6. /\ Fit(short, v2) /\ Sound(short) /\ Extends(pid, short) /\ pid.pos < short.pos
      /\ \A d : Holds(d, pid, short) => Read(d, n) = Came(d, short.pos, eight)
  BY <1>0, <1>1, <1>5, NumberHere
<1>7. /\ Fit(h, v2) /\ Sound(h) /\ Extends(short, h) /\ short.pos < h.pos
      /\ \A d : Holds(d, short, h) => Read(d, a) = Came(d, h.pos, id)
  BY <1>1, <1>6, NumberHere
<1>8. Extends(pid, h)
  BY <1>5, <1>6, <1>7, ExtendsMore
<1>9. Extends(aligned, h)
  BY <1>4, <1>5, <1>8, ExtendsMore
<1>10. Extends(b, h)
  BY <1>2, <1>3, <1>9, ExtendsMore
<1>11. b.pos < h.pos
  BY <1>2, <1>3, <1>4, <1>5, <1>8, ExtendsFacts
<1>12. ASSUME NEW d, Holds(d, b, h) PROVE HeaderRead(d, h.pos, id)
  <2> DEFINE e == Seek(d, aligned.pos)
             f == Seek(d, pid.pos)
             g == Seek(d, short.pos)
  <2>1. IsBufferRecord(d)
    BY <1>12, HeldRecord
  <2>2. Align(d, a) = e /\ Holds(e, aligned, h)
    BY <1>1, <1>2, <1>9, <1>12, AlignHeld
  <2>3. Holds(e, aligned, pid) /\ Holds(Seek(e, pid.pos), pid, h)
    BY <1>4, <1>5, <1>8, <2>2, HoldsParts
  <2>4. Seek(e, pid.pos) = f /\ Came(e, pid.pos, ExtendedPid) = Came(d, pid.pos, ExtendedPid)
    BY <2>1, CameAgain
  <2>5. Holds(f, pid, short) /\ Holds(Seek(f, short.pos), short, h)
    BY <1>5, <1>6, <1>7, <2>3, <2>4, HoldsParts
  <2>6. Seek(f, short.pos) = g /\ Came(f, short.pos, eight) = Came(d, short.pos, eight)
    BY <2>1, CameAgain
  <2>7. Came(g, h.pos, id) = Came(d, h.pos, id)
    BY <2>1, CameAgain
  <2> HIDE DEF e, f, g
  <2>8. Read(e, n) = Came(d, pid.pos, ExtendedPid)
    BY <1>5, <2>3, <2>4
  <2>9. Read(f, n) = Came(d, short.pos, eight)
    BY <1>6, <2>5, <2>6
  <2>10. Read(g, a) = Came(d, h.pos, id)
    BY <1>7, <2>5, <2>6, <2>7
  <2>11. Read(e, n).b = f /\ Read(e, n).v = ExtendedPid /\ Read(f, n).b = g /\ Read(f, n).v = eight
    BY <2>8, <2>9 DEF Came, f, g
  <2> QED
    BY <1>1, <2>2, <2>10, <2>11 DEF HeaderRead
<1> QED
  BY <1>7, <1>10, <1>11, <1>12

LEMMA BackOptional1 ==
  ASSUME NEW mw, NEW mr, ~mw.v2, ~mr.v2, NEW v2, NEW w, NEW r, ReadsBack(mw.of, mr.of, w, r, v2),
         NEW b, Fit(b, v2), NEW v \in {None} \cup ValuesOf[w], NEW a, a = SerializeOptional(mw, b, v, "DataSample")
  PROVE  /\ Extends(b, a) /\ b.pos < a.pos
         /\ \A d : Holds(d, b, a) => DeserializeOptional(mr, d, "DataSample") = Came(d, a.pos, Given(View(w, r, v), v))
<1> DEFINE kind == "DataSample"
           never == "Never"
           z == 0
           four == 4
           x == View(w, r, v)
           h == LongHeader(b, mw.id)
           start == Write(h, four, z)
           c == Serialize(mw.of, SetAlignOffset(start, start.pos), v, kind, never)
           done == SetAlignOffset(c, start.offset)
           size == done.pos - start.pos
           sent == IF v = None THEN z ELSE size
<1>1. a = IF v = None THEN start ELSE Patch(done, h.pos, size)
  BY DEF SerializeOptional, LongHeader
<1>2. four \in Widths /\ four = 4 /\ start = Write(h, four, z) /\ z = 0
  BY DEF Widths
<1>3. c = Serialize(mw.of, SetAlignOffset(start, start.pos), v, kind, never) /\ done = SetAlignOffset(c, start.offset)
  OBVIOUS
<1>4. h = LongHeader(b, mw.id)
  OBVIOUS
<1> HIDE DEF four, z, never, h, start, c, done
<1>5. /\ Fit(h, v2) /\ Sound(h) /\ Extends(b, h) /\ b.pos < h.pos
      /\ \A d : Holds(d, b, h) => HeaderRead(d, h.pos, mw.id)
  BY <1>4, BackHeader
<1>6. /\ Fit(start, v2) /\ Sound(start) /\ Extends(h, start) /\ h.pos < start.pos /\ start.pos = h.pos + four
      /\ \A d : Holds(d, h, start) => Read(d, four) = Came(d, start.pos, z)
  BY <1>2, <1>5, NumberHere
<1>7. v # None => /\ Extends(start, done) /\ start.pos < done.pos
                  /\ \A d, er : Holds(d, start, done) => PartRead(mr.of, d, er, done.pos, x)
  <2> SUFFICES ASSUME v # None
               PROVE  /\ Extends(start, done) /\ start.pos < done.pos
                      /\ \A d, er : Holds(d, start, done) => PartRead(mr.of, d, er, done.pos, x)
    OBVIOUS
  <2>1. v \in ValuesOf[w]
    OBVIOUS
  <2>2. Fit(start, v2)
    BY <1>6
  <2> QED
    BY <1>3, <2>1, <2>2, BackMoved DEF kind
<1> HIDE DEF kind, x
<1>8. /\ Extends(h, a) /\ h.pos < a.pos
      /\ v # None => a.pos = done.pos
  <2>1. CASE v = None
    BY <1>1, <1>6, <2>1
  <2>2. CASE v # None
    <3>1. a = Patch(done, h.pos, size)
      BY <1>1, <2>2
    <3>2. h.pos \in Nat /\ start.pos \in Nat /\ done.pos \in Nat /\ start.pos < done.pos
      BY <1>5, <1>6, <1>7, <2>2, ExtendsFacts DEF Sound
    <3>3. Extends(h, done)
      BY <1>5, <1>6, <1>7, <2>2, ExtendsMore
    <3>4. h.pos <= h.pos /\ h.pos + 4 <= done.pos
      BY <1>2, <1>6, <3>2
    <3> DEFINE no == FALSE
    <3>6. ~no /\ Wrote(no, h, done) /\ (\A e : Wrote(no, h, e) => Extends(h, e))
      BY <3>3 DEF Extends
    <3> HIDE DEF size, no
    <3>7. no /\ Regular(h) => OnGrid(h.pos, h.offset, 4)
      BY <3>6
    <3>8. Wrote(no, h, a) /\ a.pos = done.pos
      BY <1>5, <3>1, <3>2, <3>4, <3>6, <3>7, PatchEncoded
    <3>5. Extends(h, a) /\ a.pos = done.pos
      BY <3>6, <3>8
    <3> QED
      BY <1>6, <3>2, <3>5
  <2> QED
    BY <2>1, <2>2
<1>9. Sound(b)
  BY DEF Fit
<1>10. Extends(b, a)
  BY <1>5, <1>8, <1>9, ExtendsMore
<1>11. b.pos < a.pos
  BY <1>5, <1>8, <1>9, ExtendsFacts
\* The size behind the header.
<1>12. ASSUME NEW e, Holds(e, h, a)
       PROVE  /\ Read(e, 4) = Came(e, start.pos, sent)
              /\ v # None => Holds(Seek(e, start.pos), start, done)
  <2>1. CASE v = None
    BY <1>1, <1>2, <1>6, <1>12, <2>1
  <2>2. CASE v # None
    <3>1. a = Patch(done, h.pos, size) /\ start = Write(h, 4, 0)
      BY <1>1, <1>2, <2>2
    <3> HIDE DEF size
    <3> QED
      BY <1>5, <1>7, <1>12, <2>2, <3>1, Patched
  <2> QED
    BY <2>1, <2>2
<1>13. sent = 0 <=> v = None
  <2>1. v # None => start.pos \in Nat /\ done.pos \in Nat /\ start.pos < done.pos
    BY <1>6, <1>7, ExtendsFacts
  <2> QED
    BY <1>2, <2>1
<1> HIDE DEF sent, size
<1>14. ASSUME NEW d, Holds(d, b, a) PROVE DeserializeOptional(mr, d, kind) = Came(d, a.pos, Given(x, v))
  <2> DEFINE e == Seek(d, h.pos)
             f == Seek(d, start.pos)
             pid == Read(Align(d, 4), 2)
             short == Read(pid.b, 2)
             y == Deserialize(mr.of, SetAlignOffset(f, f.pos), kind, never)
  <2>1. IsBufferRecord(d)
    BY <1>14, HeldRecord
  <2>2. Holds(d, b, h) /\ Holds(e, h, a)
    BY <1>5, <1>8, <1>9, <1>14, HoldsParts
  <2>3. pid.v = ExtendedPid /\ Read(short.b, 4) = Came(d, h.pos, mw.id)
    BY <1>5, <2>2 DEF HeaderRead
  <2>4. Read(short.b, 4).b = e
    BY <2>3 DEF Came
  <2>5. Read(e, 4) = Came(e, start.pos, sent) /\ (v # None => Holds(Seek(e, start.pos), start, done))
    BY <1>12, <2>2
  <2>6. Came(e, start.pos, sent) = Came(d, start.pos, sent) /\ Seek(e, start.pos) = f
    BY <2>1, CameAgain
  <2> HIDE DEF e
  <2>7. Read(e, 4).b = f /\ Read(e, 4).v = sent
    BY <2>5, <2>6 DEF Came
  <2>8. DeserializeOptional(mr, d, kind)
          = IF Read(e, 4).v = 0 THEN Got(Read(e, 4), None)
            ELSE [b |-> SetAlignOffset(y.b, f.offset), v |-> y.v]
    BY <2>3, <2>4, <2>7 DEF DeserializeOptional, never
  <2> HIDE DEF pid, short
  <2>9. CASE v = None
    <3>1. DeserializeOptional(mr, d, kind) = Got(Read(e, 4), None)
      BY <1>13, <2>7, <2>8, <2>9
    <3>2. a = start
      BY <1>1, <2>9
    <3> QED
      BY <2>5, <2>6, <2>9, <3>1, <3>2 DEF Got, Came, Given
  <2>10. CASE v # None
    <3>1. DeserializeOptional(mr, d, kind) = [b |-> SetAlignOffset(y.b, f.offset), v |-> y.v]
      BY <1>13, <2>7, <2>8, <2>10
    <3>2. PartRead(mr.of, f, never, done.pos, x)
      BY <1>7, <2>5, <2>6, <2>10
    <3>3. SetAlignOffset(y.b, f.offset) = Seek(f, done.pos) /\ y.v = x
      BY <3>2 DEF PartRead, kind
    <3>4. Seek(f, done.pos) = Seek(d, done.pos)
      BY <2>1, CameAgain
    <3>5. a.pos = done.pos
      BY <1>8, <2>10
    <3> QED
      BY <2>10, <3>1, <3>3, <3>4, <3>5 DEF Came, Given
  <2> QED
    BY <2>9, <2>10
<1> QED
  BY <1>10, <1>11, <1>14 DEF kind, x

(***************************************************************************)
(* Unions, read.                                                           *)
(***************************************************************************)
\* The machine of what a union holds, None if it holds nothing.
Content(m, d) == IF d \in DOMAIN m.cases THEN m.cases[d] ELSE m.default

\* Machines of two versions of a union.
UnionsAlike(mw, mr, w, r, v2) ==
  /\ ReadsBack(mw.disc, mr.disc, w.disc, r.disc, v2)
  /\ DOMAIN mw.cases = DOMAIN w.cases /\ DOMAIN mr.cases = DOMAIN w.cases
  /\ mw.defaultDisc = w.defaultDisc /\ mr.defaultDisc = w.defaultDisc
  /\ {None, w.defaultDisc} \cap DOMAIN w.cases = {}
  /\ \A label \in DOMAIN w.cases :
       /\ mw.cases[label] # None /\ mr.cases[label] # None
       /\ ReadsBack(mw.cases[label], mr.cases[label], w.cases[label], r.cases[label], v2)
  /\ mw.default = None <=> w.default = None
  /\ mr.default = None <=> w.default = None
  /\ w.default # None => ReadsBack(mw.default, mr.default, w.default, r.default, v2)

UnionValue(w, r, u) ==
  /\ LabelOf(w, u) \in ValuesOf[w.disc]
  /\ View(w.disc, r.disc, LabelOf(w, u)) = LabelOf(w, u)
  /\ u.d \in DOMAIN w.cases => u.v \in ValuesOf[w.cases[u.d]]
  /\ u.d \notin DOMAIN w.cases /\ w.default # None => u.v \in ValuesOf[w.default]

LEMMA ContentFacts ==
  ASSUME NEW mw, NEW mr, NEW w, NEW r, NEW v2, UnionsAlike(mw, mr, w, r, v2), NEW u, UnionValue(w, r, u)
  PROVE  /\ Label(mw, u) = LabelOf(w, u)
         /\ Content(mr, LabelOf(w, u)) = Content(mr, u.d)
         /\ LabelOf(w, u) \in DOMAIN mr.cases <=> u.d \in DOMAIN w.cases
         /\ Content(mw, u.d) = None <=> Content(mr, u.d) = None
         /\ Content(mw, u.d) = None => UnionView(w, r, u) = None /\ u.d \notin DOMAIN w.cases /\ w.default = None
         /\ Content(mw, u.d) # None =>
              \E tw, tr : /\ ReadsBack(Content(mw, u.d), Content(mr, u.d), tw, tr, v2)
                          /\ u.v \in ValuesOf[tw] /\ UnionView(w, r, u) = View(tw, tr, u.v)
<1>1. Label(mw, u) = LabelOf(w, u)
  BY DEF Label, LabelOf, UnionsAlike
<1>2. LabelOf(w, u) \in DOMAIN w.cases <=> u.d \in DOMAIN w.cases
  BY DEF LabelOf, UnionsAlike
<1>3. u.d \in DOMAIN w.cases => LabelOf(w, u) = u.d
  BY DEF LabelOf, UnionsAlike
<1>4. Content(mr, LabelOf(w, u)) = Content(mr, u.d)
  BY <1>2, <1>3 DEF Content, UnionsAlike
<1>5. CASE u.d \in DOMAIN w.cases
  <2>1. Content(mw, u.d) = mw.cases[u.d] /\ Content(mr, u.d) = mr.cases[u.d]
    BY <1>5 DEF Content, UnionsAlike
  <2>2. UnionView(w, r, u) = View(w.cases[u.d], r.cases[u.d], u.v)
    BY <1>5 DEF UnionView
  <2> QED
    BY <1>1, <1>2, <1>4, <1>5, <2>1, <2>2 DEF UnionsAlike, UnionValue
<1>6. CASE u.d \notin DOMAIN w.cases
  <2>1. Content(mw, u.d) = mw.default /\ Content(mr, u.d) = mr.default
    BY <1>6 DEF Content, UnionsAlike
  <2>2. UnionView(w, r, u) = IF w.default # None THEN View(w.default, r.default, u.v) ELSE None
    BY <1>6 DEF UnionView
  <2> QED
    BY <1>1, <1>2, <1>4, <1>6, <2>1, <2>2 DEF UnionsAlike, UnionValue
<1> QED
  BY <1>5, <1>6

\* The label and what it announces.
UnionSeen(w, r, u) == [d |-> LabelOf(w, u), v |-> UnionView(w, r, u)]

LabelRead(mr, d, er, p, label) == Deserialize(mr.disc, d, "DataSample", er) = Came(d, p, label)

LEMMA BackContent ==
  ASSUME NEW mw, NEW mr, NEW w, NEW r, NEW v2, UnionsAlike(mw, mr, w, r, v2), NEW u, UnionValue(w, r, u),
         NEW b, Fit(b, v2), NEW ew, NEW inside,
         NEW mid, mid = Serialize(mw.disc, b, LabelOf(w, u), "DataSample", ew),
         NEW a, a = SerializeUnion(mw, b, u, "DataSample", ew, inside)
  PROVE  /\ Extends(b, mid) /\ b.pos < mid.pos /\ Extends(mid, a) /\ Sound(mid)
         /\ \A d, er : Holds(d, b, mid) => LabelRead(mr, d, er, mid.pos, LabelOf(w, u))
         /\ Content(mw, u.d) = None => a = mid
         /\ Content(mw, u.d) # None =>
              /\ mid.pos < a.pos
              /\ \A d, er : Holds(d, mid, a) =>
                   Deserialize(Content(mr, u.d), d, "DataSample", er) = Came(d, a.pos, UnionView(w, r, u))
<1> DEFINE kind == "DataSample"
           l == LabelOf(w, u)
           cw == Content(mw, u.d)
           cr == Content(mr, u.d)
           x == UnionView(w, r, u)
<1>1. ReadsBack(mw.disc, mr.disc, w.disc, r.disc, v2) /\ l \in ValuesOf[w.disc] /\ View(w.disc, r.disc, l) = l
  BY DEF UnionsAlike, UnionValue
<1>2. /\ Label(mw, u) = l
      /\ cw = None => u.d \notin DOMAIN w.cases /\ w.default = None
      /\ cw # None => \E tw, tr : ReadsBack(cw, cr, tw, tr, v2) /\ u.v \in ValuesOf[tw] /\ x = View(tw, tr, u.v)
  BY ContentFacts
<1> HIDE DEF l
<1>3. /\ Extends(b, mid) /\ b.pos < mid.pos
      /\ \A d, er : Holds(d, b, mid) => Deserialize(mr.disc, d, "DataSample", er) = Came(d, mid.pos, l)
  <2>1. mid = Serialize(mw.disc, b, l, "DataSample", ew)
    BY DEF l
  <2> QED
    BY <1>1, <2>1, WritesBack
<1>4. Fit(mid, v2)
  BY <1>3, FitStays
<1>5. Sound(mid)
  BY <1>4 DEF Fit
<1>6. \A d, er : Holds(d, b, mid) => LabelRead(mr, d, er, mid.pos, l)
  BY <1>3 DEF LabelRead
<1>7. a = IF cw = None THEN mid ELSE Serialize(cw, mid, u.v, kind, inside)
  <2>1. DOMAIN mw.cases = DOMAIN w.cases /\ (mw.default = None <=> w.default = None)
        /\ \A label \in DOMAIN w.cases : mw.cases[label] # None
    BY DEF UnionsAlike
  <2>2. mid = Serialize(mw.disc, b, Label(mw, u), "DataSample", ew)
    BY <1>2 DEF l
  <2> QED
    BY <2>1, <2>2 DEF SerializeUnion, Content
<1> HIDE DEF cw, cr, x
<1>8. CASE cw = None
  <2>1. a = mid
    BY <1>7, <1>8
  <2>2. Extends(mid, mid)
    BY <1>5, WroteNothing DEF Extends, Encoded
  <2> QED
    BY <1>3, <1>5, <1>6, <1>8, <2>1, <2>2 DEF cw, l
<1>9. CASE cw # None
  <2>1. PICK tw, tr : ReadsBack(cw, cr, tw, tr, v2) /\ u.v \in ValuesOf[tw] /\ x = View(tw, tr, u.v)
    BY <1>2, <1>9
  <2>2. a = Serialize(cw, mid, u.v, "DataSample", inside)
    BY <1>7, <1>9
  <2>3. /\ Extends(mid, a) /\ mid.pos < a.pos
        /\ \A d, er : Holds(d, mid, a) => Deserialize(cr, d, "DataSample", er) = Came(d, a.pos, x)
    BY <1>4, <2>1, <2>2, WritesBack
  <2> QED
    BY <1>3, <1>5, <1>6, <1>9, <2>3 DEF cw, cr, x, l
<1> QED
  BY <1>8, <1>9

LEMMA BackUnion ==
  ASSUME NEW mw, NEW mr, NEW w, NEW r, NEW v2, UnionsAlike(mw, mr, w, r, v2), NEW u, UnionValue(w, r, u),
         NEW b, Fit(b, v2), NEW ew, NEW inside, NEW a, a = SerializeUnion(mw, b, u, "DataSample", ew, inside)
  PROVE  /\ Extends(b, a) /\ b.pos < a.pos
         /\ \A d, er : Holds(d, b, a) => DeserializeUnion(mr, d, "DataSample", er) = Came(d, a.pos, UnionSeen(w, r, u))
<1> DEFINE kind == "DataSample"
           l == LabelOf(w, u)
           cw == Content(mw, u.d)
           cr == Content(mr, u.d)
           x == UnionView(w, r, u)
           mid == Serialize(mw.disc, b, l, kind, ew)
<1>0. mid = Serialize(mw.disc, b, LabelOf(w, u), "DataSample", ew)
  OBVIOUS
<1> HIDE DEF mid
<1>1. /\ Extends(b, mid) /\ b.pos < mid.pos /\ Extends(mid, a) /\ Sound(mid)
      /\ \A d, er : Holds(d, b, mid) => LabelRead(mr, d, er, mid.pos, LabelOf(w, u))
      /\ Content(mw, u.d) = None => a = mid
      /\ Content(mw, u.d) # None =>
           /\ mid.pos < a.pos
           /\ \A d, er : Holds(d, mid, a) =>
                Deserialize(Content(mr, u.d), d, "DataSample", er) = Came(d, a.pos, UnionView(w, r, u))
  BY <1>0, BackContent
<1>2. /\ Content(mr, l) = cr
      /\ cw = None <=> cr = None
      /\ cw = None => x = None
  BY ContentFacts
<1>3. Sound(b)
  BY DEF Fit
<1>4. Extends(b, a)
  BY <1>1, <1>3, ExtendsMore
<1>5. b.pos < a.pos
  BY <1>1, <1>3, ExtendsFacts
<1> HIDE DEF l, cw, cr, x
<1>6. ASSUME NEW d, NEW er, Holds(d, b, a) PROVE DeserializeUnion(mr, d, kind, er) = Came(d, a.pos, [d |-> l, v |-> x])
  <2> DEFINE e == Seek(d, mid.pos)
             label == Deserialize(mr.disc, d, kind, er)
             y == Deserialize(cr, e, kind, "Never")
  <2>1. Holds(d, b, mid) /\ Holds(e, mid, a)
    BY <1>1, <1>3, <1>6, HoldsParts
  <2>2. label = Came(d, mid.pos, l)
    BY <1>1, <2>1 DEF LabelRead, l
  <2>3. label.b = e /\ label.v = l
    BY <2>2 DEF Came
  <2>4. DeserializeUnion(mr, d, kind, er)
          = IF cr = None THEN Got(label, [d |-> l, v |-> None]) ELSE Got(y, [d |-> l, v |-> y.v])
    BY <1>2, <2>3 DEF DeserializeUnion, Content
  <2>5. CASE cr = None
    <3>1. a = mid /\ x = None
      BY <1>1, <1>2, <2>5 DEF cw
    <3> HIDE DEF label, y, e
    <3> QED
      BY <2>2, <2>4, <2>5, <3>1 DEF Got, Came
  <2>6. CASE cr # None
    <3>1. y = Came(e, a.pos, x)
      BY <1>1, <1>2, <2>1, <2>6 DEF cr, cw, x
    <3>2. Came(e, a.pos, x) = Came(d, a.pos, x)
      BY <1>6, HeldRecord, CameAgain
    <3> HIDE DEF label, y, e
    <3> QED
      BY <2>4, <2>6, <3>1, <3>2 DEF Got, Came
  <2> QED
    BY <2>5, <2>6
<1> QED
  BY <1>4, <1>5, <1>6 DEF UnionSeen, l, x

\* The reader of an appendable union takes an end behind its label for a union
\* it knows nothing of.
LEMMA BackDelimitedUnion ==
  ASSUME Recursion,
         NEW mw, NEW mr, NEW w, NEW r, NEW v2, UnionsAlike(mw, mr, w, r, v2), NEW u, UnionValue(w, r, u),
         mr.m = "DelimitedUnion", w.default = None => LabelOf(w, u) \in DOMAIN w.cases \cup {w.defaultDisc},
         NEW b, Fit(b, v2), NEW a, a = SerializeDelimitedUnion(mw, b, u, "DataSample")
  PROVE  /\ Extends(b, a) /\ b.pos < a.pos
         /\ \A d : Holds(d, b, a) => DeserializeDelimitedUnion(mr, d, "DataSample") = Came(d, a.pos, UnionSeen(w, r, u))
<1> DEFINE kind == "DataSample"
           keys == "InKeylist"
           l == LabelOf(w, u)
           cw == Content(mw, u.d)
           cr == Content(mr, u.d)
           x == UnionView(w, r, u)
           start == Write(Align(b, 4), 4, 0)
           mid == Serialize(mw.disc, start, l, kind, keys)
           done == SerializeUnion(mw, start, u, kind, keys, keys)
           size == done.pos - start.pos
<1>0. /\ start = Write(Align(b, 4), 4, 0)
      /\ mid = Serialize(mw.disc, start, LabelOf(w, u), "DataSample", keys)
      /\ done = SerializeUnion(mw, start, u, "DataSample", keys, keys)
      /\ a = Patch(done, start.pos - 4, size)
  BY DEF SerializeDelimitedUnion
<1>s. size = done.pos - start.pos
  OBVIOUS
<1> HIDE DEF start, mid, done, keys, size
<1>1. Fit(start, v2) /\ Sound(b) /\ Extends(b, start) /\ b.pos < start.pos
  BY <1>0, FrameOpened
<1>2. /\ Extends(start, mid) /\ start.pos < mid.pos /\ Extends(mid, done) /\ Sound(mid)
      /\ \A d, er : Holds(d, start, mid) => LabelRead(mr, d, er, mid.pos, LabelOf(w, u))
      /\ Content(mw, u.d) = None => done = mid
      /\ Content(mw, u.d) # None =>
           /\ mid.pos < done.pos
           /\ \A d, er : Holds(d, mid, done) =>
                Deserialize(Content(mr, u.d), d, "DataSample", er) = Came(d, done.pos, UnionView(w, r, u))
  BY <1>0, <1>1, BackContent
<1>3. Sound(start)
  BY <1>1 DEF Fit
<1>4. Extends(start, done)
  BY <1>2, <1>3, ExtendsMore
<1>5. Extends(b, a) /\ a.pos = done.pos /\ b.pos < a.pos
  BY <1>0, <1>4, FrameClosed
<1>6. /\ Content(mr, l) = cr
      /\ l \in DOMAIN mr.cases <=> u.d \in DOMAIN w.cases
      /\ cw = None <=> cr = None
      /\ cw = None => x = None /\ u.d \notin DOMAIN w.cases /\ w.default = None
  BY ContentFacts
<1>7. DOMAIN mr.cases = DOMAIN w.cases /\ mr.defaultDisc = w.defaultDisc /\ (mr.default = None <=> w.default = None)
  BY DEF UnionsAlike
<1>8. start.pos \in Nat /\ mid.pos \in Nat /\ done.pos \in Nat
  BY <1>2, <1>3, <1>4, ExtendsFacts
<1> HIDE DEF l, cw, cr, x
<1>9. ASSUME NEW d, Holds(d, b, a) PROVE DeserializeDelimitedUnion(mr, d, kind) = Came(d, a.pos, [d |-> l, v |-> x])
  <2> DEFINE c == Seek(d, start.pos)
             e == Seek(d, mid.pos)
             f == Seek(d, done.pos)
             label == Deserialize(mr.disc, c, kind, keys)
             y == Deserialize(cr, e, kind, keys)
  <2>1. IsBufferRecord(d)
    BY <1>9, HeldRecord
  <2>2. Number(d, 4) = Came(d, start.pos, size) /\ Holds(c, start, done)
    BY <1>0, <1>1, <1>4, <1>9, Framed
  <2>3. Number(d, 4).b = c /\ Number(d, 4).v = size
    BY <2>2 DEF Came
  <2>4. Holds(c, start, mid) /\ Holds(Seek(c, mid.pos), mid, done)
    BY <1>2, <1>3, <2>2, HoldsParts
  <2>5. Seek(c, mid.pos) = e /\ Came(c, mid.pos, l) = Came(d, mid.pos, l)
    BY <2>1, CameAgain
  <2>6. label = Came(d, mid.pos, l)
    BY <1>2, <2>4, <2>5 DEF LabelRead, l
  <2>7. label.b = e /\ label.v = l
    BY <2>6 DEF Came
  <2>8. c.pos = start.pos /\ e.pos = mid.pos /\ Seek(e, done.pos) = f
    BY <2>1, SeekFacts
  <2>9. c.pos + size = done.pos
    BY <1>s, <1>8, <2>8
  <2> HIDE DEF c, e, f, label
  <2>10. CASE cr = None
    <3>1. mid = done /\ x = None /\ l \notin DOMAIN mr.cases /\ w.default = None
      BY <1>2, <1>6, <2>10 DEF cw
    <3>2. label.b.pos = c.pos + size
      BY <2>7, <2>8, <2>9, <3>1
    <3>3. DeserializeDelimitedUnion(mr, d, kind) = Got(label, DefaultOf(mr))
      BY <2>3, <2>7, <3>1, <3>2 DEF DeserializeDelimitedUnion, label, keys
    <3>4. DefaultOf(mr) = [d |-> mr.defaultDisc, v |-> None]
      BY <1>7, <3>1 DEF Recursion, DefaultValue, DefaultUnion
    <3>5. l = mr.defaultDisc
      BY <1>7, <3>1 DEF l
    <3> QED
      BY <1>5, <2>6, <3>1, <3>3, <3>4, <3>5 DEF Got, Came
  <2>11. CASE cr # None
    <3>1. mid.pos < done.pos /\ y = Came(e, done.pos, x)
      BY <1>2, <1>6, <2>4, <2>5, <2>11 DEF cr, cw, x
    <3>2. label.b.pos # c.pos + size
      BY <1>8, <2>7, <2>8, <2>9, <3>1
    <3>3. Content(mr, label.v) = cr
      BY <1>6, <2>7
    <3>4. DeserializeDelimitedUnion(mr, d, kind) = [b |-> Seek(y.b, c.pos + size), v |-> [d |-> label.v, v |-> y.v]]
      <4>1. Content(mr, label.v) # None
        BY <2>11, <3>3
      <4> QED
        BY <2>3, <2>7, <3>2, <3>3, <4>1 DEF DeserializeDelimitedUnion, Content, label, keys
    <3> HIDE DEF y
    <3>5. y.b = Seek(e, done.pos) /\ y.v = x
      BY <3>1 DEF Came
    <3>6. Seek(f, done.pos) = f
      BY <2>1, SeekFacts DEF f
    <3> QED
      BY <1>5, <2>7, <2>8, <2>9, <3>4, <3>5, <3>6 DEF Came, f
  <2> QED
    BY <2>10, <2>11
<1> QED
  BY <1>5, <1>9 DEF UnionSeen, l, x

(***************************************************************************)
(* Structs whose members follow each other, read.                          *)
(***************************************************************************)
\* Members with names and ids of their own.
Distinct(s) ==
  /\ Len(s) \in Nat /\ DOMAIN s = 1 .. Len(s)
  /\ \A i, j \in 1 .. Len(s) : i # j => s[i].name # s[j].name /\ s[i].id # s[j].id

\* Machines of two versions of a struct: those of an appendable one need not
\* have as many members.
StructsAlike(mw, mr, w, r, v2) ==
  /\ Distinct(w.members) /\ Distinct(r.members)
  /\ Len(mw.members) = Len(w.members) /\ Len(mr.members) = Len(r.members)
  /\ \A i \in 1 .. Len(w.members) :
       /\ mw.members[i].name = w.members[i].name
       /\ Encodes(mw.members[i].machine, ValuesOf[w.members[i].type], v2)
  /\ \A i \in 1 .. Len(r.members) :
       /\ mr.members[i].name = r.members[i].name
       /\ DefaultOf(mr.members[i].machine) = Zero(r.members[i].type)
  /\ \A i \in 1 .. Len(w.members) : i <= Len(r.members) =>
       /\ w.members[i].id = r.members[i].id
       /\ ReadsBack(mw.members[i].machine, mr.members[i].machine, w.members[i].type, r.members[i].type, v2)

StructValue(w, v) == \A i \in 1 .. Len(w.members) : v[w.members[i].name] \in ValuesOf[w.members[i].type]

LEMMA MemberSeen ==
  ASSUME NEW mw, NEW mr, NEW w, NEW r, NEW v2, StructsAlike(mw, mr, w, r, v2), NEW v
  PROVE  /\ \A i \in 1 .. Len(r.members) : MemberNamed(r, r.members[i].name) = r.members[i]
         /\ \A i \in 1 .. Len(r.members) : i <= Len(w.members) =>
              MemberView(w, r.members[i], v) = View(w.members[i].type, r.members[i].type, v[w.members[i].name])
         /\ \A i \in 1 .. Len(r.members) : ~(i <= Len(w.members)) =>
              MemberView(w, r.members[i], v) = Zero(r.members[i].type)
<1> DEFINE s == w.members
           q == r.members
           N == Len(s)
           K == Len(q)
<1>1. /\ N \in Nat /\ K \in Nat /\ DOMAIN s = 1 .. N /\ DOMAIN q = 1 .. K
      /\ \A i, j \in 1 .. N : i # j => s[i].id # s[j].id
      /\ \A i, j \in 1 .. K : i # j => q[i].name # q[j].name /\ q[i].id # q[j].id
      /\ \A i \in 1 .. N : i <= K => s[i].id = q[i].id
  BY DEF StructsAlike, Distinct
<1>2. ToSet(s) = {s[i] : i \in 1 .. N} /\ ToSet(q) = {q[i] : i \in 1 .. K}
  BY <1>1 DEF ToSet
<1>3. \A x : MemberNamed(r, x) = CHOOSE y \in ToSet(q) : y.name = x
  BY DEF MemberNamed
<1>4. \A x : Same(w, x) = {y \in ToSet(s) : y.id = x.id}
  BY DEF Same
<1>5. \A x : MemberView(w, x, v) = LET y == CHOOSE y \in Same(w, x) : TRUE
                                   IN  IF Same(w, x) = {} THEN Zero(x.type) ELSE View(y.type, x.type, v[y.name])
  BY DEF MemberView
<1> HIDE DEF s, q, N, K
<1>6. ASSUME NEW i \in 1 .. K PROVE (CHOOSE y \in ToSet(q) : y.name = q[i].name) = q[i]
  <2>1. q[i] \in ToSet(q)
    BY <1>2
  <2>2. \A y \in ToSet(q) : y.name = q[i].name => y = q[i]
    BY <1>1, <1>2
  <2> QED
    BY <2>1, <2>2
<1>7. ASSUME NEW i \in 1 .. K, i <= N
      PROVE  MemberView(w, q[i], v) = View(s[i].type, q[i].type, v[s[i].name])
  <2>1. i \in 1 .. N
    BY <1>1, <1>7
  <2>2. Same(w, q[i]) = {s[i]}
    <3>1. s[i] \in ToSet(s) /\ s[i].id = q[i].id
      BY <1>1, <1>2, <2>1
    <3>2. \A y \in ToSet(s) : y.id = q[i].id => y = s[i]
      BY <1>1, <1>2, <2>1, <3>1
    <3> QED
      BY <1>4, <3>1, <3>2
  <2>3. (CHOOSE y \in Same(w, q[i]) : TRUE) = s[i]
    BY <2>2
  <2> QED
    BY <1>5, <2>2, <2>3
<1>8. ASSUME NEW i \in 1 .. K, ~(i <= N) PROVE MemberView(w, q[i], v) = Zero(q[i].type)
  <2>1. \A j \in 1 .. N : j \in 1 .. K /\ j # i
    BY <1>1, <1>8
  <2>2. \A j \in 1 .. N : s[j].id # q[i].id
    BY <1>1, <2>1
  <2>3. Same(w, q[i]) = {}
    BY <1>2, <1>4, <2>2
  <2> QED
    BY <1>5, <2>3
<1> QED
  BY <1>3, <1>6, <1>7, <1>8 DEF s, q, N, K

\* The first i members a reader has, as it should see them.
SeenMembers(w, r, v, i) == [name \in {r.members[j].name : j \in 1 .. i} |-> MemberView(w, MemberNamed(r, name), v)]

\* A struct as a reader should see it.
StructSeen(w, r, v) == [name \in Names(r) |-> MemberView(w, MemberNamed(r, name), v)]

SeenInTurn(w, r, v) ==
  /\ SeenMembers(w, r, v, 0) = NoMembers
  /\ \A i \in 1 .. Len(r.members) :
       SeenMembers(w, r, v, i)
         = Put(SeenMembers(w, r, v, i - 1), r.members[i].name, MemberView(w, r.members[i], v))
  /\ SeenMembers(w, r, v, Len(r.members)) = StructSeen(w, r, v)

LEMMA SeenOneMore ==
  ASSUME NEW mw, NEW mr, NEW w, NEW r, NEW v2, StructsAlike(mw, mr, w, r, v2), NEW v
  PROVE  SeenInTurn(w, r, v)
<1> SUFFICES /\ SeenMembers(w, r, v, 0) = NoMembers
             /\ \A i \in 1 .. Len(r.members) :
                  SeenMembers(w, r, v, i)
                    = Put(SeenMembers(w, r, v, i - 1), r.members[i].name, MemberView(w, r.members[i], v))
             /\ SeenMembers(w, r, v, Len(r.members)) = StructSeen(w, r, v)
  BY DEF SeenInTurn
<1> DEFINE q == r.members
           K == Len(q)
           F(i) == {q[j].name : j \in 1 .. i}
           G(name) == MemberView(w, MemberNamed(r, name), v)
<1>1. K \in Nat /\ DOMAIN q = 1 .. K /\ \A i, j \in 1 .. K : i # j => q[i].name # q[j].name
  BY DEF StructsAlike, Distinct
<1>2. \A i \in 1 .. K : MemberNamed(r, q[i].name) = q[i]
  BY MemberSeen
<1>3. Names(r) = F(K)
  BY <1>1 DEF Names, ToSet
<1>4. \A i : SeenMembers(w, r, v, i) = [name \in F(i) |-> G(name)]
  BY DEF SeenMembers
<1>5. \A i \in 1 .. K : G(q[i].name) = MemberView(w, q[i], v)
  BY <1>2
<1>9. [name \in F(K) |-> G(name)] = [name \in F(K) |-> MemberView(w, MemberNamed(r, name), v)]
  OBVIOUS
<1> HIDE DEF q, K, G
<1>6. F(0) = {}
  OBVIOUS
<1>7. \A i \in 1 .. K : F(i) = F(i - 1) \cup {q[i].name}
  <2> TAKE i \in 1 .. K
  <2>1. \A j : j \in 1 .. i <=> (j \in 1 .. i - 1 \/ j = i)
    BY <1>1
  <2> QED
    BY <2>1
<1>8. \A i \in 1 .. K : [name \in F(i) |-> G(name)]
                          = Put([name \in F(i - 1) |-> G(name)], q[i].name, G(q[i].name))
  <2> TAKE i \in 1 .. K
  <2> DEFINE f == [name \in F(i - 1) |-> G(name)]
             x == q[i].name
  <2>1. F(i) = DOMAIN f \cup {x} /\ \A n \in DOMAIN f : f[n] = G(n)
    BY <1>7
  <2>2. [name \in F(i) |-> G(name)] = [n \in DOMAIN f \cup {x} |-> IF n = x THEN G(x) ELSE f[n]]
    <3> HIDE DEF f, x, F
    <3> QED
      BY <2>1
  <2> QED
    BY <2>2 DEF Put
<1> HIDE DEF F
<1>10. SeenMembers(w, r, v, 0) = NoMembers
  BY <1>4, <1>6 DEF NoMembers
<1>11. \A i \in 1 .. K : SeenMembers(w, r, v, i) = Put(SeenMembers(w, r, v, i - 1), q[i].name, MemberView(w, q[i], v))
  BY <1>4, <1>5, <1>8
<1>12. SeenMembers(w, r, v, K) = StructSeen(w, r, v)
  BY <1>3, <1>4, <1>9 DEF StructSeen
<1> QED
  BY <1>10, <1>11, <1>12 DEF q, K

\* The buffers on a writer's way through the members, and what a reader sees of each.
MembersBack(after, mr, w, r, v, v2, b, a) ==
  /\ after[0] = b /\ after[Len(w.members)] = a
  /\ \A i \in 1 .. Len(w.members) : Fit(after[i - 1], v2) => Extends(after[i - 1], after[i])
  /\ \A i \in 1 .. Len(w.members) : Fit(after[i - 1], v2) /\ i <= Len(r.members) =>
       /\ after[i - 1].pos < after[i].pos
       /\ \A d, er : Holds(d, after[i - 1], after[i]) =>
            Deserialize(mr.members[i].machine, d, "DataSample", er) = Came(d, after[i].pos, MemberView(w, r.members[i], v))

LEMMA MembersWritten ==
  ASSUME NEW mw, NEW mr, NEW w, NEW r, NEW v2, StructsAlike(mw, mr, w, r, v2), NEW v, StructValue(w, v),
         NEW b, Fit(b, v2), NEW ew, NEW a, a = SerializeMembers(mw, b, v, "DataSample", ew)
  PROVE  \E after : MembersBack(after, mr, w, r, v, v2, b, a)
<1> DEFINE kind == "DataSample"
           N == Len(w.members)
<1>1. /\ N \in Nat /\ Len(mw.members) = N
      /\ \A i \in 1 .. N : mw.members[i].name = w.members[i].name
                           /\ Encodes(mw.members[i].machine, ValuesOf[w.members[i].type], v2)
      /\ \A i \in 1 .. N : i <= Len(r.members) =>
           ReadsBack(mw.members[i].machine, mr.members[i].machine, w.members[i].type, r.members[i].type, v2)
  BY DEF StructsAlike, Distinct
<1>2. Len(r.members) \in Nat /\ \A i \in 1 .. N : i <= Len(r.members) => 
        MemberView(w, r.members[i], v) = View(w.members[i].type, r.members[i].type, v[w.members[i].name])
  <2>1. Len(r.members) \in Nat
    BY DEF StructsAlike, Distinct
  <2>2. \A i \in 1 .. N : i <= Len(r.members) => i \in 1 .. Len(r.members)
    BY <1>1, <2>1
  <2> QED
    BY <1>1, <2>1, <2>2, MemberSeen
<1>3. \A i \in 1 .. N : v[w.members[i].name] \in ValuesOf[w.members[i].type]
  BY DEF StructValue
<1>4. PICK after : MembersRuns(after, mw, b, v, kind, ew)
  BY <1>1, MembersSteps
<1>5. /\ after[0] = b /\ after[N] = a
      /\ \A i \in 1 .. N : after[i] = SerializeMember(mw, after[i - 1], mw.members[i], v, kind, ew)
  BY <1>1, <1>4 DEF MembersRuns
<1> HIDE DEF N
<1>6. ASSUME NEW i \in 1 .. N, Fit(after[i - 1], v2)
      PROVE  /\ Extends(after[i - 1], after[i])
             /\ i <= Len(r.members) =>
                  /\ after[i - 1].pos < after[i].pos
                  /\ \A d, er : Holds(d, after[i - 1], after[i]) =>
                       Deserialize(mr.members[i].machine, d, "DataSample", er) = Came(d, after[i].pos, MemberView(w, r.members[i], v))
  <2> DEFINE m == mw.members[i].machine
             x == v[w.members[i].name]
             tw == w.members[i].type
             e == KeyEnabled(mw.keys, mw.members[i].name, ew)
             c == after[i - 1]
  <2>1. after[i] = Serialize(m, c, x, "DataSample", e)
    BY <1>1, <1>5 DEF SerializeMember
  <2>2. x \in ValuesOf[tw] /\ Encodes(m, ValuesOf[tw], v2) /\ Fit(c, v2)
    BY <1>1, <1>3, <1>6
  <2> HIDE DEF m, x, tw, e, c
  <2>3. Extends(c, after[i])
    <3>1. Encoded(v2, c, after[i])
      BY <2>1, <2>2 DEF Encodes, Fit
    <3> QED
      BY <3>1, EncodedExtends
  <2>4. ASSUME i <= Len(r.members)
        PROVE  /\ c.pos < after[i].pos
               /\ \A d, er : Holds(d, c, after[i]) =>
                    Deserialize(mr.members[i].machine, d, "DataSample", er) = Came(d, after[i].pos, MemberView(w, r.members[i], v))
    <3> DEFINE tr == r.members[i].type
               mo == mr.members[i].machine
    <3>1. ReadsBack(m, mo, tw, tr, v2) /\ MemberView(w, r.members[i], v) = View(tw, tr, x)
      BY <1>1, <1>2, <2>4 DEF m, tw, x
    <3> HIDE DEF tr, mo
    <3>2. /\ c.pos < after[i].pos
          /\ \A d, er : Holds(d, c, after[i]) => Deserialize(mo, d, "DataSample", er) = Came(d, after[i].pos, View(tw, tr, x))
      BY <2>1, <2>2, <3>1, WritesBack
    <3> QED
      BY <3>1, <3>2 DEF mo
  <2> QED
    BY <2>3, <2>4 DEF c
<1>7. MembersBack(after, mr, w, r, v, v2, b, a)
  BY <1>5, <1>6 DEF MembersBack, N
<1> QED
  BY <1>7

\* Reading a struct, and an appendable one of XCDR2, member by member.
ReadStructRuns(read, m, b, kind, enabled) ==
  /\ read[0] = [b |-> b, v |-> NoMembers]
  /\ \A i \in 1 .. Len(m.members) : read[i] = DeserializeMember(m, read[i - 1], m.members[i], kind, enabled)
  /\ DeserializeStruct(m, b, kind, enabled) = read[Len(m.members)]

LEMMA ReadStructSteps ==
  ASSUME NEW m, Len(m.members) \in Nat, NEW b, NEW kind, NEW enabled
  PROVE  \E read : ReadStructRuns(read, m, b, kind, enabled)
<1> DEFINE N == Len(m.members)
           base == [b |-> b, v |-> NoMembers]
           Step(y, i) == DeserializeMember(m, y, m.members[i], kind, enabled)
           Runs(f, k) == f = [i \in 0 .. k |-> IF i = 0 THEN base ELSE Step(f[i - 1], i)]
           T == {k \in Nat : \E f : Runs(f, k)}
           read == CHOOSE f : Runs(f, N)
<1>1. DeserializeStruct(m, b, kind, enabled) = read[N]
  BY DEF DeserializeStruct
<1> HIDE DEF N, base
<1>3. 0 \in T
  <2> DEFINE g == [i \in 0 .. 0 |-> base]
  <2>1. Runs(g, 0)
    OBVIOUS
  <2> QED
    BY <2>1
<1>4. ASSUME NEW k \in T PROVE k + 1 \in T
  <2>1. PICK f : Runs(f, k)
    OBVIOUS
  <2> DEFINE g == [i \in 0 .. k + 1 |-> IF i <= k THEN f[i] ELSE Step(f[k], k + 1)]
  <2> HIDE DEF Step
  <2>2. \A i \in 0 .. k : f[i] = IF i = 0 THEN base ELSE Step(f[i - 1], i)
    BY <2>1
  <2>3. ASSUME NEW i \in 0 .. k + 1 PROVE g[i] = IF i = 0 THEN base ELSE Step(g[i - 1], i)
    <3>1. CASE i <= k
      <4>1. g[i] = f[i] /\ (i # 0 => g[i - 1] = f[i - 1])
        BY <3>1
      <4> QED
        BY <2>2, <3>1, <4>1
    <3>2. CASE i = k + 1
      BY <3>2
    <3> QED
      BY <3>1, <3>2
  <2>4. g = [i \in 0 .. k + 1 |-> g[i]]
    OBVIOUS
  <2> HIDE DEF g
  <2>5. Runs(g, k + 1)
    BY <2>3, <2>4
  <2>6. k + 1 \in Nat
    OBVIOUS
  <2> HIDE DEF Runs
  <2> QED
    BY <2>5, <2>6
<1>5. T = Nat
  <2>1. T \in SUBSET Nat
    OBVIOUS
  <2> HIDE DEF T
  <2> QED
    BY <1>3, <1>4, <2>1, SetInduction
<1>2. N \in Nat
  BY DEF N
<1>6. Runs(read, N)
  BY <1>2, <1>5
<1> HIDE DEF read, Step
<1>7. \A i \in 0 .. N : read[i] = IF i = 0 THEN base ELSE Step(read[i - 1], i)
  BY <1>6
<1>8. read[0] = base /\ \A i \in 1 .. N : read[i] = Step(read[i - 1], i)
  BY <1>2, <1>7
<1>9. ReadStructRuns(read, m, b, kind, enabled)
  BY <1>1, <1>8 DEF N, base, Step, ReadStructRuns
<1> QED
  BY <1>9

ReadDelimitedRuns(read, m, b, n, kind, enabled) ==
  /\ read[0] = [b |-> n.b, v |-> NoMembers]
  /\ \A i \in 1 .. Len(m.members) :
       read[i] = DeserializeIfSent(m, read[i - 1], m.members[i], kind, enabled, n.b.pos, n.v)
  /\ DeserializeDelimited(m, b, kind, enabled)
       = [read[Len(m.members)] EXCEPT !.b = Seek(@, n.b.pos + n.v)]

LEMMA ReadDelimitedSteps ==
  ASSUME NEW m, Len(m.members) \in Nat, NEW b, NEW n, n = Number(b, 4), NEW kind, NEW enabled
  PROVE  \E read : ReadDelimitedRuns(read, m, b, n, kind, enabled)
<1> DEFINE N == Len(m.members)
           base == [b |-> n.b, v |-> NoMembers]
           Step(y, i) == DeserializeIfSent(m, y, m.members[i], kind, enabled, n.b.pos, n.v)
           Runs(f, k) == f = [i \in 0 .. k |-> IF i = 0 THEN base ELSE Step(f[i - 1], i)]
           T == {k \in Nat : \E f : Runs(f, k)}
           read == CHOOSE f : Runs(f, N)
<1>1. DeserializeDelimited(m, b, kind, enabled) = [read[N] EXCEPT !.b = Seek(@, n.b.pos + n.v)]
  BY DEF DeserializeDelimited
<1> HIDE DEF N, base
<1>3. 0 \in T
  <2> DEFINE g == [i \in 0 .. 0 |-> base]
  <2>1. Runs(g, 0)
    OBVIOUS
  <2> QED
    BY <2>1
<1>4. ASSUME NEW k \in T PROVE k + 1 \in T
  <2>1. PICK f : Runs(f, k)
    OBVIOUS
  <2> DEFINE g == [i \in 0 .. k + 1 |-> IF i <= k THEN f[i] ELSE Step(f[k], k + 1)]
  <2> HIDE DEF Step
  <2>2. \A i \in 0 .. k : f[i] = IF i = 0 THEN base ELSE Step(f[i - 1], i)
    BY <2>1
  <2>3. ASSUME NEW i \in 0 .. k + 1 PROVE g[i] = IF i = 0 THEN base ELSE Step(g[i - 1], i)
    <3>1. CASE i <= k
      <4>1. g[i] = f[i] /\ (i # 0 => g[i - 1] = f[i - 1])
        BY <3>1
      <4> QED
        BY <2>2, <3>1, <4>1
    <3>2. CASE i = k + 1
      BY <3>2
    <3> QED
      BY <3>1, <3>2
  <2>4. g = [i \in 0 .. k + 1 |-> g[i]]
    OBVIOUS
  <2> HIDE DEF g
  <2>5. Runs(g, k + 1)
    BY <2>3, <2>4
  <2>6. k + 1 \in Nat
    OBVIOUS
  <2> HIDE DEF Runs
  <2> QED
    BY <2>5, <2>6
<1>5. T = Nat
  <2>1. T \in SUBSET Nat
    OBVIOUS
  <2> HIDE DEF T
  <2> QED
    BY <1>3, <1>4, <2>1, SetInduction
<1>2. N \in Nat
  BY DEF N
<1>6. Runs(read, N)
  BY <1>2, <1>5
<1> HIDE DEF read, Step
<1>7. \A i \in 0 .. N : read[i] = IF i = 0 THEN base ELSE Step(read[i - 1], i)
  BY <1>6
<1>8. read[0] = base /\ \A i \in 1 .. N : read[i] = Step(read[i - 1], i)
  BY <1>2, <1>7
<1>9. ReadDelimitedRuns(read, m, b, n, kind, enabled)
  BY <1>1, <1>8 DEF N, base, Step, ReadDelimitedRuns
<1> QED
  BY <1>9

LEMMA BackStruct ==
  ASSUME NEW mw, NEW mr, NEW w, NEW r, NEW v2, StructsAlike(mw, mr, w, r, v2), NEW v, StructValue(w, v),
         Len(w.members) = Len(r.members), w.members # <<>>,
         NEW b, Fit(b, v2), NEW ew, NEW a, a = SerializeMembers(mw, b, v, "DataSample", ew)
  PROVE  /\ Extends(b, a) /\ b.pos < a.pos
         /\ \A d, er : Holds(d, b, a) => DeserializeStruct(mr, d, "DataSample", er) = Came(d, a.pos, StructSeen(w, r, v))
<1> DEFINE kind == "DataSample"
           N == Len(r.members)
           S(i) == SeenMembers(w, r, v, i)
           x(i) == MemberView(w, r.members[i], v)
<1>1. /\ N \in Nat /\ Len(mr.members) = N /\ Len(w.members) = N /\ N # 0
      /\ \A i \in 1 .. N : mr.members[i].name = r.members[i].name
  <2>1. N \in Nat /\ Len(mr.members) = N /\ \A i \in 1 .. N : mr.members[i].name = r.members[i].name
    BY DEF StructsAlike, Distinct
  <2>2. ASSUME N = 0 PROVE FALSE
    BY <2>2 DEF StructsAlike, Distinct
  <2> QED
    BY <2>1, <2>2
<1>2. PICK after : MembersBack(after, mr, w, r, v, v2, b, a)
  BY MembersWritten
<1>3. S(0) = NoMembers /\ S(N) = StructSeen(w, r, v)
      /\ \A i \in 1 .. N : S(i) = Put(S(i - 1), r.members[i].name, x(i))
  <2>1. SeenInTurn(w, r, v)
    BY SeenOneMore
  <2> QED
    BY <2>1 DEF SeenInTurn
<1> HIDE DEF N, S, x
<1>4. /\ after[0] = b /\ after[N] = a
      /\ \A i \in 1 .. N : Fit(after[i - 1], v2) => Extends(after[i - 1], after[i])
      /\ \A i \in 1 .. N : Fit(after[i - 1], v2) =>
           /\ after[i - 1].pos < after[i].pos
           /\ \A d, er : Holds(d, after[i - 1], after[i]) =>
                Deserialize(mr.members[i].machine, d, kind, er) = Came(d, after[i].pos, x(i))
  <2>1. \A i \in 1 .. N : i <= N
    BY <1>1
  <2> QED
    BY <1>1, <1>2, <2>1 DEF MembersBack, N, x
<1> HIDE DEF kind
<1>5. \A i \in 0 .. N : Fit(after[i], v2) /\ Extends(after[0], after[i]) /\ Extends(after[i], after[N])
  BY <1>1, <1>4, Chain
<1>6. Extends(b, a)
  BY <1>1, <1>4, <1>5
<1>7. b.pos < a.pos
  <2> DEFINE one == 1
  <2>0. one \in 1 .. N /\ one - 1 = 0 /\ one \in 0 .. N /\ one - 1 \in 0 .. N
    BY <1>1
  <2> HIDE DEF one
  <2>1. Fit(after[0], v2) /\ Fit(after[one], v2) /\ Extends(after[one], a)
    BY <1>4, <1>5, <2>0
  <2>2. b.pos < after[one].pos
    BY <1>4, <2>0, <2>1
  <2>3. Sound(after[one]) /\ b.pos \in Nat
    BY <2>1 DEF Fit, Sound
  <2>4. after[one].pos \in Nat /\ a.pos \in Nat /\ after[one].pos <= a.pos
    BY <2>1, <2>3, ExtendsFacts
  <2> QED
    BY <2>2, <2>3, <2>4
<1>8. ASSUME NEW d, NEW er, Holds(d, b, a) PROVE DeserializeStruct(mr, d, kind, er) = Came(d, a.pos, StructSeen(w, r, v))
  <2>1. \A i \in 1 .. N : Holds(Seek(d, after[i - 1].pos), after[i - 1], after[i])
    BY <1>1, <1>4, <1>5, <1>8, ChainHeld
  <2>2. IsBufferRecord(d) /\ d.pos = b.pos
    BY <1>8, HeldRecord
  <2>3. PICK read : ReadStructRuns(read, mr, d, kind, er)
    BY <1>1, ReadStructSteps
  <2>4. /\ read[0] = [b |-> d, v |-> NoMembers]
        /\ \A i \in 1 .. N : read[i] = DeserializeMember(mr, read[i - 1], mr.members[i], kind, er)
        /\ DeserializeStruct(mr, d, kind, er) = read[N]
    BY <1>1, <2>3 DEF ReadStructRuns
  <2> DEFINE T == {i \in Nat : read[i] = Came(d, after[i].pos, S(i))}
  <2>5. 0 \in T
    <3>1. Seek(d, d.pos) = d
      BY <2>2, SeekFacts
    <3> QED
      BY <1>3, <1>4, <2>2, <2>4, <3>1 DEF Came
  <2>6. ASSUME NEW i \in 0 .. N - 1, i \in T PROVE i + 1 \in T
    <3> DEFINE e == Seek(d, after[i].pos)
               k == i + 1
               member == mr.members[k]
               enabled == KeyEnabled(mr.keys, member.name, er)
               y == Deserialize(member.machine, e, kind, enabled)
    <3>1. k \in 1 .. N /\ k - 1 = i /\ i \in 0 .. N /\ k \in Nat
      BY <1>1
    <3> HIDE DEF k
    <3>2. Fit(after[i], v2) /\ Holds(e, after[i], after[k])
      BY <1>5, <2>1, <3>1
    <3> HIDE DEF e
    <3>3. y = Came(e, after[k].pos, x(k))
      BY <1>4, <3>1, <3>2
    <3>4. Came(e, after[k].pos, x(k)) = Came(d, after[k].pos, x(k))
      BY <2>2, CameAgain DEF e
    <3>5. read[i].b = e /\ read[i].v = S(i)
      BY <2>6 DEF Came, e
    <3>6. read[k] = DeserializeMember(mr, read[i], member, kind, er)
      BY <2>4, <3>1
    <3>7. DeserializeMember(mr, read[i], member, kind, er) = [b |-> y.b, v |-> Put(S(i), member.name, y.v)]
      BY <3>5 DEF DeserializeMember, kind
    <3> HIDE DEF y, member
    <3>8. y.b = Seek(d, after[k].pos) /\ y.v = x(k)
      BY <3>3, <3>4 DEF Came
    <3>9. member.name = r.members[k].name
      BY <1>1, <3>1 DEF member
    <3>10. read[k] = Came(d, after[k].pos, S(k))
      BY <1>3, <3>1, <3>6, <3>7, <3>8, <3>9 DEF Came
    <3> QED
      BY <3>1, <3>10 DEF k
  <2> HIDE DEF T
  <2>7. 0 .. N \subseteq T
    BY <1>1, <2>5, <2>6, IntervalInduction
  <2>8. read[N] = Came(d, after[N].pos, S(N))
    BY <1>1, <2>7 DEF T
  <2> QED
    BY <1>3, <1>4, <2>4, <2>8
<1> QED
  BY <1>6, <1>7, <1>8 DEF kind

\* A version with more members fills them in where the writer's ones end, one
\* with fewer skips to the end.
LEMMA BackDelimited ==
  ASSUME NEW mw, NEW mr, NEW w, NEW r, NEW v2, StructsAlike(mw, mr, w, r, v2), NEW v, StructValue(w, v),
         NEW b, Fit(b, v2), NEW ew, NEW a, a = SerializeDelimited(mw, b, v, "DataSample", ew)
  PROVE  /\ Extends(b, a) /\ b.pos < a.pos
         /\ \A d, er : Holds(d, b, a) => DeserializeDelimited(mr, d, "DataSample", er) = Came(d, a.pos, StructSeen(w, r, v))
<1> DEFINE kind == "DataSample"
           M == Len(w.members)
           N == Len(r.members)
           S(i) == SeenMembers(w, r, v, i)
           x(i) == MemberView(w, r.members[i], v)
           start == Write(Align(b, 4), 4, 0)
           done == SerializeMembers(mw, start, v, kind, ew)
           size == done.pos - start.pos
<1>0. /\ start = Write(Align(b, 4), 4, 0)
      /\ done = SerializeMembers(mw, start, v, "DataSample", ew)
      /\ a = Patch(done, start.pos - 4, size)
      /\ size = done.pos - start.pos
  BY DEF SerializeDelimited
<1> HIDE DEF start, done, size
<1>1. Fit(start, v2) /\ Sound(b) /\ Sound(start) /\ Extends(b, start) /\ b.pos < start.pos
  <2>1. Fit(start, v2) /\ Sound(b) /\ Extends(b, start) /\ b.pos < start.pos
    BY <1>0, FrameOpened
  <2> QED
    BY <2>1 DEF Fit
<1>2. /\ N \in Nat /\ M \in Nat /\ Len(mr.members) = N
      /\ \A i \in 1 .. N : mr.members[i].name = r.members[i].name
      /\ \A i \in 1 .. N : DefaultOf(mr.members[i].machine) = Zero(r.members[i].type)
  BY DEF StructsAlike, Distinct
<1>3. \A i \in 1 .. N : ~(i <= M) => x(i) = Zero(r.members[i].type)
  BY MemberSeen
<1>4. PICK after : MembersBack(after, mr, w, r, v, v2, start, done)
  BY <1>0, <1>1, MembersWritten
<1>5. S(0) = NoMembers /\ S(N) = StructSeen(w, r, v)
      /\ \A i \in 1 .. N : S(i) = Put(S(i - 1), r.members[i].name, x(i))
  <2>1. SeenInTurn(w, r, v)
    BY SeenOneMore
  <2> QED
    BY <2>1 DEF SeenInTurn
<1>6. /\ after[0] = start /\ after[M] = done
      /\ \A i \in 1 .. M : Fit(after[i - 1], v2) => Extends(after[i - 1], after[i])
      /\ \A i \in 1 .. M : Fit(after[i - 1], v2) /\ i <= N =>
           /\ after[i - 1].pos < after[i].pos
           /\ \A d, er : Holds(d, after[i - 1], after[i]) =>
                Deserialize(mr.members[i].machine, d, kind, er) = Came(d, after[i].pos, x(i))
  BY <1>4 DEF MembersBack
<1> HIDE DEF M, N, S, x, kind
<1>7. \A i \in 0 .. M : Fit(after[i], v2) /\ Extends(after[0], after[i]) /\ Extends(after[i], after[M])
  BY <1>1, <1>2, <1>6, Chain
<1>8. Extends(start, done)
  BY <1>2, <1>6, <1>7
<1>9. Extends(b, a) /\ a.pos = done.pos /\ b.pos < a.pos
  BY <1>0, <1>8, FrameClosed
<1>10. \A i \in 0 .. M : after[i].pos \in Nat /\ start.pos <= after[i].pos /\ after[i].pos <= done.pos
  <2> TAKE i \in 0 .. M
  <2>1. Sound(after[i]) /\ Extends(start, after[i]) /\ Extends(after[i], done)
    BY <1>6, <1>7 DEF Fit
  <2> QED
    BY <1>1, <2>1, ExtendsFacts
<1>11. start.pos \in Nat /\ done.pos \in Nat /\ start.pos <= done.pos
  BY <1>1, <1>8, ExtendsFacts
<1>12. ASSUME NEW d, NEW er, Holds(d, b, a) PROVE DeserializeDelimited(mr, d, kind, er) = Came(d, a.pos, StructSeen(w, r, v))
  <2> DEFINE n == Number(d, 4)
             c == Seek(d, start.pos)
             f == Seek(d, done.pos)
             place(i) == IF i <= M THEN after[i].pos ELSE done.pos
  <2>1. n = Came(d, start.pos, size) /\ Holds(c, start, done)
    BY <1>0, <1>1, <1>8, <1>12, Framed
  <2>2. n.b = c /\ n.v = size
    BY <2>1 DEF Came
  <2>3. IsBufferRecord(d) /\ d.pos = b.pos
    BY <1>12, HeldRecord
  <2>4. c.pos = start.pos /\ \A p : Seek(c, p) = Seek(d, p) /\ Seek(d, p).pos = p
    BY <2>3, SeekFacts
  <2>5. start.pos + size = done.pos
    BY <1>0, <1>11
  <2>6. \A i \in 1 .. M : Holds(Seek(c, after[i - 1].pos), after[i - 1], after[i])
    BY <1>1, <1>2, <1>6, <2>1, ChainHeld
  <2> HIDE DEF n, c, f
  <2>7. PICK read : ReadDelimitedRuns(read, mr, d, n, kind, er)
    BY <1>2, ReadDelimitedSteps DEF n
  <2>8. /\ read[0] = [b |-> c, v |-> NoMembers]
        /\ \A i \in 1 .. N : read[i] = DeserializeIfSent(mr, read[i - 1], mr.members[i], kind, er, start.pos, size)
        /\ DeserializeDelimited(mr, d, kind, er) = [read[N] EXCEPT !.b = Seek(@, done.pos)]
    BY <1>2, <2>2, <2>4, <2>5, <2>7 DEF ReadDelimitedRuns
  <2> DEFINE T == {i \in Nat : read[i] = Came(d, place(i), S(i))}
  <2>9. 0 \in T
    <3>1. place(0) = start.pos
      BY <1>2, <1>6
    <3> QED
      BY <1>5, <2>8, <3>1 DEF Came, c
  <2>10. ASSUME NEW i \in 0 .. N - 1, i \in T PROVE i + 1 \in T
    <3> DEFINE k == i + 1
               e == Seek(d, place(i))
               member == mr.members[k]
               enabled == KeyEnabled(mr.keys, member.name, er)
               y == Deserialize(member.machine, e, kind, enabled)
    <3>1. k \in 1 .. N /\ k - 1 = i /\ i \in Nat /\ k \in Nat /\ k = i + 1
      BY <1>2
    <3> HIDE DEF k
    <3>2. read[i].b = e /\ read[i].v = S(i) /\ e.pos = place(i)
      BY <2>4, <2>10 DEF Came
    <3>3. read[k] = DeserializeIfSent(mr, read[i], member, kind, er, start.pos, size)
      BY <2>8, <3>1
    <3>4. member.name = r.members[k].name
      BY <1>2, <3>1
    <3>5. CASE k <= M
      <4>1. k \in 1 .. M /\ i \in 0 .. M /\ k \in 0 .. M /\ place(i) = after[i].pos /\ place(k) = after[k].pos
        BY <1>2, <3>1, <3>5
      <4>2. Fit(after[i], v2) /\ Holds(e, after[i], after[k])
        BY <1>7, <2>4, <2>6, <3>1, <4>1
      <4> HIDE DEF e
      <4>3. after[i].pos < after[k].pos /\ y = Came(e, after[k].pos, x(k))
        <5>1. k <= N
          BY <1>2, <3>1
        <5> QED
          BY <1>6, <3>1, <4>1, <4>2, <5>1
      <4>4. Came(e, after[k].pos, x(k)) = Came(d, after[k].pos, x(k))
        BY <2>3, CameAgain DEF e
      <4>5. y.b = Seek(d, after[k].pos) /\ y.v = x(k) /\ y.b.pos = after[k].pos
        BY <2>4, <4>3, <4>4 DEF Came
      <4> HIDE DEF y, member
      <4>6. ~(e.pos - start.pos >= size) /\ ~(y.b.pos - start.pos > size)
        <5>1. after[i].pos \in Nat /\ after[k].pos \in Nat /\ after[k].pos <= done.pos
          BY <1>10, <4>1
        <5> HIDE DEF place
        <5>2. e.pos = after[i].pos
          BY <3>2, <4>1
        <5> QED
          BY <1>0, <1>11, <4>3, <4>5, <5>1, <5>2
      <4>7. read[k] = [b |-> y.b, v |-> Put(S(i), member.name, y.v)]
        BY <3>2, <3>3, <4>6 DEF DeserializeIfSent, kind, y, member
      <4> HIDE DEF place
      <4>8. read[k] = Came(d, place(k), S(k))
        BY <1>5, <3>1, <3>4, <4>1, <4>5, <4>7 DEF Came
      <4> QED
        BY <3>1, <4>8
    <3>6. CASE ~(k <= M)
      <4>1. place(k) = done.pos /\ place(i) = done.pos
        <5>1. i = M \/ ~(i <= M)
          BY <1>2, <3>1, <3>6
        <5> QED
          BY <1>2, <1>6, <3>6, <5>1
      <4> HIDE DEF place, e, y, enabled, member
      <4>2. e.pos - start.pos >= size /\ ~(e.pos - start.pos > size)
        BY <1>0, <1>11, <3>2, <4>1
      <4>3. read[k] = [b |-> e, v |-> Put(S(i), member.name, DefaultOf(member.machine))]
        BY <3>2, <3>3, <4>2 DEF DeserializeIfSent, kind
      <4>4. DefaultOf(member.machine) = x(k)
        BY <1>2, <1>3, <3>1, <3>6 DEF member
      <4>5. read[k] = Came(d, place(k), S(k))
        BY <1>5, <3>1, <3>4, <4>1, <4>3, <4>4 DEF Came, e
      <4> QED
        BY <3>1, <4>5
    <3> QED
      BY <3>5, <3>6
  <2> HIDE DEF T, place
  <2>11. 0 .. N \subseteq T
    BY <1>2, <2>9, <2>10, IntervalInduction
  <2>12. read[N] = Came(d, place(N), S(N))
    BY <1>2, <2>11 DEF T
  <2>13. Seek(Seek(d, place(N)), done.pos) = Seek(d, done.pos)
    BY <2>3, SeekFacts
  <2> QED
    BY <1>5, <1>9, <2>8, <2>12, <2>13 DEF Came
<1> QED
  BY <1>9, <1>12 DEF kind

(***************************************************************************)
(* One member of a mutable struct, read.                                   *)
(***************************************************************************)
\* A header that was read, of a member that ends at position p.
MemberFound(h, d, p, member) ==
  /\ h.end = FALSE /\ h.id = member.id /\ h.mu = member.mu
  /\ IsBufferRecord(h.b) /\ h.b.error = "none"
  /\ Seek(h.b, h.b.pos + h.size) = Seek(d, p)

\* What comes of the member itself.
MemberRead(start, h, mo, er, x, d, p) ==
  LET y == Deserialize(mo, start, "DataSample", er)
  IN  y.v = x /\ Seek(SetAlignOffset(y.b, h.b.offset), h.b.pos + h.size) = Seek(d, p)

LEMMA NumberThere ==
  ASSUME NEW v2, NEW b, Fit(b, v2), NEW v, NEW w, w = Write(Align(b, 4), 4, v)
  PROVE  /\ Fit(w, v2) /\ Sound(w) /\ Sound(b) /\ Extends(b, w) /\ b.pos < w.pos
         /\ b.alignMax = 4 => OnGrid(w.pos, b.offset, 4)
         /\ \A d : Holds(d, b, w) => Number(d, 4) = Came(d, w.pos, v)
<1> DEFINE a == 4
<1>1. a \in Widths /\ Sound(b) /\ a = 4 /\ w = Write(Align(b, a), a, v)
  BY DEF Widths, Fit
<1> HIDE DEF a
<1>2. Extends(b, w) /\ w.pos = Align(b, a).pos + a
  BY <1>1, NumberEncoded, EncodedExtends
<1>3. Fit(w, v2)
  BY <1>2, FitStays
<1>4. /\ Align(b, a).pos \in Nat /\ b.pos <= Align(b, a).pos
      /\ OnGrid(Align(b, a).pos, b.offset, AtMost(a, b.alignMax))
  BY <1>1, AlignedFacts
<1>5. b.pos \in Nat /\ b.offset \in Int
  BY <1>1 DEF Sound
<1>6. b.alignMax = 4 => OnGrid(Align(b, a).pos, b.offset, 4)
  BY <1>1, <1>4 DEF AtMost
<1>7. \A d : Holds(d, b, w) => Number(d, 4) = Came(d, w.pos, v)
  BY <1>1, ReadNumber
<1> DEFINE p == Align(b, a).pos
<1> HIDE DEF p
<1>8. w.pos = p + 4 /\ p \in Nat /\ b.pos <= p /\ (b.alignMax = 4 => OnGrid(p, b.offset, 4))
  BY <1>1, <1>2, <1>4, <1>6 DEF p
<1>9. b.pos < w.pos /\ (b.alignMax = 4 => OnGrid(w.pos, b.offset, 4))
  BY <1>5, <1>8 DEF OnGrid
<1> QED
  BY <1>1, <1>2, <1>3, <1>7, <1>9 DEF Fit

\* Reading with the origin there is leaves the buffer as it is.
LEMMA SameOrigin ==
  ASSUME NEW d, IsBufferRecord(d), NEW p
  PROVE  /\ SetAlignOffset(Seek(d, p), d.offset) = Seek(d, p)
         /\ IsBufferRecord(Seek(d, p)) /\ Seek(d, p).offset = d.offset /\ Seek(d, p).pos = p
         /\ Seek(d, p).error = d.error
<1> DEFINE c == Seek(d, p)
<1>1. /\ IsBufferRecord(c) /\ c.pos = p /\ c.size = d.size /\ c.offset = d.offset /\ c.alignMax = d.alignMax
      /\ c.endian = d.endian /\ c.error = d.error /\ c.cells = d.cells
  BY SeekFacts
<1> HIDE DEF c
<1>2. SetAlignOffset(c, c.offset) = c
  BY <1>1 DEF SetAlignOffset, IsBufferRecord
<1> QED
  BY <1>1, <1>2 DEF c

LEMMA MemberBack2 ==
  ASSUME NEW v2, NEW m, m.v2, NEW member, NEW t, Encodes(member.machine, ValuesOf[t], v2),
         member.lentype = 4 \/ SizeKnown(member.machine, t, member.lentype),
         NEW b, Fit(b, v2), b.alignMax = 4, NEW v \in ValuesOf[t], NEW ew,
         NEW a, a = SerializeMutableMember(m, b, member, v, "DataSample", ew),
         NEW mo, NEW tr, NEW known, known => ReadsBack(member.machine, mo, t, tr, v2)
  PROVE  /\ Extends(b, a) /\ b.pos < a.pos
         /\ \A d : Holds(d, b, a) => MemberFound(Header2(Align(d, 4)), d, a.pos, member)
         /\ \A d, er : Holds(d, b, a) /\ known => MemberRead(Header2(Align(d, 4)).b, Header2(Align(d, 4)), mo, er, View(t, tr, v), d, a.pos)
<1> DEFINE four == 4
           z == 0
           kind == "DataSample"
           lc == member.lentype
           name == [mu |-> member.mu, lc |-> lc, id |-> member.id]
           head == Write(Align(b, 4), 4, name)
           more == Write(head, four, z)
           sized == IF lc = 4 THEN more ELSE head
           done == Serialize(member.machine, sized, v, kind, ew)
           size == done.pos - head.pos - 4
           x == View(t, tr, v)
<1>1. a = IF lc = 4 THEN Patch(done, head.pos, size) ELSE done
  BY DEF SerializeMutableMember, MemberHeader
<1>2. /\ four \in Widths /\ four = 4 /\ head = Write(Align(b, 4), 4, name) /\ more = Write(head, four, z) /\ z = 0
      /\ sized = (IF lc = 4 THEN more ELSE head) /\ done = Serialize(member.machine, sized, v, "DataSample", ew)
      /\ size = done.pos - head.pos - 4
  BY DEF Widths
<1>3. name.mu = member.mu /\ name.lc = lc /\ name.id = member.id
  OBVIOUS
<1> HIDE DEF four, z, name, head, more, sized, done, size, kind
<1>4. /\ Fit(head, v2) /\ Sound(head) /\ Sound(b) /\ Extends(b, head) /\ b.pos < head.pos
      /\ OnGrid(head.pos, b.offset, 4)
      /\ \A d : Holds(d, b, head) => Number(d, 4) = Came(d, head.pos, name)
  BY <1>2, NumberThere
<1>5. Fit(more, v2) /\ Extends(head, more) /\ more.pos = head.pos + four
  <2>1. Fit(head, v2)
    BY <1>4
  <2> QED
    BY <1>2, <2>1, NumberHere
<1>6. Fit(sized, v2) /\ Extends(head, sized) /\ Sound(sized)
  <2>1. Extends(head, head)
    BY <1>4, WroteNothing, EncodedExtends
  <2> QED
    BY <1>2, <1>4, <1>5, <2>1 DEF Fit
<1>7. Extends(sized, done)
  <2>1. Encoded(v2, sized, done)
    BY <1>2, <1>6 DEF Encodes, Fit
  <2> QED
    BY <2>1, EncodedExtends
<1>8. Extends(head, done)
  BY <1>4, <1>6, <1>7, ExtendsMore
<1>9. head.pos \in Nat /\ sized.pos \in Nat /\ done.pos \in Nat /\ b.pos \in Nat /\ sized.pos <= done.pos /\ head.pos <= done.pos
  <2>1. sized.pos \in Nat /\ done.pos \in Nat /\ sized.pos <= done.pos
    BY <1>6, <1>7, ExtendsFacts
  <2>2. head.pos \in Nat /\ head.pos <= done.pos
    BY <1>4, <1>8, ExtendsFacts
  <2>3. b.pos \in Nat
    BY <1>4 DEF Sound
  <2> QED
    BY <2>1, <2>2, <2>3
<1>10. Extends(head, a) /\ a.pos = done.pos
  <2>1. CASE lc # 4
    BY <1>1, <1>8, <2>1
  <2>2. CASE lc = 4
    <3>1. a = Patch(done, head.pos, size)
      BY <1>1, <2>2
    <3>2. head.pos <= head.pos /\ head.pos + 4 <= done.pos
      BY <1>2, <1>5, <1>9, <2>2
    <3> DEFINE no == FALSE
    <3>3. ~no /\ Wrote(no, head, done) /\ (\A e : Wrote(no, head, e) => Extends(head, e))
      BY <1>8 DEF Extends
    <3> HIDE DEF no
    <3>4. no /\ Regular(head) => OnGrid(head.pos, head.offset, 4)
      BY <3>3
    <3>5. Wrote(no, head, a) /\ a.pos = done.pos
      BY <1>4, <1>9, <3>1, <3>2, <3>3, <3>4, PatchEncoded
    <3> QED
      BY <3>3, <3>5
  <2> QED
    BY <2>1, <2>2
<1>11. Extends(b, a)
  BY <1>4, <1>10, ExtendsMore
<1>12. b.pos < a.pos
  BY <1>4, <1>9, <1>10
\* What the reader finds: the header, and behind it the member.
<1>13. ASSUME NEW d, Holds(d, b, a)
       PROVE  LET h == Header2(Align(d, 4))
              IN  /\ MemberFound(h, d, a.pos, member)
                  /\ h.b = Seek(d, sized.pos) /\ Holds(h.b, sized, done)
                  /\ sized.pos + h.size = a.pos
  <2> DEFINE e == Seek(d, head.pos)
             f == Seek(d, sized.pos)
             h == Header2(Align(d, 4))
  <2>1. IsBufferRecord(d) /\ d.error = "none"
    BY <1>13 DEF Holds
  <2>2. Holds(d, b, head) /\ Holds(e, head, a)
    BY <1>4, <1>10, <1>13, HoldsParts
  <2>3. Number(d, 4) = Came(d, head.pos, name)
    BY <1>4, <2>2
  <2>4. Read(Align(d, 4), 4).b = e /\ Read(Align(d, 4), 4).v = name
    BY <2>3 DEF Came, Number
  <2> HIDE DEF e
  <2>5. /\ h.end = FALSE /\ h.id = member.id /\ h.mu = member.mu
        /\ h.b = IF lc = 4 THEN Read(e, 4).b ELSE e
        /\ h.size = Announced(lc, Read(e, 4).v)
    <3>1. h = [end |-> FALSE, b |-> IF lc = 4 THEN Read(e, 4).b ELSE e, id |-> member.id, mu |-> member.mu,
               size |-> Announced(lc, Read(e, 4).v)]
      BY <1>3, <2>4 DEF Header2
    <3> QED
      BY <3>1
  <2> HIDE DEF h
  <2>6. h.b = f /\ Holds(f, sized, done) /\ sized.pos + h.size = done.pos
    <3>1. CASE lc = 4
      <4>1. a = Patch(done, head.pos, size) /\ sized = Write(head, 4, 0)
        BY <1>1, <1>2, <3>1
      <4>2. Read(e, 4) = Came(e, sized.pos, size) /\ Holds(Seek(e, sized.pos), sized, done)
        BY <1>4, <1>7, <2>2, <4>1, Patched
      <4>3. Seek(e, sized.pos) = f
        BY <2>1, CameAgain DEF e
      <4>4. Read(e, 4).b = f /\ Read(e, 4).v = size
        BY <4>2, <4>3 DEF Came
      <4>5. Announced(lc, Read(e, 4).v) = size
        BY <3>1, <4>4 DEF Announced
      <4>6. sized.pos = head.pos + 4
        BY <1>2, <1>5, <3>1
      <4> QED
        BY <1>2, <1>9, <2>5, <3>1, <4>2, <4>3, <4>4, <4>5, <4>6
    <3>2. CASE lc # 4
      <4>1. a = done /\ sized = head
        BY <1>1, <1>2, <3>2
      <4>2. e = f /\ Holds(e, head, done)
        BY <2>2, <4>1 DEF e
      <4>3. SizeKnown(member.machine, t, lc)
        BY <3>2
      <4>4. Sound(head) /\ head.alignMax = 4 /\ head.offset = b.offset
        BY <1>4 DEF Fit, Extends, Wrote
      <4>5. done = Serialize(member.machine, head, v, "DataSample", ew)
        BY <1>2, <4>1
      <4>6. head.pos + Announced(lc, Read(e, 4).v) = done.pos
        BY <1>4, <4>2, <4>3, <4>4, <4>5 DEF SizeKnown
      <4> QED
        BY <2>5, <3>2, <4>1, <4>2, <4>6
    <3> QED
      BY <3>1, <3>2
  <2>7. IsBufferRecord(f) /\ f.error = "none" /\ f.pos = sized.pos /\ Seek(f, done.pos) = Seek(d, done.pos)
    BY <2>1, SeekFacts
  <2>8. MemberFound(h, d, a.pos, member)
    BY <1>10, <2>5, <2>6, <2>7 DEF MemberFound
  <2> QED
    BY <1>10, <2>6, <2>8 DEF h
<1>14. ASSUME NEW d, NEW er, Holds(d, b, a), known
       PROVE  MemberRead(Header2(Align(d, 4)).b, Header2(Align(d, 4)), mo, er, x, d, a.pos)
  <2> DEFINE h == Header2(Align(d, 4))
             f == Seek(d, sized.pos)
             y == Deserialize(mo, f, kind, er)
  <2>1. h.b = f /\ Holds(f, sized, done) /\ sized.pos + h.size = a.pos
    BY <1>13, <1>14
  <2>0. Fit(sized, v2)
    BY <1>6
  <2>2. \A c, e : Holds(c, sized, done) => Deserialize(mo, c, "DataSample", e) = Came(c, done.pos, View(t, tr, v))
    <3>1. ReadsBack(member.machine, mo, t, tr, v2)
      BY <1>14
    <3> QED
      BY <1>2, <2>0, <3>1, WritesBack
  <2> HIDE DEF h, x
  <2>3. IsBufferRecord(d)
    BY <1>14, HeldRecord
  <2>4. f.offset = d.offset /\ f.pos = sized.pos
    BY <2>3, SameOrigin
  <2>5. Seek(f, done.pos) = Seek(d, done.pos)
    BY <2>3, CameAgain
  <2>6. SetAlignOffset(Seek(d, done.pos), d.offset) = Seek(d, done.pos)
    BY <2>3, SameOrigin
  <2>7. Seek(Seek(d, done.pos), done.pos) = Seek(d, done.pos)
    BY <2>3, SeekFacts
  <2> HIDE DEF f
  <2>8. y = Came(f, done.pos, x)
    BY <2>1, <2>2 DEF x, kind
  <2>9. y.b = Seek(d, done.pos) /\ y.v = x
    BY <2>5, <2>8 DEF Came
  <2> QED
    BY <1>10, <2>1, <2>4, <2>6, <2>7, <2>9 DEF MemberRead, h, kind
<1>15. \A d : Holds(d, b, a) => MemberFound(Header2(Align(d, 4)), d, a.pos, member)
  BY <1>13
<1> QED
  BY <1>11, <1>12, <1>14, <1>15 DEF x

LEMMA MemberBack1 ==
  ASSUME NEW v2, NEW m, ~m.v2, NEW member, NEW t, Encodes(member.machine, ValuesOf[t], v2), member.lentype = 4,
         NEW b, Fit(b, v2), NEW v \in ValuesOf[t], NEW ew,
         NEW a, a = SerializeMutableMember(m, b, member, v, "DataSample", ew),
         NEW mo, NEW tr, NEW known, known => ReadsBack(member.machine, mo, t, tr, v2)
  PROVE  /\ Extends(b, a) /\ b.pos < a.pos
         /\ \A d : Holds(d, b, a) => MemberFound(Header1(Align(d, 4)), d, a.pos, member)
         /\ \A d, er : Holds(d, b, a) /\ known =>
              MemberRead(SetAlignOffset(Header1(Align(d, 4)).b, Header1(Align(d, 4)).b.pos),
                         Header1(Align(d, 4)), mo, er, View(t, tr, v), d, a.pos)
<1> DEFINE four == 4
           z == 0
           kind == "DataSample"
           name == [mu |-> member.mu, id |-> member.id]
           head == LongHeader(b, name)
           sized == Write(head, four, z)
           start == SetAlignOffset(sized, sized.pos)
           c == Serialize(member.machine, start, v, kind, ew)
           back == SetAlignOffset(c, sized.offset)
           done == Align(back, four)
           size == done.pos - head.pos - 4
           x == View(t, tr, v)
<1>1. a = Patch(done, head.pos, size)
  BY DEF SerializeMutableMember, MemberHeader, LongHeader
<1>2. /\ four \in Widths /\ four = 4 /\ z = 0 /\ head = LongHeader(b, name) /\ sized = Write(head, four, z)
      /\ c = Serialize(member.machine, SetAlignOffset(sized, sized.pos), v, "DataSample", ew)
      /\ start = SetAlignOffset(sized, sized.pos) /\ c = Serialize(member.machine, start, v, kind, ew)
      /\ back = SetAlignOffset(c, sized.offset) /\ done = Align(back, four)
      /\ size = done.pos - head.pos - 4
  BY DEF Widths
<1>3. name.mu = member.mu /\ name.id = member.id
  OBVIOUS
<1> HIDE DEF four, z, name, head, sized, start, c, back, done, size, kind
<1>4. /\ Fit(head, v2) /\ Sound(head) /\ Extends(b, head) /\ b.pos < head.pos
      /\ \A d : Holds(d, b, head) => HeaderRead(d, head.pos, name)
  BY <1>2, BackHeader
<1>5. /\ Fit(sized, v2) /\ Sound(sized) /\ Extends(head, sized) /\ head.pos < sized.pos /\ sized.pos = head.pos + four
  <2>1. Fit(head, v2)
    BY <1>4
  <2> QED
    BY <1>2, <2>1, NumberHere
<1>6. sized.pos \in Int /\ Sound(sized) /\ Sound(start)
  <2>1. sized.pos \in Int /\ Sound(sized)
    BY <1>5 DEF Sound, Fit
  <2>2. Fit(start, v2)
    BY <1>2, <1>5, <2>1, OriginFit
  <2> QED
    BY <2>1, <2>2 DEF Fit
<1>7. Extends(start, c)
  <2>1. Encoded(v2, start, c)
    BY <1>2, <1>6 DEF Encodes
  <2> QED
    BY <2>1, EncodedExtends
<1>8. Extends(sized, back) /\ back.pos = c.pos /\ Sound(c)
  BY <1>2, <1>6, <1>7, OriginExtends
<1>9. Sound(back) /\ Extends(back, done) /\ Sound(b)
  <2>1. Sound(back) /\ Sound(b)
    BY <1>8 DEF Extends, Wrote, Fit
  <2> QED
    BY <1>2, <2>1, AlignWrote DEF Extends
<1>10. Extends(sized, done)
  BY <1>5, <1>8, <1>9, ExtendsMore
<1>11. Extends(head, done)
  BY <1>4, <1>5, <1>10, ExtendsMore
<1>12. head.pos \in Nat /\ sized.pos \in Nat /\ done.pos \in Nat /\ b.pos \in Nat /\ sized.pos <= done.pos
  <2>1. sized.pos \in Nat /\ done.pos \in Nat /\ sized.pos <= done.pos
    BY <1>5, <1>10, ExtendsFacts
  <2> QED
    BY <1>4, <1>9, <2>1 DEF Sound
<1>13. Extends(head, a) /\ a.pos = done.pos
  <2>1. head.pos <= head.pos /\ head.pos + 4 <= done.pos
    BY <1>2, <1>5, <1>12
  <2> DEFINE no == FALSE
  <2>2. ~no /\ Wrote(no, head, done) /\ (\A e : Wrote(no, head, e) => Extends(head, e))
    BY <1>11 DEF Extends
  <2> HIDE DEF no
  <2>3. no /\ Regular(head) => OnGrid(head.pos, head.offset, 4)
    BY <2>2
  <2>4. Wrote(no, head, a) /\ a.pos = done.pos
    BY <1>1, <1>4, <1>12, <2>1, <2>2, <2>3, PatchEncoded
  <2> QED
    BY <2>2, <2>4
<1>14. Extends(b, a)
  BY <1>4, <1>9, <1>13, ExtendsMore
<1>15. b.pos < a.pos
  BY <1>2, <1>4, <1>5, <1>12, <1>13
<1>16. ASSUME NEW d, Holds(d, b, a)
       PROVE  LET h == Header1(Align(d, 4))
              IN  /\ MemberFound(h, d, a.pos, member)
                  /\ h.b = Seek(d, sized.pos) /\ Holds(h.b, sized, back)
                  /\ sized.pos + h.size = a.pos
  <2> DEFINE e == Seek(d, head.pos)
             f == Seek(d, sized.pos)
             h == Header1(Align(d, 4))
             pid == Read(Align(d, 4), 2)
             short == Read(pid.b, 2)
             long == Read(short.b, 4)
  <2>1. IsBufferRecord(d) /\ d.error = "none"
    BY <1>16 DEF Holds
  <2>2. Holds(d, b, head) /\ Holds(e, head, a)
    BY <1>4, <1>9, <1>13, <1>16, HoldsParts
  <2>3. pid.v = ExtendedPid /\ long = Came(d, head.pos, name)
    BY <1>4, <2>2 DEF HeaderRead
  <2>4. long.b = e /\ long.v = name
    BY <2>3 DEF Came
  <2>5. pid.v \notin {ListEnd, Garbled}
    BY <2>3 DEF ExtendedPid, ListEnd, Garbled
  <2> HIDE DEF e
  <2>6. h = [end |-> FALSE, b |-> Read(e, 4).b, id |-> name.id, mu |-> name.mu, size |-> Read(e, 4).v]
    BY <2>4, <2>5 DEF Header1
  <2> HIDE DEF h, pid, short, long
  <2>7. a = Patch(done, head.pos, size) /\ sized = Write(head, 4, 0)
    BY <1>1, <1>2
  <2>8. Read(e, 4) = Came(e, sized.pos, size) /\ Holds(Seek(e, sized.pos), sized, done)
    BY <1>4, <1>10, <2>2, <2>7, Patched
  <2>9. Seek(e, sized.pos) = f
    BY <2>1, CameAgain DEF e
  <2>10. Read(e, 4).b = f /\ Read(e, 4).v = size
    BY <2>8, <2>9 DEF Came
  <2>11. Holds(f, sized, back)
    BY <1>5, <1>8, <1>9, <2>8, <2>9, HoldsParts
  <2>12. sized.pos + size = done.pos
    BY <1>2, <1>5, <1>12
  <2>13. IsBufferRecord(f) /\ f.error = "none" /\ f.pos = sized.pos /\ Seek(f, done.pos) = Seek(d, done.pos)
    BY <2>1, SeekFacts
  <2> HIDE DEF f
  <2>14. h.end = FALSE /\ h.b = f /\ h.id = member.id /\ h.mu = member.mu /\ h.size = size
    BY <1>3, <2>6, <2>10
  <2>15. MemberFound(h, d, a.pos, member)
    BY <1>13, <2>12, <2>13, <2>14 DEF MemberFound
  <2> QED
    BY <1>13, <2>11, <2>12, <2>14, <2>15 DEF h, f
<1>17. ASSUME NEW d, NEW er, Holds(d, b, a), known
       PROVE  MemberRead(SetAlignOffset(Header1(Align(d, 4)).b, Header1(Align(d, 4)).b.pos),
                         Header1(Align(d, 4)), mo, er, x, d, a.pos)
  <2> DEFINE h == Header1(Align(d, 4))
             f == Seek(d, sized.pos)
             y == Deserialize(mo, SetAlignOffset(f, f.pos), kind, er)
  <2>1. h.b = f /\ Holds(f, sized, back) /\ sized.pos + h.size = a.pos
    BY <1>16, <1>17
  <2>2. \A q, e : Holds(q, sized, back) => PartRead(mo, q, e, back.pos, View(t, tr, v))
    <3>1. ReadsBack(member.machine, mo, t, tr, v2)
      BY <1>17
    <3>2. Fit(sized, v2)
      BY <1>5
    <3> QED
      BY <1>2, <3>1, <3>2, BackMoved
  <2> HIDE DEF h, x
  <2>3. IsBufferRecord(d)
    BY <1>17, HeldRecord
  <2>4. f.pos = sized.pos
    BY <2>3, SameOrigin
  <2>5. Seek(f, back.pos) = Seek(d, back.pos)
    BY <2>3, CameAgain
  <2>6. Seek(Seek(d, back.pos), done.pos) = Seek(d, done.pos)
    BY <2>3, SeekFacts
  <2> HIDE DEF f
  <2>7. PartRead(mo, f, er, back.pos, x)
    BY <2>1, <2>2 DEF x
  <2>8. SetAlignOffset(y.b, f.offset) = Seek(d, back.pos) /\ y.v = x
    BY <2>5, <2>7 DEF PartRead, kind
  <2> QED
    BY <1>13, <2>1, <2>4, <2>6, <2>8 DEF MemberRead, h, kind
<1>18. \A d : Holds(d, b, a) => MemberFound(Header1(Align(d, 4)), d, a.pos, member)
  BY <1>16
<1> QED
  BY <1>14, <1>15, <1>17, <1>18 DEF x

(***************************************************************************)
(* Mutable structs, read member by member.                                 *)
(***************************************************************************)
HeaderAt(m, d) == IF m.v2 THEN Header2(Align(d, 4)) ELSE Header1(Align(d, 4))
PartStart(m, h) == IF m.v2 THEN h.b ELSE SetAlignOffset(h.b, h.b.pos)

\* What a reader finds of a member that ends at p, and what it makes of its value.
Found(m, d, p, member) == MemberFound(HeaderAt(m, d), d, p, member)
ReadAs(m, mo, er, x, d, p) == MemberRead(PartStart(m, HeaderAt(m, d)), HeaderAt(m, d), mo, er, x, d, p)

LEMMA MemberBack ==
  ASSUME NEW v2, NEW mw, NEW mr, mw.v2 <=> mr.v2, NEW member, NEW t, Encodes(member.machine, ValuesOf[t], v2),
         member.lentype = 4 \/ (mw.v2 /\ SizeKnown(member.machine, t, member.lentype)),
         NEW b, Fit(b, v2), mw.v2 => b.alignMax = 4, NEW v \in ValuesOf[t], NEW ew,
         NEW a, a = SerializeMutableMember(mw, b, member, v, "DataSample", ew)
  PROVE  /\ Extends(b, a) /\ b.pos < a.pos
         /\ \A d : Holds(d, b, a) => Found(mr, d, a.pos, member)
         /\ \A mo, tr, d, er : ReadsBack(member.machine, mo, t, tr, v2) /\ Holds(d, b, a) =>
              ReadAs(mr, mo, er, View(t, tr, v), d, a.pos)
<1>1. CASE mw.v2
  <2>1. /\ \A d : HeaderAt(mr, d) = Header2(Align(d, 4))
        /\ \A d : PartStart(mr, HeaderAt(mr, d)) = Header2(Align(d, 4)).b
    BY <1>1 DEF HeaderAt, PartStart
  <2>2. member.lentype = 4 \/ SizeKnown(member.machine, t, member.lentype)
    OBVIOUS
  <2>3. ASSUME NEW mo, NEW tr
        PROVE  /\ Extends(b, a) /\ b.pos < a.pos
               /\ \A d : Holds(d, b, a) => MemberFound(Header2(Align(d, 4)), d, a.pos, member)
               /\ \A d, er : Holds(d, b, a) /\ ReadsBack(member.machine, mo, t, tr, v2) =>
                    MemberRead(Header2(Align(d, 4)).b, Header2(Align(d, 4)), mo, er, View(t, tr, v), d, a.pos)
    <3> DEFINE known == ReadsBack(member.machine, mo, t, tr, v2)
    <3>1. known => ReadsBack(member.machine, mo, t, tr, v2)
      OBVIOUS
    <3> HIDE DEF known
    <3>2. /\ Extends(b, a) /\ b.pos < a.pos
          /\ \A d : Holds(d, b, a) => MemberFound(Header2(Align(d, 4)), d, a.pos, member)
          /\ \A d, er : Holds(d, b, a) /\ known =>
               MemberRead(Header2(Align(d, 4)).b, Header2(Align(d, 4)), mo, er, View(t, tr, v), d, a.pos)
      BY <1>1, <2>2, <3>1, MemberBack2
    <3> QED
      BY <3>2 DEF known
  <2> QED
    BY <2>1, <2>3 DEF Found, ReadAs
<1>2. CASE ~mw.v2
  <2>1. /\ \A d : HeaderAt(mr, d) = Header1(Align(d, 4))
        /\ \A d : PartStart(mr, HeaderAt(mr, d)) = SetAlignOffset(Header1(Align(d, 4)).b, Header1(Align(d, 4)).b.pos)
    BY <1>2 DEF HeaderAt, PartStart
  <2>2. member.lentype = 4
    BY <1>2
  <2>3. ASSUME NEW mo, NEW tr
        PROVE  /\ Extends(b, a) /\ b.pos < a.pos
               /\ \A d : Holds(d, b, a) => MemberFound(Header1(Align(d, 4)), d, a.pos, member)
               /\ \A d, er : Holds(d, b, a) /\ ReadsBack(member.machine, mo, t, tr, v2) =>
                    MemberRead(SetAlignOffset(Header1(Align(d, 4)).b, Header1(Align(d, 4)).b.pos),
                               Header1(Align(d, 4)), mo, er, View(t, tr, v), d, a.pos)
    <3> DEFINE known == ReadsBack(member.machine, mo, t, tr, v2)
    <3>1. known => ReadsBack(member.machine, mo, t, tr, v2)
      OBVIOUS
    <3> HIDE DEF known
    <3>2. /\ Extends(b, a) /\ b.pos < a.pos
          /\ \A d : Holds(d, b, a) => MemberFound(Header1(Align(d, 4)), d, a.pos, member)
          /\ \A d, er : Holds(d, b, a) /\ known =>
               MemberRead(SetAlignOffset(Header1(Align(d, 4)).b, Header1(Align(d, 4)).b.pos),
                          Header1(Align(d, 4)), mo, er, View(t, tr, v), d, a.pos)
      BY <1>2, <2>2, <3>1, MemberBack1
    <3> QED
      BY <3>2 DEF known
  <2> QED
    BY <2>1, <2>3 DEF Found, ReadAs
<1> QED
  BY <1>1, <1>2

\* The rest of the members, read.
Rest(m, d, data, er, end) == MutableMembers(m, d, data, "DataSample", er, end)

\* One round of the reader's loop: a member it has, one it lacks, and one it
\* must not lack.
Round(m, d, data, er, end, p, member) ==
  /\ \A x, y : {z \in ToSet(m.members) : z.id = member.id} = {x}
               /\ ReadAs(m, x.machine, KeyEnabled(m.keys, x.name, er), y, d, p) =>
       Rest(m, d, data, er, end) = Rest(m, Seek(d, p), [data EXCEPT ![x.name] = y], er, end)
  /\ {z \in ToSet(m.members) : z.id = member.id} = {} =>
       IF member.mu THEN Rest(m, d, data, er, end).b.error = "MustUnderstand"
       ELSE Rest(m, d, data, er, end) = Rest(m, Seek(d, p), data, er, end)

LEMMA OneRound ==
  ASSUME Recursion, NEW m, NEW d, IsBufferRecord(d), d.error = "none", NEW end, ~(m.v2 /\ d.pos >= end),
         NEW p, NEW member, Found(m, d, p, member), NEW data, NEW er
  PROVE  Round(m, d, data, er, end, p, member)
<1> DEFINE kind == "DataSample"
           h == HeaderAt(m, d)
           known == {z \in ToSet(m.members) : z.id = member.id}
           q == MemberBehind(m, h, data, kind, er)
<1>1. /\ h.end = FALSE /\ h.id = member.id /\ h.mu = member.mu
      /\ IsBufferRecord(h.b) /\ h.b.error = "none" /\ Seek(h.b, h.b.pos + h.size) = Seek(d, p)
  BY DEF Found, MemberFound
<1>2. Rest(m, d, data, er, end) = MemberThenRest(m, h, data, kind, er, end)
  <2>1. Rest(m, d, data, er, end) = RestOfMutable(m, d, data, kind, er, end)
    BY DEF Rest, Recursion
  <2> QED
    BY <2>1 DEF RestOfMutable, HeaderAt
<1> HIDE DEF h
<1>3. Rest(m, d, data, er, end) = Rest(m, Seek(q.b, h.b.pos + h.size), q.v, er, end)
  BY <1>1, <1>2 DEF MemberThenRest, Rest
<1>4. q = IF known = {} THEN UnknownMember(h, data)
          ELSE KnownMember(m, h, CHOOSE x \in known : TRUE, data, kind, er)
  BY <1>1 DEF MemberBehind
<1> HIDE DEF q, known
<1>5. ASSUME NEW x, NEW y, known = {x}, ReadAs(m, x.machine, KeyEnabled(m.keys, x.name, er), y, d, p)
      PROVE  Rest(m, d, data, er, end) = Rest(m, Seek(d, p), [data EXCEPT ![x.name] = y], er, end)
  <2> DEFINE r == Deserialize(x.machine, PartStart(m, h), kind, KeyEnabled(m.keys, x.name, er))
  <2>1. (CHOOSE z \in known : TRUE) = x /\ known # {}
    BY <1>5
  <2>2. q = [b |-> SetAlignOffset(r.b, h.b.offset), v |-> [data EXCEPT ![x.name] = r.v]]
    BY <1>4, <2>1 DEF KnownMember, PartStart
  <2>3. r.v = y /\ Seek(SetAlignOffset(r.b, h.b.offset), h.b.pos + h.size) = Seek(d, p)
    BY <1>5 DEF ReadAs, MemberRead, h
  <2> HIDE DEF r
  <2> QED
    BY <1>3, <2>2, <2>3
<1>6. ASSUME known = {}
      PROVE  IF member.mu THEN Rest(m, d, data, er, end).b.error = "MustUnderstand"
             ELSE Rest(m, d, data, er, end) = Rest(m, Seek(d, p), data, er, end)
  <2>1. q = UnknownMember(h, data)
    BY <1>4, <1>6
  <2>2. CASE ~member.mu
    <3>1. q.b = h.b /\ q.v = data
      BY <1>1, <2>1, <2>2 DEF UnknownMember
    <3> QED
      BY <1>1, <1>3, <2>2, <3>1
  <2>3. CASE member.mu
    <3>1. q.b = Fail(h.b, "MustUnderstand") /\ q.v = data
      BY <1>1, <2>1, <2>3 DEF UnknownMember
    <3>2. IsBufferRecord(q.b) /\ q.b.error = "MustUnderstand"
      BY <1>1, <3>1 DEF Fail, IsBufferRecord
    <3> DEFINE c == Seek(q.b, h.b.pos + h.size)
    <3>3. c.error = "MustUnderstand"
      BY <3>2, SeekFacts
    <3> HIDE DEF c
    <3>4. Rest(m, c, q.v, er, end) = RestOfMutable(m, c, q.v, kind, er, end)
      BY DEF Rest, Recursion
    <3>5. Rest(m, c, q.v, er, end) = [b |-> c, v |-> q.v]
      BY <3>3, <3>4 DEF RestOfMutable
    <3> QED
      BY <1>3, <2>3, <3>3, <3>5 DEF c
  <2> QED
    BY <2>2, <2>3
<1> QED
  BY <1>5, <1>6 DEF known, Round

\* The type of a member's value, if there is one.
Inner(t) == IF t.k = "opt" THEN t.of ELSE t
Goes(x, v) == ~(x.type.k = "opt" /\ v[x.name] = None)

\* The machine of a member.
MemberOf(member, x) ==
  /\ member.name = x.name /\ member.id = x.id /\ member.mu = x.mu
  /\ member.optional <=> x.type.k = "opt"

\* Machines of two versions of a mutable struct.
MutablesAlike(mw, mr, w, r, v2) ==
  /\ Distinct(w.members) /\ Distinct(r.members) /\ (mw.v2 <=> mr.v2) /\ mr.keys = r.keys
  /\ \A c : Fit(c, v2) /\ mw.v2 => c.alignMax = 4
  /\ Len(mw.members) = Len(w.members)
  /\ Len(mr.members) = Len(r.members) /\ DOMAIN mr.members = 1 .. Len(r.members)
  /\ \A i \in 1 .. Len(w.members) :
       LET x == mw.members[i]
           t == Inner(w.members[i].type)
       IN  /\ MemberOf(x, w.members[i]) /\ Encodes(x.machine, ValuesOf[t], v2)
           /\ x.lentype = 4 \/ (mw.v2 /\ SizeKnown(x.machine, t, x.lentype))
  /\ \A j \in 1 .. Len(r.members) :
       /\ MemberOf(mr.members[j], r.members[j])
       /\ r.members[j].type.k # "opt" => DefaultOf(mr.members[j].machine) = Zero(r.members[j].type)
       /\ r.members[j].name \in r.keys =>
            \E i \in 1 .. Len(w.members) : w.members[i].id = r.members[j].id /\ w.members[i].type.k # "opt"
  /\ \A i \in 1 .. Len(w.members), j \in 1 .. Len(r.members) : w.members[i].id = r.members[j].id =>
       /\ w.members[i].type.k = "opt" <=> r.members[j].type.k = "opt"
       /\ ReadsBack(mw.members[i].machine, mr.members[j].machine,
                    Inner(w.members[i].type), Inner(r.members[j].type), v2)

\* A value of the writer's struct and how its members are seen.
MutableValue(w, r, v) ==
  /\ \A i \in 1 .. Len(w.members) :
       Goes(w.members[i], v) => v[w.members[i].name] \in ValuesOf[Inner(w.members[i].type)]
  /\ \A i \in 1 .. Len(w.members), j \in 1 .. Len(r.members) : w.members[i].id = r.members[j].id =>
       LET x == w.members[i]
           y == r.members[j]
       IN  /\ View(x.type, y.type, v[x.name])
                = IF Goes(x, v) THEN View(Inner(x.type), Inner(y.type), v[x.name]) ELSE None
           /\ x.type.k # "opt" => View(x.type, y.type, v[x.name]) # None
  /\ \A j \in 1 .. Len(r.members) : r.members[j].type.k = "opt" => Zero(r.members[j].type) = None

\* Which of the writer's members a reader takes for its own.
Met(w, r, v) ==
  /\ Names(r) = {r.members[j].name : j \in 1 .. Len(r.members)}
  /\ \A j \in 1 .. Len(r.members) : MemberNamed(r, r.members[j].name) = r.members[j]
  /\ \A i \in 1 .. Len(w.members), j \in 1 .. Len(r.members) : w.members[i].id = r.members[j].id =>
       MemberView(w, r.members[j], v) = View(w.members[i].type, r.members[j].type, v[w.members[i].name])
  /\ \A j \in 1 .. Len(r.members) :
       (\A i \in 1 .. Len(w.members) : w.members[i].id # r.members[j].id) =>
       MemberView(w, r.members[j], v) = Zero(r.members[j].type)

LEMMA MembersMet ==
  ASSUME NEW w, NEW r, Distinct(w.members), Distinct(r.members), NEW v
  PROVE  Met(w, r, v)
<1> DEFINE s == w.members
           q == r.members
           N == Len(s)
           K == Len(q)
<1>1. /\ N \in Nat /\ K \in Nat /\ DOMAIN s = 1 .. N /\ DOMAIN q = 1 .. K
      /\ \A i, j \in 1 .. N : i # j => s[i].id # s[j].id
      /\ \A i, j \in 1 .. K : i # j => q[i].name # q[j].name /\ q[i].id # q[j].id
  BY DEF Distinct
<1>2. ToSet(s) = {s[i] : i \in 1 .. N} /\ ToSet(q) = {q[i] : i \in 1 .. K}
  BY <1>1 DEF ToSet
<1>3. \A x : MemberNamed(r, x) = CHOOSE y \in ToSet(q) : y.name = x
  BY DEF MemberNamed
<1>4. \A x : Same(w, x) = {y \in ToSet(s) : y.id = x.id}
  BY DEF Same
<1>5. \A x : MemberView(w, x, v) = LET y == CHOOSE y \in Same(w, x) : TRUE
                                   IN  IF Same(w, x) = {} THEN Zero(x.type) ELSE View(y.type, x.type, v[y.name])
  BY DEF MemberView
<1>6. Names(r) = {x.name : x \in ToSet(q)}
  BY DEF Names
<1> HIDE DEF s, q, N, K
<1>7. Names(r) = {q[j].name : j \in 1 .. K}
  BY <1>2, <1>6
<1>8. ASSUME NEW i \in 1 .. K PROVE (CHOOSE y \in ToSet(q) : y.name = q[i].name) = q[i]
  <2>1. q[i] \in ToSet(q)
    BY <1>2
  <2>2. \A y \in ToSet(q) : y.name = q[i].name => y = q[i]
    BY <1>1, <1>2
  <2> QED
    BY <2>1, <2>2
<1>9. ASSUME NEW i \in 1 .. N, NEW j \in 1 .. K, s[i].id = q[j].id
      PROVE  MemberView(w, q[j], v) = View(s[i].type, q[j].type, v[s[i].name])
  <2>1. Same(w, q[j]) = {s[i]}
    <3>1. s[i] \in ToSet(s)
      BY <1>2
    <3>2. \A y \in ToSet(s) : y.id = q[j].id => y = s[i]
      BY <1>1, <1>2, <1>9
    <3> QED
      BY <1>4, <1>9, <3>1, <3>2
  <2>2. (CHOOSE y \in Same(w, q[j]) : TRUE) = s[i]
    BY <2>1
  <2> QED
    BY <1>5, <2>1, <2>2
<1>10. ASSUME NEW j \in 1 .. K, \A i \in 1 .. N : s[i].id # q[j].id PROVE MemberView(w, q[j], v) = Zero(q[j].type)
  <2>1. Same(w, q[j]) = {}
    BY <1>2, <1>4, <1>10
  <2> QED
    BY <1>5, <2>1
<1> QED
  BY <1>3, <1>7, <1>8, <1>9, <1>10 DEF s, q, N, K, Met

\* What a reader has after the first i members of the writer.
Gathered(w, r, v, i) ==
  [name \in Names(r) |-> IF \E j \in 1 .. i : w.members[j].id = MemberNamed(r, name).id
                         THEN MemberView(w, MemberNamed(r, name), v) ELSE None]

GatheredOn(w, r, v) ==
  /\ Gathered(w, r, v, 0) = [name \in Names(r) |-> None]
  /\ \A i \in 1 .. Len(w.members), j \in 1 .. Len(r.members) : w.members[i].id = r.members[j].id =>
       Gathered(w, r, v, i)
         = IF Goes(w.members[i], v)
           THEN [Gathered(w, r, v, i - 1) EXCEPT ![r.members[j].name]
                   = View(Inner(w.members[i].type), Inner(r.members[j].type), v[w.members[i].name])]
           ELSE Gathered(w, r, v, i - 1)
  /\ \A i \in 1 .. Len(w.members) : (\A j \in 1 .. Len(r.members) : w.members[i].id # r.members[j].id) =>
       Gathered(w, r, v, i) = Gathered(w, r, v, i - 1)

LEMMA GatheredOneMore ==
  ASSUME NEW w, NEW r, Distinct(w.members), Distinct(r.members), NEW v, MutableValue(w, r, v)
  PROVE  GatheredOn(w, r, v)
<1> DEFINE s == w.members
           q == r.members
           N == Len(s)
           K == Len(q)
           Id(name) == MemberNamed(r, name).id
           See(name) == MemberView(w, MemberNamed(r, name), v)
           Within(i, name) == \E j \in 1 .. i : s[j].id = Id(name)
           G(i) == [name \in Names(r) |-> IF Within(i, name) THEN See(name) ELSE None]
           Part(i, j) == View(Inner(s[i].type), Inner(q[j].type), v[s[i].name])
<1>0. \A i : Gathered(w, r, v, i) = G(i)
  BY DEF Gathered
<1>1. /\ N \in Nat /\ K \in Nat
      /\ \A i, j \in 1 .. N : i # j => s[i].id # s[j].id
      /\ \A i, j \in 1 .. K : i # j => q[i].name # q[j].name /\ q[i].id # q[j].id
  BY DEF Distinct
<1>2. /\ Names(r) = {q[j].name : j \in 1 .. K}
      /\ \A j \in 1 .. K : MemberNamed(r, q[j].name) = q[j]
      /\ \A i \in 1 .. N, j \in 1 .. K : s[i].id = q[j].id => MemberView(w, q[j], v) = View(s[i].type, q[j].type, v[s[i].name])
  <2>1. Met(w, r, v)
    BY MembersMet
  <2> QED
    BY <2>1 DEF Met
<1>3. \A i \in 1 .. N, j \in 1 .. K : s[i].id = q[j].id =>
        View(s[i].type, q[j].type, v[s[i].name]) = IF Goes(s[i], v) THEN Part(i, j) ELSE None
  BY DEF MutableValue
<1>9. \A i, j : Part(i, j) = View(Inner(w.members[i].type), Inner(r.members[j].type), v[w.members[i].name])
  OBVIOUS
<1> HIDE DEF s, q, N, K, Part
<1>4. \A j \in 1 .. K : Id(q[j].name) = q[j].id /\ See(q[j].name) = MemberView(w, q[j], v) /\ q[j].name \in Names(r)
  BY <1>2
<1>5. \A i \in 1 .. N, j \in 1 .. K : s[i].id = q[j].id =>
        See(q[j].name) = IF Goes(s[i], v) THEN Part(i, j) ELSE None
  BY <1>2, <1>3, <1>4
<1>6. \A n \in Names(r) : \E j \in 1 .. K : n = q[j].name
  BY <1>2
<1> HIDE DEF Id, See
<1>7. \A i \in 1 .. N : \A name : Within(i, name) <=> (Within(i - 1, name) \/ s[i].id = Id(name))
  <2> TAKE i \in 1 .. N
  <2> TAKE name
  <2>1. \A j : j \in 1 .. i <=> (j \in 1 .. i - 1 \/ j = i)
    BY <1>1
  <2> QED
    BY <2>1
<1>8. \A i \in 1 .. N, j \in 1 .. K : s[i].id = q[j].id => ~Within(i - 1, q[j].name)
  <2> SUFFICES ASSUME NEW i \in 1 .. N, NEW j \in 1 .. K, s[i].id = q[j].id, NEW k \in 1 .. i - 1, s[k].id = Id(q[j].name)
               PROVE  FALSE
    OBVIOUS
  <2>1. k \in 1 .. N /\ k # i
    BY <1>1
  <2> QED
    BY <1>1, <1>4, <2>1
<1>10. G(0) = [name \in Names(r) |-> None]
  <2>1. \A name : ~Within(0, name)
    OBVIOUS
  <2> HIDE DEF Within
  <2> QED
    BY <2>1
<1> HIDE DEF Within
<1>11. ASSUME NEW i \in 1 .. N, NEW j \in 1 .. K, s[i].id = q[j].id
       PROVE  G(i) = IF Goes(s[i], v) THEN [G(i - 1) EXCEPT ![q[j].name] = Part(i, j)] ELSE G(i - 1)
  <2> DEFINE n == q[j].name
  <2>1. n \in Names(r) /\ Within(i, n) /\ ~Within(i - 1, n)
    BY <1>4, <1>7, <1>8, <1>11
  <2>2. See(n) = IF Goes(s[i], v) THEN Part(i, j) ELSE None
    BY <1>5, <1>11
  <2>3. \A name \in Names(r) : name # n => (Within(i, name) <=> Within(i - 1, name))
    <3> SUFFICES ASSUME NEW name \in Names(r), name # n, s[i].id = Id(name) PROVE FALSE
      BY <1>7
    <3>1. PICK k \in 1 .. K : name = q[k].name
      BY <1>6
    <3>2. q[k].id = q[j].id /\ k # j
      BY <1>4, <1>11, <3>1
    <3> QED
      BY <1>1, <3>2
  <2> HIDE DEF n
  <2>4. CASE Goes(s[i], v)
    <3>1. [G(i - 1) EXCEPT ![n] = Part(i, j)] = [name \in Names(r) |-> IF name = n THEN Part(i, j) ELSE G(i - 1)[name]]
      OBVIOUS
    <3>2. \A name \in Names(r) : (IF Within(i, name) THEN See(name) ELSE None) = IF name = n THEN Part(i, j) ELSE G(i - 1)[name]
      BY <2>1, <2>2, <2>3, <2>4
    <3>3. G(i) = [name \in Names(r) |-> IF name = n THEN Part(i, j) ELSE G(i - 1)[name]]
      BY <3>2
    <3> QED
      BY <2>4, <3>1, <3>3 DEF n
  <2>5. CASE ~Goes(s[i], v)
    <3>1. \A name \in Names(r) : (IF Within(i, name) THEN See(name) ELSE None) = IF Within(i - 1, name) THEN See(name) ELSE None
      BY <2>1, <2>2, <2>3, <2>5
    <3>2. G(i) = G(i - 1)
      BY <3>1
    <3> QED
      BY <2>5, <3>2
  <2> QED
    BY <2>4, <2>5
<1>12. ASSUME NEW i \in 1 .. N, \A j \in 1 .. K : s[i].id # q[j].id PROVE G(i) = G(i - 1)
  <2>1. \A name \in Names(r) : Within(i, name) <=> Within(i - 1, name)
    BY <1>4, <1>6, <1>7, <1>12
  <2> QED
    BY <2>1
<1> HIDE DEF G
<1> QED
  BY <1>0, <1>9, <1>10, <1>11, <1>12 DEF s, q, N, K, GatheredOn

\* The reader's machines by the writer's ids.
MachinesMeet(mw, mr, w, r) ==
  /\ {y.name : y \in ToSet(mr.members)} = Names(r)
  /\ \A i \in 1 .. Len(w.members), j \in 1 .. Len(r.members) : w.members[i].id = r.members[j].id =>
       {z \in ToSet(mr.members) : z.id = mw.members[i].id} = {mr.members[j]}
  /\ \A i \in 1 .. Len(w.members) : (\A j \in 1 .. Len(r.members) : w.members[i].id # r.members[j].id) =>
       {z \in ToSet(mr.members) : z.id = mw.members[i].id} = {}

LEMMA MachinesMet ==
  ASSUME NEW mw, NEW mr, NEW w, NEW r, NEW v2, MutablesAlike(mw, mr, w, r, v2)
  PROVE  MachinesMeet(mw, mr, w, r)
<1> DEFINE s == w.members
           q == r.members
           x == mw.members
           y == mr.members
           N == Len(s)
           K == Len(q)
<1>1. /\ N \in Nat /\ K \in Nat /\ DOMAIN q = 1 .. K /\ DOMAIN y = 1 .. K
      /\ \A i, j \in 1 .. K : i # j => q[i].name # q[j].name /\ q[i].id # q[j].id
  BY DEF MutablesAlike, Distinct
<1>2. \A i \in 1 .. N : x[i].id = s[i].id
  BY DEF MutablesAlike, MemberOf
<1>3. \A j \in 1 .. K : y[j].id = q[j].id /\ y[j].name = q[j].name
  BY DEF MutablesAlike, MemberOf
<1>4. ToSet(y) = {y[j] : j \in 1 .. K} /\ Names(r) = {q[j].name : j \in 1 .. K}
  BY <1>1 DEF ToSet, Names
<1> HIDE DEF s, q, x, y, N, K
<1>5. {z.name : z \in ToSet(y)} = Names(r)
  BY <1>3, <1>4
<1>6. ASSUME NEW i \in 1 .. N, NEW j \in 1 .. K, s[i].id = q[j].id PROVE {z \in ToSet(y) : z.id = x[i].id} = {y[j]}
  <2>1. y[j] \in ToSet(y) /\ y[j].id = x[i].id
    BY <1>2, <1>3, <1>4, <1>6
  <2>2. \A z \in ToSet(y) : z.id = x[i].id => z = y[j]
    BY <1>1, <1>2, <1>3, <1>4, <1>6
  <2> QED
    BY <2>1, <2>2
<1>7. ASSUME NEW i \in 1 .. N, \A j \in 1 .. K : s[i].id # q[j].id PROVE {z \in ToSet(y) : z.id = x[i].id} = {}
  BY <1>2, <1>3, <1>4, <1>7
<1> QED
  BY <1>5, <1>6, <1>7 DEF s, q, x, y, N, K, MachinesMeet

\* Members nobody sent are filled in, and none of them is a key member.
LEMMA FilledIn ==
  ASSUME NEW mw, NEW mr, NEW w, NEW r, NEW v2, MutablesAlike(mw, mr, w, r, v2), NEW v, MutableValue(w, r, v), NEW b
  PROVE  FillMissing(mr, b, Gathered(w, r, v, Len(w.members))) = [b |-> b, v |-> StructSeen(w, r, v)]
<1> DEFINE s == w.members
           q == r.members
           y == mr.members
           N == Len(s)
           K == Len(q)
           data == Gathered(w, r, v, N)
           see(j) == MemberView(w, q[j], v)
           missing == {x \in ToSet(y) : data[x.name] = None}
           named(name) == CHOOSE x \in ToSet(y) : x.name = name
           filled(name) == IF named(name) \in missing /\ ~named(name).optional THEN DefaultOf(named(name).machine) ELSE data[name]
<1>1. /\ N \in Nat /\ K \in Nat /\ DOMAIN q = 1 .. K /\ DOMAIN y = 1 .. K /\ mr.keys = r.keys
      /\ \A i, j \in 1 .. K : i # j => q[i].name # q[j].name /\ q[i].id # q[j].id
  BY DEF MutablesAlike, Distinct
<1>2. \A j \in 1 .. K : /\ y[j].name = q[j].name /\ (y[j].optional <=> q[j].type.k = "opt")
                        /\ q[j].type.k # "opt" => DefaultOf(y[j].machine) = Zero(q[j].type)
                        /\ q[j].name \in r.keys => \E i \in 1 .. N : s[i].id = q[j].id /\ s[i].type.k # "opt"
                        /\ \A i \in 1 .. N : s[i].id = q[j].id => (s[i].type.k = "opt" <=> q[j].type.k = "opt")
  BY DEF MutablesAlike, MemberOf
<1>3. /\ Names(r) = {q[j].name : j \in 1 .. K}
      /\ \A j \in 1 .. K : MemberNamed(r, q[j].name) = q[j]
      /\ \A i \in 1 .. N, j \in 1 .. K : s[i].id = q[j].id => see(j) = View(s[i].type, q[j].type, v[s[i].name])
      /\ \A j \in 1 .. K : (\A i \in 1 .. N : s[i].id # q[j].id) => see(j) = Zero(q[j].type)
  <2>1. Distinct(w.members) /\ Distinct(r.members)
    BY DEF MutablesAlike
  <2>2. Met(w, r, v)
    BY <2>1, MembersMet
  <2> QED
    BY <2>2 DEF Met
<1>4. /\ \A i \in 1 .. N, j \in 1 .. K : s[i].id = q[j].id /\ s[i].type.k # "opt" => View(s[i].type, q[j].type, v[s[i].name]) # None
      /\ \A j \in 1 .. K : q[j].type.k = "opt" => Zero(q[j].type) = None
  BY DEF MutableValue
<1>5. DOMAIN data = Names(r) /\ \A j \in 1 .. K : data[q[j].name] = IF \E i \in 1 .. N : s[i].id = q[j].id THEN see(j) ELSE None
  <2>1. \A j \in 1 .. K : q[j].name \in Names(r)
    BY <1>3
  <2> QED
    BY <1>3, <2>1 DEF Gathered
<1>6. FillMissing(mr, b, data)
        = [b |-> IF \E x \in missing : x.name \in r.keys THEN Fail(b, "KeyFieldNotProvided") ELSE b,
           v |-> [name \in DOMAIN data |-> filled(name)]]
  BY <1>1 DEF FillMissing
<1>7. StructSeen(w, r, v) = [name \in Names(r) |-> MemberView(w, MemberNamed(r, name), v)]
  BY DEF StructSeen
<1>8. \A j : see(j) = MemberView(w, q[j], v)
  OBVIOUS
<1>9. ToSet(y) = {y[j] : j \in 1 .. K}
  BY <1>1 DEF ToSet
<1> HIDE DEF s, q, y, N, K, data, see
<1>10. \A j \in 1 .. K : named(q[j].name) = y[j]
  <2> TAKE j \in 1 .. K
  <2>1. y[j] \in ToSet(y) /\ y[j].name = q[j].name
    BY <1>2, <1>9
  <2>2. \A x \in ToSet(y) : x.name = q[j].name => x = y[j]
    BY <1>1, <1>2, <1>9
  <2> QED
    BY <2>1, <2>2
<1>11. \A j \in 1 .. K : y[j] \in missing <=> data[q[j].name] = None
  BY <1>2, <1>9
<1>12. \A x \in missing : \E j \in 1 .. K : x = y[j]
  BY <1>9
<1> HIDE DEF named, missing
<1>13. ~\E x \in missing : x.name \in r.keys
  <2> SUFFICES ASSUME NEW x \in missing, x.name \in r.keys PROVE FALSE
    OBVIOUS
  <2>1. PICK j \in 1 .. K : x = y[j]
    BY <1>12
  <2>2. data[q[j].name] = None /\ q[j].name \in r.keys
    BY <1>2, <1>11, <2>1
  <2>3. PICK i \in 1 .. N : s[i].id = q[j].id /\ s[i].type.k # "opt"
    BY <1>2, <2>2
  <2>4. data[q[j].name] = see(j) /\ see(j) # None
    BY <1>3, <1>4, <1>5, <2>3
  <2> QED
    BY <2>2, <2>4
<1>14. \A j \in 1 .. K : filled(q[j].name) = see(j)
  <2> TAKE j \in 1 .. K
  <2>1. filled(q[j].name) = IF data[q[j].name] = None /\ q[j].type.k # "opt" THEN Zero(q[j].type) ELSE data[q[j].name]
    BY <1>2, <1>10, <1>11
  <2> HIDE DEF filled
  <2>2. CASE \E i \in 1 .. N : s[i].id = q[j].id
    <3>1. PICK i \in 1 .. N : s[i].id = q[j].id
      BY <2>2
    <3>2. data[q[j].name] = see(j) /\ see(j) = View(s[i].type, q[j].type, v[s[i].name])
      BY <1>3, <1>5, <3>1
    <3>3. q[j].type.k # "opt" => see(j) # None
      BY <1>2, <1>4, <3>1, <3>2
    <3> QED
      BY <2>1, <3>2, <3>3
  <2>3. CASE \A i \in 1 .. N : s[i].id # q[j].id
    <3>1. data[q[j].name] = None /\ see(j) = Zero(q[j].type)
      BY <1>3, <1>5, <2>3
    <3> QED
      BY <1>4, <2>1, <3>1
  <2> QED
    BY <2>2, <2>3
<1>15. \A name \in Names(r) : filled(name) = MemberView(w, MemberNamed(r, name), v)
  BY <1>3, <1>8, <1>14
<1>16. [name \in DOMAIN data |-> filled(name)] = StructSeen(w, r, v)
  <2> HIDE DEF filled
  <2> QED
    BY <1>5, <1>7, <1>15
<1> HIDE DEF filled
<1> QED
  BY <1>6, <1>13, <1>16 DEF data, N, s

\* An error that was met before stays.
LEMMA FillFailed ==
  ASSUME NEW m, NEW b, b.error # "none", NEW data
  PROVE  FillMissing(m, b, data).b = b
BY DEF FillMissing, Fail

\* A member that the reader lacks and must understand.
MissedAt(w, r, v, i) ==
  /\ w.members[i].mu /\ Goes(w.members[i], v)
  /\ \A j \in 1 .. Len(r.members) : w.members[i].id # r.members[j].id
Missed(w, r, v) == \E i \in 1 .. Len(w.members) : MissedAt(w, r, v, i)

\* A member that is written, and how it is found and read.
SentTo(mr, b, a, member, x, r, v) ==
  /\ b.pos < a.pos
  /\ \A d : Holds(d, b, a) => Found(mr, d, a.pos, member)
  /\ \A j \in 1 .. Len(r.members) : \A d, er : x.id = r.members[j].id /\ Holds(d, b, a) =>
       ReadAs(mr, mr.members[j].machine, er, View(Inner(x.type), Inner(r.members[j].type), v[x.name]), d, a.pos)

\* The buffers on the writer's way through the members.
Passed(after, mw, mr, w, r, v, v2, b, a) ==
  /\ after[0] = b /\ after[Len(w.members)] = a
  /\ \A i \in 1 .. Len(w.members) : Fit(after[i - 1], v2) => Extends(after[i - 1], after[i])
  /\ \A i \in 1 .. Len(w.members) : ~Goes(w.members[i], v) => after[i] = after[i - 1]
  /\ \A i \in 1 .. Len(w.members) : Fit(after[i - 1], v2) /\ Goes(w.members[i], v) =>
       SentTo(mr, after[i - 1], after[i], mw.members[i], w.members[i], r, v)

LEMMA MutablePassed ==
  ASSUME NEW mw, NEW mr, NEW w, NEW r, NEW v2, MutablesAlike(mw, mr, w, r, v2), NEW v, MutableValue(w, r, v),
         NEW b, NEW ew, NEW a, a = MutableMembersFrom(mw, b, mw.members, v, "DataSample", ew)
  PROVE  \E after : Passed(after, mw, mr, w, r, v, v2, b, a)
<1> DEFINE N == Len(w.members)
           kind == "DataSample"
<1>1. /\ N \in Nat /\ Len(mw.members) = N
      /\ \A c : Fit(c, v2) /\ mw.v2 => c.alignMax = 4
      /\ mw.v2 <=> mr.v2
  BY DEF MutablesAlike, Distinct
<1>2. \A i \in 1 .. N : LET x == mw.members[i]
                            t == Inner(w.members[i].type)
                        IN  /\ MemberOf(x, w.members[i]) /\ Encodes(x.machine, ValuesOf[t], v2)
                            /\ x.lentype = 4 \/ (mw.v2 /\ SizeKnown(x.machine, t, x.lentype))
  BY DEF MutablesAlike
<1>3. \A i \in 1 .. N, j \in 1 .. Len(r.members) : w.members[i].id = r.members[j].id =>
        ReadsBack(mw.members[i].machine, mr.members[j].machine, Inner(w.members[i].type), Inner(r.members[j].type), v2)
  BY DEF MutablesAlike
<1>4. \A i \in 1 .. N : Goes(w.members[i], v) => v[w.members[i].name] \in ValuesOf[Inner(w.members[i].type)]
  BY DEF MutableValue
<1>5. PICK after : MutableRuns(after, mw, mw.members, b, v, kind, ew)
  BY <1>1, MutableSteps
<1>6. /\ after[0] = b /\ after[N] = a
      /\ \A i \in 1 .. N : after[i] = MutableMemberOrNone(mw, after[i - 1], mw.members[i], v, kind, ew)
  BY <1>1, <1>5 DEF MutableRuns
<1>7. \A i \in 1 .. N : after[i] = IF Goes(w.members[i], v)
                                   THEN SerializeMutableMember(mw, after[i - 1], mw.members[i], v[w.members[i].name], kind,
                                                               KeyEnabled(mw.keys, mw.members[i].name, ew))
                                   ELSE after[i - 1]
  <2> TAKE i \in 1 .. N
  <2>1. MemberOf(mw.members[i], w.members[i])
    BY <1>2
  <2>2. after[i] = MutableMemberOrNone(mw, after[i - 1], mw.members[i], v, kind, ew)
    BY <1>6
  <2> QED
    BY <2>1, <2>2 DEF MutableMemberOrNone, Goes, MemberOf
<1> HIDE DEF N
<1>8. ASSUME NEW i \in 1 .. N, Fit(after[i - 1], v2), Goes(w.members[i], v)
      PROVE  /\ Extends(after[i - 1], after[i])
             /\ SentTo(mr, after[i - 1], after[i], mw.members[i], w.members[i], r, v)
  <2> DEFINE x == mw.members[i]
             y == w.members[i]
             t == Inner(y.type)
             u == v[y.name]
             c == after[i - 1]
             e == KeyEnabled(mw.keys, x.name, ew)
  <2>1. /\ Encodes(x.machine, ValuesOf[t], v2)
        /\ x.lentype = 4 \/ (mw.v2 /\ SizeKnown(x.machine, t, x.lentype))
        /\ u \in ValuesOf[t] /\ Fit(c, v2) /\ (mw.v2 => c.alignMax = 4)
    BY <1>1, <1>2, <1>4, <1>8
  <2>2. after[i] = SerializeMutableMember(mw, c, x, u, "DataSample", e)
    BY <1>7, <1>8
  <2>3. \A j \in 1 .. Len(r.members) : y.id = r.members[j].id => ReadsBack(x.machine, mr.members[j].machine, t, Inner(r.members[j].type), v2)
    BY <1>3
  <2> HIDE DEF x, y, t, u, c, e
  <2>4. /\ Extends(c, after[i]) /\ c.pos < after[i].pos
        /\ \A d : Holds(d, c, after[i]) => Found(mr, d, after[i].pos, x)
        /\ \A mo, tr, d, er : ReadsBack(x.machine, mo, t, tr, v2) /\ Holds(d, c, after[i]) =>
             ReadAs(mr, mo, er, View(t, tr, u), d, after[i].pos)
    BY <1>1, <2>1, <2>2, MemberBack
  <2>5. \A j \in 1 .. Len(r.members) : \A d, er : y.id = r.members[j].id /\ Holds(d, c, after[i]) =>
          ReadAs(mr, mr.members[j].machine, er, View(t, Inner(r.members[j].type), u), d, after[i].pos)
    BY <2>3, <2>4
  <2> QED
    BY <2>4, <2>5 DEF SentTo, c, x, y, t, u
<1>9. ASSUME NEW i \in 1 .. N, Fit(after[i - 1], v2), ~Goes(w.members[i], v)
      PROVE  Extends(after[i - 1], after[i])
  <2>1. after[i] = after[i - 1]
    BY <1>7, <1>9
  <2> QED
    BY <1>9, <2>1, WroteNothing, EncodedExtends DEF Fit
<1>10. Passed(after, mw, mr, w, r, v, v2, b, a)
  BY <1>6, <1>7, <1>8, <1>9 DEF Passed, N
<1> QED
  BY <1>10

\* The reader's step at one of the writer's members, which ends at p.
StepTaken(mr, w, r, v, i, d, er, end, p) ==
  IF MissedAt(w, r, v, i) THEN Rest(mr, d, Gathered(w, r, v, i - 1), er, end).b.error = "MustUnderstand"
  ELSE Rest(mr, d, Gathered(w, r, v, i - 1), er, end) = Rest(mr, Seek(d, p), Gathered(w, r, v, i), er, end)

LEMMA MemberTaken ==
  ASSUME Recursion, NEW mw, NEW mr, NEW w, NEW r, NEW v2, MutablesAlike(mw, mr, w, r, v2), NEW v, MutableValue(w, r, v),
         NEW i \in 1 .. Len(w.members), NEW b, NEW a,
         IF Goes(w.members[i], v) THEN SentTo(mr, b, a, mw.members[i], w.members[i], r, v) ELSE a = b,
         NEW d, Holds(d, b, a), NEW end, b.pos \in Int, a.pos \in Int, mr.v2 => end \in Int /\ a.pos <= end, NEW er
  PROVE  StepTaken(mr, w, r, v, i, d, er, end, a.pos)
<1> DEFINE x == w.members[i]
           y == mw.members[i]
           K == Len(r.members)
           data == Gathered(w, r, v, i - 1)
           next == Gathered(w, r, v, i)
           alone == \A j \in 1 .. K : x.id # r.members[j].id
           known == {z \in ToSet(mr.members) : z.id = y.id}
           seen0(j) == View(Inner(x.type), Inner(r.members[j].type), v[x.name])
<1>1. IsBufferRecord(d) /\ d.pos = b.pos /\ d.error = "none" /\ Seek(d, d.pos) = d
  <2>1. IsBufferRecord(d) /\ d.pos = b.pos /\ d.error = "none"
    BY DEF Holds
  <2> QED
    BY <2>1, SeekFacts
<1>2. Distinct(w.members) /\ Distinct(r.members) /\ MemberOf(y, x) /\ (\A j \in 1 .. K : MemberOf(mr.members[j], r.members[j]))
  BY DEF MutablesAlike
<1>3. /\ \A j \in 1 .. K : x.id = r.members[j].id =>
           next = IF Goes(x, v) THEN [data EXCEPT ![r.members[j].name] = seen0(j)] ELSE data
      /\ alone => next = data
  <2>1. GatheredOn(w, r, v)
    BY <1>2, GatheredOneMore
  <2> QED
    BY <2>1 DEF GatheredOn
<1>4. /\ \A j \in 1 .. K : x.id = r.members[j].id => known = {mr.members[j]}
      /\ alone => known = {}
  <2>1. MachinesMeet(mw, mr, w, r)
    BY MachinesMet
  <2> QED
    BY <2>1 DEF MachinesMeet
<1>5. Goes(x, v) => SentTo(mr, b, a, y, x, r, v)
  OBVIOUS
<1>6. ~Goes(x, v) => a = b
  OBVIOUS
<1>7. MissedAt(w, r, v, i) <=> x.mu /\ Goes(x, v) /\ alone
  BY DEF MissedAt
<1> HIDE DEF x, y, data, next, known, seen0
<1>8. CASE ~Goes(x, v)
  <2>1. next = data
    BY <1>3, <1>8
  <2>2. Seek(d, a.pos) = d
    BY <1>1, <1>6, <1>8
  <2>3. Rest(mr, d, data, er, end) = Rest(mr, Seek(d, a.pos), next, er, end)
    BY <2>1, <2>2
  <2> QED
    BY <1>7, <1>8, <2>3 DEF data, next, StepTaken
<1>9. CASE Goes(x, v)
  <2>1. b.pos < a.pos /\ Found(mr, d, a.pos, y)
    BY <1>5, <1>9 DEF SentTo
  <2>2. \A j \in 1 .. K : x.id = r.members[j].id =>
          ReadAs(mr, mr.members[j].machine, KeyEnabled(mr.keys, mr.members[j].name, er), seen0(j), d, a.pos)
    BY <1>5, <1>9 DEF SentTo, seen0
  <2>3. ~(mr.v2 /\ d.pos >= end)
    BY <1>1, <2>1
  <2>4. /\ \A z, u : known = {z} /\ ReadAs(mr, z.machine, KeyEnabled(mr.keys, z.name, er), u, d, a.pos) =>
             Rest(mr, d, data, er, end) = Rest(mr, Seek(d, a.pos), [data EXCEPT ![z.name] = u], er, end)
        /\ known = {} => IF y.mu THEN Rest(mr, d, data, er, end).b.error = "MustUnderstand"
                         ELSE Rest(mr, d, data, er, end) = Rest(mr, Seek(d, a.pos), data, er, end)
    <3>1. Round(mr, d, data, er, end, a.pos, y)
      BY <1>1, <2>1, <2>3, OneRound
    <3> QED
      BY <3>1 DEF known, Round
  <2>5. y.mu = x.mu
    BY <1>2 DEF MemberOf
  <2>6. CASE alone
    <3>1. known = {} /\ next = data
      BY <1>3, <1>4, <2>6
    <3> QED
      BY <1>7, <1>9, <2>4, <2>5, <2>6, <3>1 DEF data, next, StepTaken
  <2>7. CASE ~alone
    <3>1. PICK j \in 1 .. K : x.id = r.members[j].id
      BY <2>7
    <3>2. /\ known = {mr.members[j]} /\ next = [data EXCEPT ![r.members[j].name] = seen0(j)]
          /\ mr.members[j].name = r.members[j].name
          /\ ReadAs(mr, mr.members[j].machine, KeyEnabled(mr.keys, mr.members[j].name, er), seen0(j), d, a.pos)
      BY <1>2, <1>3, <1>4, <1>9, <2>2, <3>1 DEF MemberOf
    <3> DEFINE z == mr.members[j]
    <3> HIDE DEF z
    <3>3. /\ known = {z} /\ next = [data EXCEPT ![z.name] = seen0(j)]
          /\ ReadAs(mr, z.machine, KeyEnabled(mr.keys, z.name, er), seen0(j), d, a.pos)
      BY <3>2 DEF z
    <3>4. Rest(mr, d, data, er, end) = Rest(mr, Seek(d, a.pos), [data EXCEPT ![z.name] = seen0(j)], er, end)
      BY <2>4, <3>3
    <3>5. Rest(mr, d, data, er, end) = Rest(mr, Seek(d, a.pos), next, er, end)
      BY <3>3, <3>4
    <3> QED
      BY <1>7, <2>7, <3>5 DEF data, next, StepTaken
  <2> QED
    BY <2>6, <2>7
<1> QED
  BY <1>8, <1>9

\* All members of w between d.pos and p, as the loop of the machine mr reads them.
AllTaken(mr, w, r, v, d, er, end, p) ==
  IF Missed(w, r, v) THEN Rest(mr, d, Gathered(w, r, v, 0), er, end).b.error = "MustUnderstand"
  ELSE Rest(mr, d, Gathered(w, r, v, 0), er, end)
         = Rest(mr, Seek(d, p), Gathered(w, r, v, Len(w.members)), er, end)

LEMMA MembersTaken ==
  ASSUME Recursion, NEW mw, NEW mr, NEW w, NEW r, NEW v2, MutablesAlike(mw, mr, w, r, v2), NEW v, MutableValue(w, r, v),
         NEW b, Fit(b, v2), NEW a, NEW after, Passed(after, mw, mr, w, r, v, v2, b, a),
         NEW d, Holds(d, b, a), NEW end, mr.v2 => end \in Int /\ a.pos <= end, NEW er
  PROVE  Extends(b, a) /\ AllTaken(mr, w, r, v, d, er, end, a.pos)
<1> DEFINE N == Len(w.members)
           G(i) == Gathered(w, r, v, i)
           first == Rest(mr, d, G(0), er, end)
           at(i) == Seek(d, after[i].pos)
           miss(i) == MissedAt(w, r, v, i)
           Done(i) == IF \E k \in 1 .. i : miss(k) THEN first.b.error = "MustUnderstand"
                      ELSE first = Rest(mr, at(i), G(i), er, end)
           T == {i \in Nat : Done(i)}
<1>1. N \in Nat
  BY DEF MutablesAlike, Distinct
<1>2. /\ after[0] = b /\ after[N] = a
      /\ \A i \in 1 .. N : Fit(after[i - 1], v2) => Extends(after[i - 1], after[i])
      /\ \A i \in 1 .. N : ~Goes(w.members[i], v) => after[i] = after[i - 1]
      /\ \A i \in 1 .. N : Fit(after[i - 1], v2) /\ Goes(w.members[i], v) =>
           SentTo(mr, after[i - 1], after[i], mw.members[i], w.members[i], r, v)
  BY DEF Passed
<1>3. Missed(w, r, v) <=> \E k \in 1 .. N : miss(k)
  BY DEF Missed
<1> HIDE DEF N
<1>4. \A i \in 0 .. N : Fit(after[i], v2) /\ Extends(after[0], after[i]) /\ Extends(after[i], after[N])
  BY <1>1, <1>2, Chain
<1>5. \A i \in 1 .. N : Holds(Seek(d, after[i - 1].pos), after[i - 1], after[i])
  BY <1>1, <1>2, ChainHeld
<1>6. IsBufferRecord(d) /\ d.pos = b.pos /\ Seek(d, d.pos) = d /\ \A p, q : Seek(Seek(d, p), q) = Seek(d, q)
  <2>1. IsBufferRecord(d) /\ d.pos = b.pos
    BY HeldRecord
  <2> QED
    BY <2>1, SeekFacts
<1>7. \A i \in 0 .. N : after[i].pos \in Nat /\ after[i].pos <= a.pos /\ a.pos \in Nat
  <2> TAKE i \in 0 .. N
  <2>1. Sound(after[i]) /\ Extends(after[i], a)
    BY <1>2, <1>4 DEF Fit
  <2> QED
    BY <2>1, ExtendsFacts
<1>8. 0 \in T
  <2>1. at(0) = d
    BY <1>2, <1>6
  <2> HIDE DEF at, G, miss
  <2> QED
    BY <2>1
<1>9. ASSUME NEW i \in 0 .. N - 1, i \in T PROVE i + 1 \in T
  <2> DEFINE k == i + 1
  <2>1. k \in 1 .. N /\ k - 1 = i /\ i \in 0 .. N /\ k \in 0 .. N /\ k \in Nat /\ k = i + 1
    BY <1>1
  <2> HIDE DEF k
  <2>2. IF Goes(w.members[k], v) THEN SentTo(mr, after[i], after[k], mw.members[k], w.members[k], r, v)
        ELSE after[k] = after[i]
    BY <1>2, <1>4, <2>1
  <2>3. Holds(at(i), after[i], after[k])
    BY <1>5, <2>1
  <2>4. after[i].pos \in Int /\ after[k].pos \in Int /\ (mr.v2 => end \in Int /\ after[k].pos <= end)
    BY <1>7, <2>1
  <2>5. k \in 1 .. Len(w.members)
    BY <2>1 DEF N
  <2>6. Seek(at(i), after[k].pos) = at(k)
    BY <1>6
  <2> HIDE DEF at
  <2>7. StepTaken(mr, w, r, v, k, at(i), er, end, after[k].pos)
    BY <2>2, <2>3, <2>4, <2>5, MemberTaken
  <2>8. IF miss(k) THEN Rest(mr, at(i), G(i), er, end).b.error = "MustUnderstand"
        ELSE Rest(mr, at(i), G(i), er, end) = Rest(mr, at(k), G(k), er, end)
    BY <2>1, <2>6, <2>7 DEF StepTaken
  <2> HIDE DEF G, miss
  <2>9. \A j : j \in 1 .. k <=> (j \in 1 .. i \/ j = k)
    BY <2>1
  <2>10. Done(i)
    BY <1>9
  <2>11. Done(k)
    <3>1. CASE \E j \in 1 .. i : miss(j)
      BY <2>9, <2>10, <3>1
    <3>2. CASE ~\E j \in 1 .. i : miss(j)
      <4>1. first = Rest(mr, at(i), G(i), er, end)
        BY <2>10, <3>2
      <4>2. (\E j \in 1 .. k : miss(j)) <=> miss(k)
        BY <2>9, <3>2
      <4> QED
        BY <2>8, <4>1, <4>2
    <3> QED
      BY <3>1, <3>2
  <2> HIDE DEF Done
  <2> QED
    BY <2>1, <2>11
<1> HIDE DEF T
<1>10. 0 .. N \subseteq T
  BY <1>1, <1>8, <1>9, IntervalInduction
<1>11. Done(N)
  BY <1>1, <1>10 DEF T
<1>12. at(N) = Seek(d, a.pos)
  BY <1>2
<1>13. Extends(b, a)
  BY <1>1, <1>2, <1>4
<1> HIDE DEF at, miss
<1>14. IF Missed(w, r, v) THEN first.b.error = "MustUnderstand" ELSE first = Rest(mr, Seek(d, a.pos), G(N), er, end)
  BY <1>3, <1>11, <1>12
<1> QED
  BY <1>13, <1>14 DEF N, AllTaken

\* The end of the list of members in XCDR1.
LEMMA BackTail ==
  ASSUME NEW v2, NEW c, Fit(c, v2), NEW a, a = Write(Write(Align(c, 4), 2, ListEnd), 2, 0)
  PROVE  /\ Extends(c, a) /\ c.pos < a.pos
         /\ \A d : Holds(d, c, a) => Header1(Align(d, 4)).end /\ Header1(Align(d, 4)).b = Seek(d, a.pos)
<1> DEFINE four == 4
           n == 2
           z == 0
           aligned == Align(c, four)
           pid == Write(aligned, n, ListEnd)
<1>1. four \in Widths /\ n \in Widths /\ four = 4 /\ n = 2 /\ z = 0 /\ a = Write(pid, n, z)
  BY DEF Widths
<1>2. pid = Write(aligned, n, ListEnd) /\ aligned = Align(c, four)
  OBVIOUS
<1> HIDE DEF four, n, z, pid
<1>3. Sound(c) /\ c.pos \in Nat
  BY DEF Fit, Sound
<1>4. Extends(c, aligned) /\ Sound(aligned) /\ aligned.pos \in Nat /\ c.pos <= aligned.pos
  <2>1. Extends(c, aligned) /\ Sound(aligned)
    BY <1>1, <1>3, AlignWrote DEF Extends, Wrote
  <2> QED
    BY <1>3, <2>1, ExtendsFacts
<1>5. Fit(aligned, v2)
  BY <1>4, FitStays
<1> HIDE DEF aligned
<1>6. /\ Fit(pid, v2) /\ Sound(pid) /\ Extends(aligned, pid) /\ aligned.pos < pid.pos
      /\ \A d : Holds(d, aligned, pid) => Read(d, n) = Came(d, pid.pos, ListEnd)
  BY <1>1, <1>2, <1>5, NumberHere
<1>7. /\ Extends(pid, a) /\ pid.pos < a.pos
      /\ \A d : Holds(d, pid, a) => Read(d, n) = Came(d, a.pos, z)
  <2>1. Fit(pid, v2)
    BY <1>6
  <2> QED
    BY <1>1, <2>1, NumberHere
<1>8. Extends(aligned, a)
  BY <1>4, <1>6, <1>7, ExtendsMore
<1>9. Extends(c, a)
  BY <1>3, <1>4, <1>8, ExtendsMore
<1>10. c.pos < a.pos
  <2>1. pid.pos \in Nat /\ a.pos \in Nat
    BY <1>6, <1>7, ExtendsFacts
  <2> QED
    BY <1>3, <1>4, <1>6, <1>7, <2>1
<1>11. ASSUME NEW d, Holds(d, c, a)
       PROVE  Header1(Align(d, 4)).end /\ Header1(Align(d, 4)).b = Seek(d, a.pos)
  <2> DEFINE e == Align(d, 4)
             f == Seek(d, aligned.pos)
             g == Seek(d, pid.pos)
             x == Read(e, 2)
             y == Read(x.b, 2)
  <2>1. Holds(d, c, aligned) /\ Holds(f, aligned, a)
    BY <1>3, <1>4, <1>8, <1>11, HoldsParts
  <2>2. IsBufferRecord(d)
    BY <1>11, HeldRecord
  <2>3. e = f
    BY <1>1, <1>2, <1>3, <1>8, <1>11, AlignHeld
  <2>4. Holds(f, aligned, pid) /\ Holds(Seek(f, pid.pos), pid, a)
    BY <1>4, <1>6, <1>7, <2>1, HoldsParts
  <2>5. Seek(f, pid.pos) = g /\ Came(f, pid.pos, ListEnd) = Came(d, pid.pos, ListEnd)
    BY <2>2, CameAgain
  <2>6. Came(g, a.pos, z) = Came(d, a.pos, z)
    BY <2>2, CameAgain
  <2> HIDE DEF e, f, g
  <2>7. x = Came(d, pid.pos, ListEnd)
    BY <1>1, <1>6, <2>3, <2>4, <2>5
  <2>8. x.b = g /\ x.v = ListEnd
    BY <2>7 DEF Came, g
  <2>9. y = Came(d, a.pos, z)
    BY <1>1, <1>7, <2>4, <2>5, <2>6, <2>8
  <2> HIDE DEF x
  <2>10. y.b = Seek(d, a.pos)
    BY <2>9 DEF Came
  <2> HIDE DEF y
  <2>11. Header1(e) = [end |-> TRUE, b |-> y.b, id |-> None, mu |-> FALSE, size |-> 0]
    BY <2>8 DEF Header1, x, y
  <2>12. Header1(e).end /\ Header1(e).b = y.b
    BY <2>11
  <2> QED
    BY <2>10, <2>12 DEF e
<1> QED
  BY <1>9, <1>10, <1>11

\* What a reader makes of a mutable struct that ends at p.
MutableRead(mr, d, er, w, r, v, p) ==
  LET x == DeserializeMutable(mr, d, "DataSample", er)
  IN  IF Missed(w, r, v) THEN x.b.error = "MustUnderstand" ELSE x = Came(d, p, StructSeen(w, r, v))

LEMMA BackMutable ==
  ASSUME Recursion, NEW mw, NEW mr, NEW w, NEW r, NEW v2, MutablesAlike(mw, mr, w, r, v2), NEW v, MutableValue(w, r, v),
         NEW b, Fit(b, v2), NEW ew, NEW a, a = SerializeMutable(mw, b, v, "DataSample", ew)
  PROVE  /\ Extends(b, a) /\ b.pos < a.pos
         /\ \A d, er : Holds(d, b, a) => MutableRead(mr, d, er, w, r, v, a.pos)
<1> DEFINE kind == "DataSample"
           N == Len(w.members)
           start == IF mw.v2 THEN Write(Align(b, 4), 4, 0) ELSE b
           done == MutableMembersFrom(mw, start, mw.members, v, kind, ew)
           size == done.pos - start.pos
           last == Write(Write(Align(done, 4), 2, ListEnd), 2, 0)
           G(i) == Gathered(w, r, v, i)
           see == StructSeen(w, r, v)
           miss == Missed(w, r, v)
<1>1. a = IF mw.v2 THEN Patch(done, start.pos - 4, size) ELSE last
  BY DEF SerializeMutable, MemberOrder
<1>2. /\ start = (IF mw.v2 THEN Write(Align(b, 4), 4, 0) ELSE b)
      /\ done = MutableMembersFrom(mw, start, mw.members, v, "DataSample", ew)
      /\ size = done.pos - start.pos
      /\ last = Write(Write(Align(done, 4), 2, ListEnd), 2, 0)
  OBVIOUS
<1>3. /\ mw.v2 <=> mr.v2
      /\ [name \in {y.name : y \in ToSet(mr.members)} |-> None] = G(0)
  <2>1. MachinesMeet(mw, mr, w, r)
    BY MachinesMet
  <2>2. Distinct(w.members) /\ Distinct(r.members) /\ (mw.v2 <=> mr.v2)
    BY DEF MutablesAlike
  <2>3. GatheredOn(w, r, v)
    BY <2>2, GatheredOneMore
  <2> QED
    BY <2>1, <2>2, <2>3 DEF MachinesMeet, GatheredOn
<1>4. /\ \A c : FillMissing(mr, c, G(N)) = [b |-> c, v |-> see]
      /\ \A c, data : c.error = "MustUnderstand" => FillMissing(mr, c, data).b = c
  <2>1. \A c : FillMissing(mr, c, G(N)) = [b |-> c, v |-> see]
    BY FilledIn
  <2>2. \A c, data : c.error = "MustUnderstand" => FillMissing(mr, c, data).b = c
    BY FillFailed
  <2> QED
    BY <2>1, <2>2
<1> HIDE DEF start, done, size, last, G, see, miss
<1>5. Fit(start, v2) /\ Sound(start) /\ Sound(b) /\ Extends(b, start) /\ b.pos <= start.pos /\ b.pos \in Nat /\ start.pos \in Nat
  <2>1. Sound(b) /\ b.pos \in Nat
    BY DEF Fit, Sound
  <2>2. CASE mw.v2
    <3>1. Fit(start, v2) /\ Extends(b, start) /\ b.pos < start.pos
      BY <1>2, <2>2, FrameOpened
    <3>2. Sound(start) /\ start.pos \in Nat
      BY <3>1 DEF Fit, Sound
    <3> QED
      BY <2>1, <3>1, <3>2
  <2>3. CASE ~mw.v2
    <3>1. start = b /\ Extends(b, b)
      BY <1>2, <2>1, <2>3, WroteNothing, EncodedExtends
    <3> QED
      BY <2>1, <3>1
  <2> QED
    BY <2>2, <2>3
<1>6. PICK after : Passed(after, mw, mr, w, r, v, v2, start, done)
  BY <1>2, MutablePassed
\* The reader's loop from the first member to the last.
<1>7. /\ Extends(start, done)
      /\ \A d, er, end : Holds(d, start, done) /\ (mr.v2 => end \in Int /\ done.pos <= end) =>
           IF miss THEN Rest(mr, d, G(0), er, end).b.error = "MustUnderstand"
           ELSE Rest(mr, d, G(0), er, end) = Rest(mr, Seek(d, done.pos), G(N), er, end)
  <2>1. ASSUME NEW d, Holds(d, start, done), NEW er, NEW end, mr.v2 => end \in Int /\ done.pos <= end
        PROVE  /\ Extends(start, done)
               /\ IF miss THEN Rest(mr, d, G(0), er, end).b.error = "MustUnderstand"
                  ELSE Rest(mr, d, G(0), er, end) = Rest(mr, Seek(d, done.pos), G(N), er, end)
    <3>1. Fit(start, v2)
      BY <1>5
    <3>2. /\ Extends(start, done)
          /\ IF Missed(w, r, v) THEN Rest(mr, d, Gathered(w, r, v, 0), er, end).b.error = "MustUnderstand"
             ELSE Rest(mr, d, Gathered(w, r, v, 0), er, end)
                    = Rest(mr, Seek(d, done.pos), Gathered(w, r, v, Len(w.members)), er, end)
      <4>1. Extends(start, done) /\ AllTaken(mr, w, r, v, d, er, end, done.pos)
        BY <1>6, <2>1, <3>1, MembersTaken
      <4> QED
        BY <4>1 DEF AllTaken
    <3> QED
      BY <3>2 DEF miss, G, N
  <2>2. Extends(start, done)
    <3>1. Passed(after, mw, mr, w, r, v, v2, start, done) /\ Fit(start, v2) /\ N \in Nat
      BY <1>5, <1>6 DEF MutablesAlike, Distinct
    <3>2. /\ after[0] = start /\ after[N] = done
          /\ \A i \in 1 .. N : Fit(after[i - 1], v2) => Extends(after[i - 1], after[i])
      BY <3>1 DEF Passed
    <3> HIDE DEF N
    <3>3. \A i \in 0 .. N : Fit(after[i], v2) /\ Extends(after[0], after[i]) /\ Extends(after[i], after[N])
      BY <3>1, <3>2, Chain
    <3> QED
      BY <3>1, <3>2, <3>3
  <2> QED
    BY <2>1, <2>2
<1>8. done.pos \in Nat /\ start.pos <= done.pos /\ Fit(done, v2) /\ Extends(b, done)
  <2>1. done.pos \in Nat /\ start.pos <= done.pos
    BY <1>5, <1>7, ExtendsFacts
  <2>2. Fit(start, v2)
    BY <1>5
  <2>3. Fit(done, v2)
    BY <1>7, <2>2, FitStays
  <2>4. Extends(b, done)
    BY <1>5, <1>7, ExtendsMore
  <2> QED
    BY <2>1, <2>3, <2>4
<1> HIDE DEF N
<1>9. CASE mw.v2
  <2>1. start = Write(Align(b, 4), 4, 0) /\ a = Patch(done, start.pos - 4, size)
    BY <1>1, <1>2, <1>9
  <2>2. Extends(b, a) /\ b.pos < a.pos /\ a.pos = done.pos
    BY <1>7, <2>1, FrameClosed
  <2>3. ASSUME NEW d, NEW er, Holds(d, b, a) PROVE MutableRead(mr, d, er, w, r, v, a.pos)
    <3> DEFINE n == Number(d, 4)
               c == Seek(d, start.pos)
               f == Seek(d, done.pos)
               end == done.pos
               rest == Rest(mr, c, G(0), er, end)
    <3>1. n = Came(d, start.pos, size) /\ Holds(c, start, done)
      BY <1>5, <1>7, <2>1, <2>3, Framed
    <3>2. IsBufferRecord(d)
      BY <2>3, HeldRecord
    <3>3. n.b = c /\ n.v = size
      BY <3>1 DEF Came
    <3>4. c.pos = start.pos /\ Seek(c, done.pos) = f /\ f.pos = done.pos /\ Seek(f, end) = f
      BY <3>2, SeekFacts
    <3>5. n.b.pos + n.v = end
      BY <1>2, <1>5, <1>8, <3>3, <3>4
    <3> HIDE DEF n, c, f
    <3>6. DeserializeMutable(mr, d, kind, er) = FillMissing(mr, Seek(rest.b, end), rest.v)
      BY <1>3, <1>9, <3>3, <3>5 DEF DeserializeMutable, Rest, n
    <3>7. mr.v2 => end \in Int /\ done.pos <= end
      BY <1>8
    <3>8. IF miss THEN rest.b.error = "MustUnderstand" ELSE rest = Rest(mr, f, G(N), er, end)
      BY <1>7, <3>1, <3>4, <3>7
    <3>9. Rest(mr, f, G(N), er, end) = [b |-> f, v |-> G(N)]
      <4>1. Rest(mr, f, G(N), er, end) = RestOfMutable(mr, f, G(N), kind, er, end)
        BY DEF Rest, Recursion
      <4>2. f.pos >= end
        BY <1>8, <3>4
      <4> QED
        BY <1>3, <1>9, <4>1, <4>2 DEF RestOfMutable
    <3> HIDE DEF rest
    <3>10. CASE miss
      <4>1. Seek(rest.b, end).error = "MustUnderstand"
        BY <3>8, <3>10 DEF Seek
      <4>2. FillMissing(mr, Seek(rest.b, end), rest.v).b.error = "MustUnderstand"
        BY <1>4, <4>1
      <4> QED
        BY <3>6, <3>10, <4>2 DEF MutableRead, miss, kind
    <3>11. CASE ~miss
      <4>1. rest = [b |-> f, v |-> G(N)]
        BY <3>8, <3>9, <3>11
      <4>2. Seek(rest.b, end) = f /\ rest.v = G(N)
        BY <3>4, <4>1
      <4>3. DeserializeMutable(mr, d, kind, er) = [b |-> f, v |-> see]
        BY <1>4, <3>6, <4>2
      <4> QED
        BY <2>2, <3>11, <4>3 DEF MutableRead, miss, kind, see, f, Came
    <3> QED
      BY <3>10, <3>11
  <2> QED
    BY <2>2, <2>3
<1>10. CASE ~mw.v2
  <2>1. start = b /\ a = Write(Write(Align(done, 4), 2, ListEnd), 2, 0)
    BY <1>1, <1>2, <1>10
  <2>2. /\ Extends(done, a) /\ done.pos < a.pos
        /\ \A d : Holds(d, done, a) => Header1(Align(d, 4)).end /\ Header1(Align(d, 4)).b = Seek(d, a.pos)
    <3>1. Fit(done, v2)
      BY <1>8
    <3> QED
      BY <2>1, <3>1, BackTail
  <2>3. Extends(b, a) /\ b.pos < a.pos
    <3>1. Extends(b, a)
      BY <1>5, <1>8, <2>2, ExtendsMore
    <3>2. a.pos \in Nat
      BY <1>5, <3>1, ExtendsFacts
    <3> QED
      BY <1>5, <1>8, <2>2, <3>1, <3>2
  <2>4. ASSUME NEW d, NEW er, Holds(d, b, a) PROVE MutableRead(mr, d, er, w, r, v, a.pos)
    <3> DEFINE end == Number(d, 4).b.pos + Number(d, 4).v
               f == Seek(d, done.pos)
               rest == Rest(mr, d, G(0), er, end)
               h == Header1(Align(f, 4))
    <3>1. Holds(d, b, done) /\ Holds(f, done, a)
      BY <1>5, <1>8, <2>2, <2>4, HoldsParts
    <3>2. IsBufferRecord(d)
      BY <2>4, HeldRecord
    <3>3. Seek(f, a.pos) = Seek(d, a.pos)
      BY <3>2, SeekFacts
    <3> HIDE DEF end, f
    <3>4. DeserializeMutable(mr, d, kind, er) = FillMissing(mr, rest.b, rest.v)
      BY <1>3, <1>10 DEF DeserializeMutable, Rest, end
    <3>5. ~mr.v2
      BY <1>3, <1>10
    <3>6. IF miss THEN rest.b.error = "MustUnderstand" ELSE rest = Rest(mr, f, G(N), er, end)
      BY <1>7, <2>1, <3>1, <3>5 DEF f
    <3>7. h.end /\ h.b = Seek(d, a.pos) /\ f.error = "none"
      BY <2>2, <3>1, <3>3 DEF Holds
    <3> HIDE DEF rest
    <3>8. Rest(mr, f, G(N), er, end) = [b |-> Seek(d, a.pos), v |-> G(N)]
      <4>1. Rest(mr, f, G(N), er, end) = RestOfMutable(mr, f, G(N), kind, er, end)
        BY DEF Rest, Recursion
      <4>2. RestOfMutable(mr, f, G(N), kind, er, end) = MemberThenRest(mr, h, G(N), kind, er, end)
        BY <3>5, <3>7 DEF RestOfMutable
      <4> HIDE DEF h
      <4> QED
        BY <3>7, <4>1, <4>2 DEF MemberThenRest
    <3>9. CASE miss
      <4>1. FillMissing(mr, rest.b, rest.v).b.error = "MustUnderstand"
        BY <1>4, <3>6, <3>9
      <4> QED
        BY <3>4, <3>9, <4>1 DEF MutableRead, miss, kind
    <3>10. CASE ~miss
      <4>1. rest.b = Seek(d, a.pos) /\ rest.v = G(N)
        BY <3>6, <3>8, <3>10
      <4>2. DeserializeMutable(mr, d, kind, er) = [b |-> Seek(d, a.pos), v |-> see]
        BY <1>4, <3>4, <4>1
      <4> QED
        BY <3>10, <4>2 DEF MutableRead, miss, kind, see, Came
    <3> QED
      BY <3>9, <3>10
  <2> QED
    BY <2>3, <2>4
<1> QED
  BY <1>9, <1>10

\* Two lists with the same names: each is found by its name.
ByName(s, u) ==
  /\ {x.name : x \in ToSet(u)} = {x.name : x \in ToSet(s)}
  /\ \A n \in {x.name : x \in ToSet(s)} : \E i \in DOMAIN s :
       /\ n = s[i].name
       /\ (CHOOSE x \in ToSet(s) : x.name = n) = s[i]
       /\ (CHOOSE x \in ToSet(u) : x.name = n) = u[i]

LEMMA NamesAlike ==
  ASSUME NEW s, Distinct(s), NEW u, DOMAIN u = DOMAIN s, \A i \in DOMAIN s : u[i].name = s[i].name
  PROVE  ByName(s, u)
<1>1. DOMAIN s = 1 .. Len(s) /\ \A i, j \in DOMAIN s : i # j => s[i].name # s[j].name
  BY DEF Distinct
<1>2. /\ ToSet(s) = {s[i] : i \in DOMAIN s}
      /\ ToSet(u) = {u[i] : i \in DOMAIN s}
  BY DEF ToSet
<1>3. {x.name : x \in ToSet(u)} = {x.name : x \in ToSet(s)}
  BY <1>2
<1>4. ASSUME NEW n \in {x.name : x \in ToSet(s)}
      PROVE  \E i \in DOMAIN s : /\ n = s[i].name
                                 /\ (CHOOSE x \in ToSet(s) : x.name = n) = s[i]
                                 /\ (CHOOSE x \in ToSet(u) : x.name = n) = u[i]
  <2>1. PICK i \in DOMAIN s : n = s[i].name
    BY <1>2, <1>4
  <2>2. s[i] \in ToSet(s) /\ \A x \in ToSet(s) : x.name = n => x = s[i]
    BY <1>1, <1>2, <2>1
  <2>3. u[i] \in ToSet(u) /\ u[i].name = n /\ \A x \in ToSet(u) : x.name = n => x = u[i]
    BY <1>1, <1>2, <2>1
  <2>4. (CHOOSE x \in ToSet(s) : x.name = n) = s[i]
    BY <2>1, <2>2
  <2>5. (CHOOSE x \in ToSet(u) : x.name = n) = u[i]
    BY <2>3
  <2> QED
    BY <2>1, <2>4, <2>5
<1> QED
  BY <1>3, <1>4 DEF ByName

LEMMA MembersDistinct ==
  ASSUME NEW t, IsDescription(t), t.k = "struct"
  PROVE  Distinct(t.members) /\ Len(t.members) > 0
<1>1. /\ t.members \in Seq(ToSet(t.members)) /\ t.members # <<>>
      /\ \A i, j \in DOMAIN t.members :
           i # j => t.members[i].name # t.members[j].name /\ t.members[i].id # t.members[j].id
  BY DEF IsDescription
<1>2. Len(t.members) \in Nat /\ DOMAIN t.members = 1 .. Len(t.members) /\ Len(t.members) # 0
  BY <1>1
<1> QED
  BY <1>1, <1>2 DEF Distinct

\* The machines of t give t's zero.
Zeroed(t, v2) ==
  \A id, header : /\ DefaultOf(MachineFor(t, id, header, v2)) = Zero(t)
                  /\ DefaultOf(StripHeaders(MachineFor(t, id, header, v2))) = Zero(t)

LEMMA ZeroedBy ==
  ASSUME Recursion, ViewRecursion, NEW t, NEW v2,
         \A id, header :
           /\ BuiltMachine(t, id, header, v2).m # "Array"
           /\ DefaultValue(BuiltMachine(t, id, header, v2)) = ZeroValue(t)
  PROVE  Zeroed(t, v2)
<1> SUFFICES ASSUME NEW id, NEW header
             PROVE  /\ DefaultOf(MachineFor(t, id, header, v2)) = Zero(t)
                    /\ DefaultOf(StripHeaders(MachineFor(t, id, header, v2))) = Zero(t)
  BY DEF Zeroed
<1> DEFINE m == MachineFor(t, id, header, v2)
<1>1. m = BuiltMachine(t, id, header, v2)
  BY DEF Recursion
<1> HIDE DEF m
<1>2. StripHeaders(m) = m
  BY <1>1 DEF StripHeaders
<1>3. DefaultOf(m) = DefaultValue(m) /\ Zero(t) = ZeroValue(t)
  BY DEF Recursion, ViewRecursion
<1> QED
  BY <1>1, <1>2, <1>3 DEF m

LEMMA ZeroedSimple ==
  ASSUME Recursion, ViewRecursion, NEW t, NEW v2,
         t.k \in {"prim", "char", "string", "bytes", "enum", "bitmask", "list", "seq", "map", "opt"}
  PROVE  Zeroed(t, v2)
<1> SUFFICES ASSUME NEW id, NEW header
             PROVE  /\ BuiltMachine(t, id, header, v2).m # "Array"
                    /\ DefaultValue(BuiltMachine(t, id, header, v2)) = ZeroValue(t)
  BY ZeroedBy
<1> DEFINE m == BuiltMachine(t, id, header, v2)
<1>1. CASE t.k \in {"prim", "char"}
  <2>1. m.m \in {"Primitive", "Char"}
    BY <1>1 DEF BuiltMachine
  <2> HIDE DEF m
  <2> QED
    BY <1>1, <2>1 DEF DefaultValue, ZeroValue, m
<1>2. CASE t.k = "enum"
  <2>1. m.m \in {"Enum", "BitBoundEnum"} /\ m.default = t.default
    BY <1>2 DEF BuiltMachine
  <2> HIDE DEF m
  <2> QED
    BY <1>2, <2>1 DEF DefaultValue, ZeroValue, m
<1>3. CASE t.k \in {"string", "bytes", "list", "seq", "map", "bitmask"}
  <2>1. m.m \in {"String", "Bytes", "Sequence", "PlainSequence", "Mapping", "BitMask"}
    BY <1>3 DEF BuiltMachine, SequenceMachineFor
  <2> HIDE DEF m
  <2> QED
    BY <1>3, <2>1 DEF DefaultValue, ZeroValue, m
<1>4. CASE t.k = "opt"
  <2>1. m.m = "Optional"
    BY <1>4 DEF BuiltMachine
  <2> HIDE DEF m
  <2> QED
    BY <1>4, <2>1 DEF DefaultValue, ZeroValue, m
<1> QED
  BY <1>1, <1>2, <1>3, <1>4

LEMMA ZeroedArray ==
  ASSUME Recursion, ViewRecursion, NEW t, t.k = "array", NEW v2, Zeroed(t.of, v2)
  PROVE  Zeroed(t, v2)
<1> SUFFICES ASSUME NEW id, NEW header
             PROVE  /\ DefaultOf(MachineFor(t, id, header, v2)) = Zero(t)
                    /\ DefaultOf(StripHeaders(MachineFor(t, id, header, v2))) = Zero(t)
  BY DEF Zeroed
<1> DEFINE m == MachineFor(t, id, header, v2)
           sub == MachineFor(t.of, None, header, v2)
           zeros == [i \in 1 .. t.len |-> Zero(t.of)]
<1>1. m = ArrayMachineFor(t, header, v2)
  BY DEF Recursion, BuiltMachine
<1>2. Zero(t) = zeros
  BY DEF ViewRecursion, ZeroValue
<1>3. DefaultOf(sub) = Zero(t.of) /\ DefaultOf(StripHeaders(sub)) = Zero(t.of)
  BY DEF Zeroed
<1>4. CASE sub.m = "Primitive"
  <2>1. m = [m |-> "PlainArray", size |-> sub.size, len |-> t.len]
    BY <1>1, <1>4 DEF ArrayMachineFor
  <2>2. Zero(t.of) = 0
    <3>1. DefaultOf(sub) = DefaultValue(sub)
      BY DEF Recursion
    <3> HIDE DEF sub
    <3>2. DefaultValue(sub) = 0
      BY <1>4 DEF DefaultValue
    <3> QED
      BY <1>3, <3>1, <3>2
  <2>3. DefaultOf(m) = DefaultValue(m)
    BY DEF Recursion
  <2> HIDE DEF m
  <2>4. m.m = "PlainArray" /\ m.len = t.len
    BY <2>1
  <2>5. DefaultValue(m) = [i \in 1 .. m.len |-> 0]
    BY <2>4 DEF DefaultValue
  <2>6. StripHeaders(m) = m
    BY <2>4 DEF StripHeaders
  <2> QED
    BY <1>2, <2>2, <2>3, <2>4, <2>5, <2>6 DEF m
<1>5. CASE sub.m # "Primitive"
  <2> DEFINE plain == Innermost(sub) \in {"PlainArray", "Char"}
             h == header /\ ~plain
  <2>1. m = [m |-> "Array", of |-> StripHeaders(sub), inner |-> Innermost(sub), len |-> t.len, header |-> h]
    BY <1>1, <1>5 DEF ArrayMachineFor
  <2> HIDE DEF m, sub, h
  <2>2. m.m = "Array" /\ m.of = StripHeaders(sub) /\ m.len = t.len
    BY <2>1
  <2>3. StripHeaders(m).m = "Array" /\ StripHeaders(m).of = StripHeaders(sub) /\ StripHeaders(m).len = t.len
    BY <2>1 DEF StripHeaders
  <2>4. ASSUME NEW n, n.m = "Array", n.of = StripHeaders(sub), n.len = t.len
        PROVE  DefaultOf(n) = zeros
    <3>1. DefaultOf(n) = DefaultValue(n)
      BY DEF Recursion
    <3>2. DefaultValue(n) = [i \in 1 .. n.len |-> DefaultOf(n.of)]
      BY <2>4 DEF DefaultValue
    <3> QED
      BY <1>3, <2>4, <3>1, <3>2
  <2> QED
    BY <1>2, <2>2, <2>3, <2>4 DEF m
<1> QED
  BY <1>4, <1>5

LEMMA ZeroedUnion ==
  ASSUME Recursion, ViewRecursion, NEW t, t.k = "union", NEW v2 \in BOOLEAN,
         t.default # None => t.default \in Descs /\ Zeroed(t.default, v2)
  PROVE  Zeroed(t, v2)
<1> SUFFICES ASSUME NEW id, NEW header
             PROVE  /\ BuiltMachine(t, id, header, v2).m # "Array"
                    /\ DefaultValue(BuiltMachine(t, id, header, v2)) = ZeroValue(t)
  BY ZeroedBy
<1> DEFINE m == BuiltMachine(t, id, header, v2)
           x == MachineFor(t.default, None, v2, v2)
<1>1. m = UnionMachineFor(t, v2)
  BY DEF BuiltMachine
<1>2. m.m \in {"Union", "DelimitedUnion"} /\ m.defaultDisc = t.defaultDisc
      /\ m.default = IF t.default = None THEN None ELSE x
  BY <1>1 DEF UnionMachineFor
<1>3. t.default # None => x # None /\ DefaultOf(x) = Zero(t.default)
  BY NoneAssumption DEF Zeroed
<1> HIDE DEF m, x
<1>4. DefaultValue(m) = DefaultUnion(m)
  BY <1>2 DEF DefaultValue
<1>5. DefaultUnion(m) = [d |-> t.defaultDisc, v |-> IF t.default = None THEN None ELSE Zero(t.default)]
  BY <1>2, <1>3 DEF DefaultUnion
<1>6. ZeroValue(t) = [d |-> t.defaultDisc, v |-> IF t.default = None THEN None ELSE Zero(t.default)]
  BY DEF ZeroValue
<1> QED
  BY <1>2, <1>4, <1>5, <1>6 DEF m

\* The machine of a member, inside an optional one.
LEMMA MemberMachine ==
  ASSUME Recursion, NEW x, IsDescription(x.type), NEW v2
  PROVE  LET y == MutableMember(x, v2)
         IN  /\ MemberOf(y, x)
             /\ y.machine = IF x.type.k = "opt" THEN MachineFor(x.type.of, None, v2, v2)
                            ELSE MachineFor(x.type, x.id, v2, v2)
             /\ y.lentype = IF v2 THEN LenType(y.machine) ELSE 4
<1> DEFINE t == x.type
           m == MachineFor(t, x.id, v2, v2)
           y == MutableMember(x, v2)
<1>1. /\ y.name = x.name /\ y.optional = (m.m = "Optional") /\ y.id = x.id /\ y.mu = x.mu
      /\ y.machine = (IF m.m = "Optional" THEN m.of ELSE m)
      /\ y.lentype = (IF v2 THEN LenType(IF m.m = "Optional" THEN m.of ELSE m) ELSE 4)
  BY DEF MutableMember
<1>2. m = BuiltMachine(t, x.id, v2, v2)
  BY DEF Recursion
<1>3. CASE t.k = "opt"
  <2>1. m.m = "Optional" /\ m.of = MachineFor(t.of, None, v2, v2)
    BY <1>2, <1>3 DEF BuiltMachine
  <2> HIDE DEF m, y
  <2> QED
    BY <1>1, <1>3, <2>1 DEF y, MemberOf
<1>4. CASE t.k # "opt"
  <2>2. m.m # "Optional"
    BY <1>2, <1>4, OnlyOptional
  <2> HIDE DEF y
  <2> QED
    BY <1>1, <1>4, <2>2 DEF y, MemberOf
<1> QED
  BY <1>3, <1>4

LEMMA ZeroedStruct ==
  ASSUME Recursion, ViewRecursion, NEW t, IsDescription(t), t.k = "struct", NEW v2,
         \A i \in DOMAIN t.members : IsDescription(t.members[i].type) /\ Zeroed(t.members[i].type, v2)
  PROVE  Zeroed(t, v2)
<1> SUFFICES ASSUME NEW id, NEW header
             PROVE  /\ BuiltMachine(t, id, header, v2).m # "Array"
                    /\ DefaultValue(BuiltMachine(t, id, header, v2)) = ZeroValue(t)
  BY ZeroedBy
<1> DEFINE m == BuiltMachine(t, id, header, v2)
           s == t.members
           u == m.members
           N == {x.name : x \in ToSet(s)}
           zero(n) == Zero((CHOOSE x \in ToSet(s) : x.name = n).type)
<1>1. m = StructMachineFor(t, v2)
  BY DEF BuiltMachine
<1>2. Distinct(s)
  BY MembersDistinct
<1>3. ZeroValue(t) = [n \in N |-> zero(n)]
  BY DEF ZeroValue, Names, MemberNamed
<1>4. CASE t.ext # "mutable"
  <2>1. m.m \in {"Struct", "Delimited"} /\ u = [i \in DOMAIN s |-> PlainMember(s[i], v2)]
    BY <1>1, <1>4 DEF StructMachineFor
  <2>2. DOMAIN u = DOMAIN s
        /\ \A i \in DOMAIN s : u[i].name = s[i].name /\ u[i].machine = MachineFor(s[i].type, s[i].id, v2, v2)
    BY <2>1 DEF PlainMember
  <2>3. ByName(s, u)
    BY <1>2, <2>2, NamesAlike
  <2>4. \A i \in DOMAIN s : DefaultOf(u[i].machine) = Zero(s[i].type)
    <3>1. \A i \in DOMAIN s : DefaultOf(MachineFor(s[i].type, s[i].id, v2, v2)) = Zero(s[i].type)
      BY DEF Zeroed
    <3> QED
      BY <2>2, <3>1
  <2> DEFINE named(n) == CHOOSE x \in ToSet(u) : x.name = n
             mine(n) == CHOOSE x \in ToSet(s) : x.name = n
  <2>5. \A n \in N : DefaultOf(named(n).machine) = zero(n)
    <3> TAKE n \in N
    <3>1. PICK i \in DOMAIN s : mine(n) = s[i] /\ named(n) = u[i]
      BY <2>3 DEF ByName
    <3>2. zero(n) = Zero(mine(n).type)
      OBVIOUS
    <3> HIDE DEF named, mine, zero
    <3> QED
      BY <2>4, <3>1, <3>2
  <2>6. DefaultValue(m) = DefaultStruct(m)
    <3> HIDE DEF m
    <3> QED
      BY <2>1 DEF DefaultValue
  <2>7. DefaultStruct(m) = [n \in N |-> DefaultOf(named(n).machine)]
    BY <2>3 DEF DefaultStruct, ByName
  <2> HIDE DEF m, u, s, named, zero
  <2>8. DefaultStruct(m) = [n \in N |-> zero(n)]
    BY <2>5, <2>7
  <2> QED
    BY <1>3, <2>1, <2>6, <2>8 DEF m
<1>5. CASE t.ext = "mutable"
  <2>1. m.m = "Mutable" /\ u = [i \in DOMAIN s |-> MutableMember(s[i], v2)]
    BY <1>1, <1>5 DEF StructMachineFor
  <2>2. ASSUME NEW i \in DOMAIN s
        PROVE  /\ u[i].name = s[i].name
               /\ Zero(s[i].type) = IF u[i].optional THEN None ELSE DefaultOf(u[i].machine)
    <3> DEFINE x == s[i]
               y == MutableMember(x, v2)
    <3>1. u[i] = y
      BY <2>1
    <3>2. IsDescription(x.type) /\ Zeroed(x.type, v2)
      OBVIOUS
    <3>3. /\ MemberOf(y, x)
          /\ y.machine = IF x.type.k = "opt" THEN MachineFor(x.type.of, None, v2, v2)
                         ELSE MachineFor(x.type, x.id, v2, v2)
      <4> HIDE DEF x
      <4> QED
        BY <3>2, MemberMachine
    <3> HIDE DEF x, y
    <3>4. y.name = x.name /\ (y.optional <=> x.type.k = "opt")
      BY <3>3 DEF MemberOf
    <3>5. x.type.k = "opt" => Zero(x.type) = None
      BY DEF ViewRecursion, ZeroValue
    <3>6. x.type.k # "opt" => DefaultOf(y.machine) = Zero(x.type)
      BY <3>2, <3>3 DEF Zeroed
    <3> QED
      BY <3>1, <3>4, <3>5, <3>6 DEF x
  <2>3. DOMAIN u = DOMAIN s
    BY <2>1
  <2>4. ByName(s, u)
    BY <1>2, <2>2, <2>3, NamesAlike
  <2> DEFINE named(n) == CHOOSE x \in ToSet(u) : x.name = n
             mine(n) == CHOOSE x \in ToSet(s) : x.name = n
             default(n) == IF named(n).optional THEN None ELSE DefaultOf(named(n).machine)
  <2>5. \A n \in N : default(n) = zero(n)
    <3> TAKE n \in N
    <3>1. PICK i \in DOMAIN s : mine(n) = s[i] /\ named(n) = u[i]
      BY <2>4 DEF ByName
    <3>2. zero(n) = Zero(mine(n).type)
      OBVIOUS
    <3> HIDE DEF named, mine, zero
    <3> QED
      BY <2>2, <3>1, <3>2
  <2>6. DefaultValue(m) = DefaultMutable(m)
    <3> HIDE DEF m
    <3> QED
      BY <2>1 DEF DefaultValue
  <2>7. DefaultMutable(m) = [n \in N |-> default(n)]
    BY <2>4 DEF DefaultMutable, ByName
  <2> HIDE DEF m, u, s, default, zero
  <2>8. DefaultMutable(m) = [n \in N |-> zero(n)]
    BY <2>5, <2>7
  <2> QED
    BY <1>3, <2>1, <2>6, <2>8 DEF m
<1> QED
  BY <1>4, <1>5

LEMMA AllZeroed ==
  ASSUME Recursion, ViewRecursion, NEW v2 \in BOOLEAN
  PROVE  \A t \in Descs : Zeroed(t, v2)
<1> DEFINE T == {d \in Nat : \A t \in Descs : Depth[t] <= d => Zeroed(t, v2)}
<1>1. \A t \in Descs : Depth[t] \in Nat /\ IsDescription(t)
                       /\ \A x \in Parts(t) : x \in Descs /\ Depth[x] < Depth[t]
  BY TypesAssumption
<1>2. ASSUME NEW t \in Descs, \A y \in Descs : Depth[y] < Depth[t] => Zeroed(y, v2) PROVE Zeroed(t, v2)
  <2>1. \A x \in Parts(t) : x \in Descs /\ IsDescription(x) /\ Zeroed(x, v2)
    BY <1>1, <1>2
  <2>2. IsDescription(t)
    BY <1>1
  <2>3. CASE t.k \in {"prim", "char", "string", "bytes", "enum", "bitmask", "list", "seq", "map", "opt"}
    BY <2>3, ZeroedSimple
  <2>4. CASE t.k = "array"
    <3>1. t.of \in Parts(t)
      BY <2>4 DEF Parts
    <3> QED
      BY <2>1, <2>4, <3>1, ZeroedArray
  <2>5. CASE t.k = "struct"
    <3>1. \A i \in DOMAIN t.members : t.members[i].type \in Parts(t)
      BY <2>5 DEF ToSet, Parts
    <3>2. \A i \in DOMAIN t.members : IsDescription(t.members[i].type) /\ Zeroed(t.members[i].type, v2)
      BY <2>1, <3>1
    <3> QED
      BY <2>2, <2>5, <3>2, ZeroedStruct
  <2>6. CASE t.k = "union"
    <3>1. t.default # None => t.default \in Parts(t)
      BY <2>6 DEF Parts
    <3>2. t.default # None => t.default \in Descs /\ Zeroed(t.default, v2)
      BY <2>1, <3>1
    <3> QED
      BY <2>6, <3>2, ZeroedUnion
  <2> QED
    BY <2>2, <2>3, <2>4, <2>5, <2>6 DEF IsDescription
<1>3. 0 \in T
  <2> SUFFICES ASSUME NEW t \in Descs, Depth[t] <= 0 PROVE Zeroed(t, v2)
    OBVIOUS
  <2>1. \A y \in Descs : ~(Depth[y] < Depth[t])
    BY <1>1
  <2> QED
    BY <1>2, <2>1
<1>4. ASSUME NEW d \in T PROVE d + 1 \in T
  <2> SUFFICES ASSUME NEW t \in Descs, Depth[t] <= d + 1 PROVE Zeroed(t, v2)
    OBVIOUS
  <2>1. \A y \in Descs : Depth[y] < Depth[t] => Depth[y] <= d
    BY <1>1
  <2> QED
    BY <1>2, <1>4, <2>1
<1>5. T = Nat
  <2>1. T \in SUBSET Nat
    OBVIOUS
  <2> HIDE DEF T
  <2> QED
    BY <1>3, <1>4, <2>1, SetInduction
<1> QED
  BY <1>1, <1>5

\* Machines of two versions of a type write and read alike.
SameShape(mw, mr) ==
  /\ mw.m = mr.m /\ Innermost(mw) = Innermost(mr)
  /\ mw.m = "Primitive" => mw.size = mr.size

Agree(mw, mr, w, r, v2) ==
  /\ SameShape(mw, mr)
  /\ ReadsBack(mw, mr, w, r, v2)
  /\ ReadsBack(StripHeaders(mw), StripHeaders(mr), w, r, v2)

Agrees(w, r, v2) ==
  \A id, header : Agree(MachineFor(w, id, header, v2), MachineFor(r, id, header, v2), w, r, v2)

ReadBackAt(mw, mr, b, v, ew, d, er, x) ==
  LET a == Serialized(mw, b, v, "DataSample", ew)
  IN  Holds(d, b, a) => b.pos < a.pos /\ Deserialized(mr, d, "DataSample", er) = Came(d, a.pos, x)

MachinesBack(mw, mr, w, r, v2) ==
  \A b, v, ew, d, er : Fit(b, v2) /\ v \in ValuesOf[w] => ReadBackAt(mw, mr, b, v, ew, d, er, ViewOf(w, r, v))

LEMMA BackBy ==
  ASSUME Recursion, ViewRecursion, NEW mw, NEW mr, NEW w, NEW r, NEW v2, Encodes(mw, ValuesOf[w], v2),
         MachinesBack(mw, mr, w, r, v2)
  PROVE  ReadsBack(mw, mr, w, r, v2)
<1> SUFFICES ASSUME NEW b, NEW v, NEW ew, Fit(b, v2), v \in ValuesOf[w]
             PROVE  LET a == Serialize(mw, b, v, "DataSample", ew)
                    IN  /\ Extends(b, a) /\ b.pos < a.pos
                        /\ \A d, er : Holds(d, b, a) =>
                             Deserialize(mr, d, "DataSample", er) = Came(d, a.pos, View(w, r, v))
  BY DEF ReadsBack
<1> DEFINE kind == "DataSample"
           a == Serialize(mw, b, v, kind, ew)
<1>1. Sound(b)
  BY DEF Fit
<1>2. Encoded(v2, b, a)
  BY <1>1 DEF Encodes
<1>3. a = Serialized(mw, b, v, kind, ew) /\ View(w, r, v) = ViewOf(w, r, v)
  BY DEF Recursion, ViewRecursion
<1>4. \A d, er : Deserialize(mr, d, kind, er) = Deserialized(mr, d, kind, er)
  BY DEF Recursion
<1>5. \A d, er : ReadBackAt(mw, mr, b, v, ew, d, er, ViewOf(w, r, v))
  BY DEF MachinesBack
<1> HIDE DEF a
<1>6. ASSUME NEW d, NEW er, Holds(d, b, a)
      PROVE  b.pos < a.pos /\ Deserialize(mr, d, kind, er) = Came(d, a.pos, View(w, r, v))
  BY <1>3, <1>4, <1>5, <1>6 DEF ReadBackAt
<1>7. Extends(b, a)
  BY <1>2, EncodedExtends
<1>8. PICK d : Holds(d, b, a)
  BY <1>1, <1>7, SomeReader
<1>9. b.pos < a.pos
  BY <1>6, <1>8
<1> QED
  BY <1>6, <1>7, <1>9 DEF a

LEMMA AgreesBy ==
  ASSUME Recursion, ViewRecursion, NEW w, NEW r, NEW v2, Fits(w, v2),
         \A id, header :
           /\ BuiltMachine(w, id, header, v2).m # "Array"
           /\ SameShape(BuiltMachine(w, id, header, v2), BuiltMachine(r, id, header, v2))
           /\ MachinesBack(BuiltMachine(w, id, header, v2), BuiltMachine(r, id, header, v2), w, r, v2)
  PROVE  Agrees(w, r, v2)
<1> SUFFICES ASSUME NEW id, NEW header
             PROVE  Agree(MachineFor(w, id, header, v2), MachineFor(r, id, header, v2), w, r, v2)
  BY DEF Agrees
<1> DEFINE mw == MachineFor(w, id, header, v2)
           mr == MachineFor(r, id, header, v2)
<1>1. mw = BuiltMachine(w, id, header, v2) /\ mr = BuiltMachine(r, id, header, v2)
  BY DEF Recursion
<1>2. Encodes(mw, ValuesOf[w], v2)
  BY DEF Fits
<1>3. mw.m # "Array" /\ SameShape(mw, mr) /\ MachinesBack(mw, mr, w, r, v2)
  BY <1>1
<1> HIDE DEF mw, mr
<1>4. mr.m # "Array"
  BY <1>3 DEF SameShape
<1>5. ReadsBack(mw, mr, w, r, v2)
  BY <1>2, <1>3, BackBy
<1>6. StripHeaders(mw) = mw /\ StripHeaders(mr) = mr
  BY <1>3, <1>4 DEF StripHeaders
<1> QED
  BY <1>3, <1>5, <1>6 DEF Agree, mw, mr

\* A machine of primitives is one for a plain number.
LEMMA PrimitiveType ==
  ASSUME Recursion, NEW t, IsDescription(t), NEW id, NEW header, NEW v2,
         MachineFor(t, id, header, v2).m = "Primitive"
  PROVE  t.k = "prim"
<1>1. MachineFor(t, id, header, v2) = BuiltMachine(t, id, header, v2)
  BY DEF Recursion
<1> DEFINE m == BuiltMachine(t, id, header, v2)
<1>2. t.k \in {"prim", "char", "string", "bytes", "enum", "bitmask", "opt", "list", "seq", "array",
               "map", "struct", "union"}
  BY DEF IsDescription
<1>3. CASE t.k # "prim"
  <2>1. m.m # "Primitive"
    BY <1>2, <1>3 DEF BuiltMachine, SequenceMachineFor, ArrayMachineFor, StructMachineFor, UnionMachineFor
  <2> QED
    BY <1>1, <2>1
<1> QED
  BY <1>3

LEMMA NumberBack ==
  ASSUME NEW b, Sound(b), NEW n \in Widths, NEW v, NEW a, a = Write(Align(b, n), n, v), NEW d, Holds(d, b, a)
  PROVE  b.pos < a.pos /\ Number(d, n) = Came(d, a.pos, v)
<1>1. Sound(b)
  OBVIOUS
<1> QED
  BY <1>1, ReadNumber

LEMMA AgreesSimple ==
  ASSUME Recursion, ViewRecursion, NEW w \in Descs, NEW r \in Descs, NEW version, Alike(w, r, version),
         w.k \in {"prim", "char", "string", "bytes", "enum", "bitmask"}, NEW v2 \in BOOLEAN, Fits(w, v2)
  PROVE  Agrees(w, r, v2)
<1>1. /\ IsDescription(w) /\ IsDescription(r) /\ \A v \in ValuesOf[w] : IsValue(w, v)
      /\ w.k = r.k
  BY TypesAssumption, ValuesAssumption DEF Alike
<1> SUFFICES ASSUME NEW id, NEW header
             PROVE  /\ BuiltMachine(w, id, header, v2).m # "Array"
                    /\ SameShape(BuiltMachine(w, id, header, v2), BuiltMachine(r, id, header, v2))
                    /\ MachinesBack(BuiltMachine(w, id, header, v2), BuiltMachine(r, id, header, v2), w, r, v2)
  BY AgreesBy
<1> DEFINE mw == BuiltMachine(w, id, header, v2)
           mr == BuiltMachine(r, id, header, v2)
           kind == "DataSample"
<1>2. \A v : ViewOf(w, r, v) = v
  BY DEF ViewOf
<1>3. ASSUME NEW x, NEW y, mw = x, mr = y, SameShape(x, y), x.m # "Array",
             \A b, v, ew, d, er : Fit(b, v2) /\ v \in ValuesOf[w] => ReadBackAt(x, y, b, v, ew, d, er, v)
      PROVE  /\ mw.m # "Array" /\ SameShape(mw, mr) /\ MachinesBack(mw, mr, w, r, v2)
  <2> HIDE DEF mw, mr
  <2> QED
    BY <1>2, <1>3 DEF MachinesBack
<1>4. CASE w.k = "prim"
  <2> DEFINE n == w.size
             x == [m |-> "Primitive", size |-> n]
  <2>1. mw = x /\ mr = x /\ n \in Widths
    BY <1>1, <1>4 DEF BuiltMachine, IsDescription, Widths, Alike
  <2>2. SameShape(x, x) /\ x.m # "Array"
    BY DEF SameShape
  <2>3. \A b, v, ew : Serialized(x, b, v, kind, ew) = Write(Align(b, n), n, v)
    BY DEF Serialized, SerializePrimitive
  <2>4. \A d, er : Deserialized(x, d, kind, er) = Number(d, n)
    BY DEF Deserialized, DeserializePrimitive
  <2> HIDE DEF x, mw, mr
  <2>5. ASSUME NEW b, NEW v, NEW ew, NEW d, NEW er, Fit(b, v2) PROVE ReadBackAt(x, x, b, v, ew, d, er, v)
    BY <2>1, <2>3, <2>4, <2>5, NumberBack DEF ReadBackAt, Fit
  <2> QED
    BY <1>3, <2>1, <2>2, <2>5 DEF mw, mr
<1>5. CASE w.k = "enum"
  <2> DEFINE n == IF w.bits # None /\ v2 THEN EnumHolder(w.bits) ELSE 4
  <2>1. /\ mw.m = mr.m /\ mw.m \in {"Enum", "BitBoundEnum"}
        /\ mw.m = "BitBoundEnum" => mw.size = n /\ mr.size = n
        /\ mw.m = "Enum" => n = 4
    BY <1>1, <1>5 DEF BuiltMachine, Alike
  <2>2. n \in Widths
    BY <1>1, <1>5, HolderWidth DEF IsDescription, Widths
  <2> HIDE DEF n, mw, mr
  <2>3. SameShape(mw, mr) /\ mw.m # "Array"
    BY <2>1 DEF SameShape, Innermost
  <2>4. \A b, v, ew : Serialized(mw, b, v, kind, ew) = Write(Align(b, n), n, v)
    BY <2>1 DEF Serialized, SerializeEnum, SerializeBitBoundEnum
  <2>5. \A d, er : Deserialized(mr, d, kind, er) = Number(d, n)
    BY <2>1 DEF Deserialized, DeserializeEnum, DeserializeBitBoundEnum
  <2>6. ASSUME NEW b, NEW v, NEW ew, NEW d, NEW er, Fit(b, v2) PROVE ReadBackAt(mw, mr, b, v, ew, d, er, v)
    BY <2>2, <2>4, <2>5, <2>6, NumberBack DEF ReadBackAt, Fit
  <2> QED
    BY <1>3, <2>3, <2>6 DEF mw, mr
<1>6. CASE w.k = "char"
  <2> DEFINE x == [m |-> "Char"]
  <2>1. mw = x /\ mr = x
    BY <1>1, <1>6 DEF BuiltMachine
  <2>2. SameShape(x, x) /\ x.m # "Array"
    BY DEF SameShape
  <2>3. \A b, v, ew : Serialized(x, b, v, kind, ew) = Write(b, 1, v)
    BY DEF Serialized, SerializeChar
  <2>4. \A d, er : Deserialized(x, d, kind, er) = Read(d, 1)
    BY DEF Deserialized, DeserializeChar
  <2> HIDE DEF x, mw, mr
  <2>5. ASSUME NEW b, NEW v, NEW ew, NEW d, NEW er, Fit(b, v2) PROVE ReadBackAt(x, x, b, v, ew, d, er, v)
    <3> DEFINE a == Write(b, 1, v)
    <3>1. Sound(b)
      BY <2>5 DEF Fit
    <3>2. b.pos \in Nat
      BY <3>1 DEF Sound
    <3> HIDE DEF a
    <3>3. Holds(d, b, a) => a.pos = b.pos + 1 /\ Read(d, 1) = Came(d, a.pos, v)
      BY <3>1, ReadHere DEF a
    <3> QED
      BY <2>3, <2>4, <3>2, <3>3 DEF ReadBackAt, a
  <2> QED
    BY <1>3, <2>1, <2>2, <2>5 DEF mw, mr
<1>7. CASE w.k = "string"
  <2>1. mw.m = "String" /\ mr.m = "String" /\ mw.bound = w.bound
    BY <1>1, <1>7 DEF BuiltMachine
  <2> HIDE DEF mw, mr
  <2>2. SameShape(mw, mr) /\ mw.m # "Array"
    BY <2>1 DEF SameShape, Innermost
  <2>3. \A b, v, ew : Serialized(mw, b, v, kind, ew) = SerializeString(mw, b, v)
    BY <2>1 DEF Serialized
  <2>4. \A d, er : Deserialized(mr, d, kind, er) = DeserializeString(d)
    BY <2>1 DEF Deserialized
  <2>5. ASSUME NEW b, NEW v, NEW ew, NEW d, NEW er, Fit(b, v2), v \in ValuesOf[w] PROVE ReadBackAt(mw, mr, b, v, ew, d, er, v)
    <3> DEFINE a == SerializeString(mw, b, v)
    <3>1. Sound(b) /\ v \in Seq(1 .. 4) /\ Bounded(v, mw.bound)
      BY <1>1, <1>7, <2>1, <2>5 DEF Fit, IsValue
    <3> HIDE DEF a
    <3>2. Holds(d, b, a) => b.pos < a.pos /\ DeserializeString(d) = Came(d, a.pos, v)
      BY <3>1, BackString DEF a
    <3> QED
      BY <2>3, <2>4, <3>2 DEF ReadBackAt, a
  <2> QED
    BY <1>3, <2>2, <2>5 DEF mw, mr
<1>8. CASE w.k = "bytes"
  <2>1. mw.m = "Bytes" /\ mr.m = "Bytes"
    BY <1>1, <1>8 DEF BuiltMachine
  <2> HIDE DEF mw, mr
  <2>2. SameShape(mw, mr) /\ mw.m # "Array"
    BY <2>1 DEF SameShape, Innermost
  <2>3. \A b, v, ew : Serialized(mw, b, v, kind, ew) = SerializeBytes(b, v)
    BY <2>1 DEF Serialized
  <2>4. \A d, er : Deserialized(mr, d, kind, er) = DeserializeBytes(d)
    BY <2>1 DEF Deserialized
  <2>5. ASSUME NEW b, NEW v, NEW ew, NEW d, NEW er, Fit(b, v2), v \in ValuesOf[w] PROVE ReadBackAt(mw, mr, b, v, ew, d, er, v)
    <3> DEFINE a == SerializeBytes(b, v)
    <3>1. Sound(b) /\ v \in Seq(Int)
      BY <1>1, <1>8, <2>5 DEF Fit, IsValue
    <3> HIDE DEF a
    <3>2. Holds(d, b, a) => b.pos < a.pos /\ DeserializeBytes(d) = Came(d, a.pos, v)
      BY <3>1, BackBytes DEF a
    <3> QED
      BY <2>3, <2>4, <3>2 DEF ReadBackAt, a
  <2> QED
    BY <1>3, <2>2, <2>5 DEF mw, mr
<1>9. CASE w.k = "bitmask"
  <2> DEFINE n == MaskHolder(w.bits)
  <2>1. mw.m = "BitMask" /\ mr.m = "BitMask" /\ mw.size = n /\ mr.size = n
    BY <1>1, <1>9 DEF BuiltMachine, Alike
  <2>2. n \in Widths
    BY <1>1, <1>9, HolderWidth DEF IsDescription, Widths
  <2> HIDE DEF n, mw, mr
  <2>3. SameShape(mw, mr) /\ mw.m # "Array"
    BY <2>1 DEF SameShape, Innermost
  <2>4. \A b, v, ew : Serialized(mw, b, v, kind, ew) = SerializeBitMask(mw, b, v)
    BY <2>1 DEF Serialized
  <2>5. \A d, er : Deserialized(mr, d, kind, er) = DeserializeBitMask(mr, d)
    BY <2>1 DEF Deserialized
  <2>6. ASSUME NEW b, NEW v, NEW ew, NEW d, NEW er, Fit(b, v2), v \in ValuesOf[w] PROVE ReadBackAt(mw, mr, b, v, ew, d, er, v)
    <3> DEFINE y == v[1]
               a == Write(Align(b, n), n, y)
    <3>1. v = <<y>>
      BY <1>1, <1>9, <2>6 DEF IsValue
    <3>2. v # <<>>
      BY <3>1
    <3>3. Sound(b) /\ SerializeBitMask(mw, b, v) = a
      BY <2>1, <2>6, <3>2 DEF Fit, SerializeBitMask
    <3> HIDE DEF a, y
    <3>4. Holds(d, b, a) => b.pos < a.pos /\ Number(d, n) = Came(d, a.pos, y)
      BY <2>2, <3>3, NumberBack DEF a
    <3>5. Number(d, n) = Came(d, a.pos, y) => DeserializeBitMask(mr, d) = Came(d, a.pos, v)
      BY <2>1, <3>1 DEF DeserializeBitMask, Came, Got
    <3> QED
      BY <2>4, <2>5, <3>3, <3>4, <3>5 DEF ReadBackAt
  <2> QED
    BY <1>3, <2>3, <2>6 DEF mw, mr
<1> QED
  BY <1>4, <1>5, <1>6, <1>7, <1>8, <1>9

LEMMA AgreesOptional ==
  ASSUME Recursion, ViewRecursion, NEW w \in Descs, NEW r, w.k = "opt", r.k = "opt",
         NEW v2 \in BOOLEAN, Fits(w, v2), Agrees(w.of, r.of, v2)
  PROVE  Agrees(w, r, v2)
<1>1. \A v \in ValuesOf[w] : v \in {None} \cup ValuesOf[w.of]
  BY ValuesAssumption DEF IsValue
<1> SUFFICES ASSUME NEW id, NEW header
             PROVE  /\ BuiltMachine(w, id, header, v2).m # "Array"
                    /\ SameShape(BuiltMachine(w, id, header, v2), BuiltMachine(r, id, header, v2))
                    /\ MachinesBack(BuiltMachine(w, id, header, v2), BuiltMachine(r, id, header, v2), w, r, v2)
  BY AgreesBy
<1> DEFINE mw == BuiltMachine(w, id, header, v2)
           mr == BuiltMachine(r, id, header, v2)
           kind == "DataSample"
           x == MachineFor(w.of, None, header, v2)
           y == MachineFor(r.of, None, header, v2)
           t == w.of
           u == r.of
<1>2. /\ mw.m = "Optional" /\ mr.m = "Optional" /\ mw.of = x /\ mr.of = y
      /\ mw.v2 = v2 /\ mr.v2 = v2
  BY DEF BuiltMachine
<1>3. ReadsBack(x, y, t, u, v2)
  BY DEF Agrees, Agree
<1>4. \A v : ViewOf(w, r, v) = Given(View(t, u, v), v)
  BY DEF ViewOf, Given
<1> HIDE DEF mw, mr, x, y, t, u
<1>5. SameShape(mw, mr) /\ mw.m # "Array"
  BY <1>2 DEF SameShape, Innermost
<1>6. \A b, v, ew : Serialized(mw, b, v, kind, ew) = SerializeOptional(mw, b, v, kind)
  BY <1>2 DEF Serialized
<1>7. \A d, er : Deserialized(mr, d, kind, er) = DeserializeOptional(mr, d, kind)
  BY <1>2 DEF Deserialized
<1>8. ReadsBack(mw.of, mr.of, t, u, v2)
  BY <1>2, <1>3
<1>9. ASSUME NEW b, NEW v, NEW ew, NEW d, NEW er, Fit(b, v2), v \in ValuesOf[w]
      PROVE  ReadBackAt(mw, mr, b, v, ew, d, er, ViewOf(w, r, v))
  <2> DEFINE a == SerializeOptional(mw, b, v, kind)
  <2>1. v \in {None} \cup ValuesOf[t]
    BY <1>1, <1>9 DEF t
  <2> HIDE DEF a
  <2>2. Holds(d, b, a) => b.pos < a.pos /\ DeserializeOptional(mr, d, kind) = Came(d, a.pos, Given(View(t, u, v), v))
    <3>1. CASE mw.v2
      <4>1. mr.v2
        BY <1>2, <3>1
      <4> QED
        BY <1>8, <1>9, <2>1, <3>1, <4>1, BackOptional2 DEF a
    <3>2. CASE ~mw.v2
      <4>1. ~mr.v2
        BY <1>2, <3>2
      <4> QED
        BY <1>8, <1>9, <2>1, <3>2, <4>1, BackOptional1 DEF a
    <3> QED
      BY <3>1, <3>2
  <2> QED
    BY <1>4, <1>6, <1>7, <2>2 DEF ReadBackAt, a
<1>10. MachinesBack(mw, mr, w, r, v2)
  BY <1>9 DEF MachinesBack
<1> QED
  BY <1>5, <1>10 DEF mw, mr

\* The machines of two sequences with elements that agree.
LEMMA SequencesBack ==
  ASSUME Recursion, NEW mw, NEW mr, mw.m = "Sequence", mr.m = "Sequence", mw.header = mr.header, NEW v2,
         NEW w, NEW r, ReadsBack(mw.of, mr.of, w, r, v2), NEW b, Fit(b, v2), NEW v \in Seq(ValuesOf[w]),
         Bounded(v, mw.max), NEW ew, NEW d, NEW er
  PROVE  ReadBackAt(mw, mr, b, v, ew, d, er, Seen(w, r, v))
<1> DEFINE kind == "DataSample"
           a == SerializeSequence(mw, b, v, kind, ew)
<1>1. Serialized(mw, b, v, kind, ew) = a
  BY DEF Serialized
<1>2. Deserialized(mr, d, kind, er) = DeserializeSequence(mr, d, kind, er)
  BY DEF Deserialized
<1> HIDE DEF a
<1>3. Holds(d, b, a) => b.pos < a.pos /\ DeserializeSequence(mr, d, kind, er) = Came(d, a.pos, Seen(w, r, v))
  BY BackSequence DEF a
<1> QED
  BY <1>1, <1>2, <1>3 DEF ReadBackAt

LEMMA AgreesList ==
  ASSUME Recursion, ViewRecursion, NEW w \in Descs, NEW r, w.k = "list", r.k = "list",
         NEW v2 \in BOOLEAN, Fits(w, v2), Agrees(w.of, r.of, v2)
  PROVE  Agrees(w, r, v2)
<1>1. \A v \in ValuesOf[w] : v \in Seq(ValuesOf[w.of])
  BY ValuesAssumption DEF IsValue
<1> SUFFICES ASSUME NEW id, NEW header
             PROVE  /\ BuiltMachine(w, id, header, v2).m # "Array"
                    /\ SameShape(BuiltMachine(w, id, header, v2), BuiltMachine(r, id, header, v2))
                    /\ MachinesBack(BuiltMachine(w, id, header, v2), BuiltMachine(r, id, header, v2), w, r, v2)
  BY AgreesBy
<1> DEFINE mw == BuiltMachine(w, id, header, v2)
           mr == BuiltMachine(r, id, header, v2)
           x == MachineFor(w.of, None, header, v2)
           y == MachineFor(r.of, None, header, v2)
           t == w.of
           u == r.of
<1>2. /\ mw.m = "Sequence" /\ mr.m = "Sequence" /\ mw.of = x /\ mr.of = y
      /\ mw.header = header /\ mr.header = header /\ mw.max = None
  BY DEF BuiltMachine
<1>3. ReadsBack(x, y, t, u, v2)
  BY DEF Agrees, Agree
<1>4. \A v : ViewOf(w, r, v) = Seen(t, u, v)
  BY DEF ViewOf, Seen
<1>5. \A v : Bounded(v, mw.max)
  BY <1>2 DEF Bounded
<1> HIDE DEF mw, mr, x, y, t, u
<1>6. SameShape(mw, mr) /\ mw.m # "Array"
  BY <1>2 DEF SameShape, Innermost
<1>7. ReadsBack(mw.of, mr.of, t, u, v2) /\ mw.header = mr.header
  BY <1>2, <1>3
<1>8. ASSUME NEW b, NEW v, NEW ew, NEW d, NEW er, Fit(b, v2), v \in ValuesOf[w]
      PROVE  ReadBackAt(mw, mr, b, v, ew, d, er, ViewOf(w, r, v))
  <2>1. v \in Seq(ValuesOf[t]) /\ Bounded(v, mw.max)
    BY <1>1, <1>5, <1>8 DEF t
  <2>2. ReadBackAt(mw, mr, b, v, ew, d, er, Seen(t, u, v))
    BY <1>2, <1>7, <1>8, <2>1, SequencesBack
  <2> QED
    BY <1>4, <2>2
<1>9. MachinesBack(mw, mr, w, r, v2)
  BY <1>8 DEF MachinesBack
<1> QED
  BY <1>6, <1>9 DEF mw, mr

\* The machines of two maps whose keys and values agree.
LEMMA MappingsBack ==
  ASSUME NEW mw, NEW mr, mw.m = "Mapping", mr.m = "Mapping", NEW v2,
         NEW wk, NEW rk, ReadsBack(mw.key, mr.key, wk, rk, v2), NEW wv, NEW rv, ReadsBack(mw.val, mr.val, wv, rv, v2),
         NEW b, Fit(b, v2), NEW v \in Seq(ValuesOf[wk] \X ValuesOf[wv]), NEW ew, NEW d, NEW er
  PROVE  ReadBackAt(mw, mr, b, v, ew, d, er, SeenPairs(wk, rk, wv, rv, v))
<1> DEFINE kind == "DataSample"
           a == SerializeMapping(mw, b, v, kind, ew)
<1>1. Serialized(mw, b, v, kind, ew) = a
  BY DEF Serialized
<1>2. Deserialized(mr, d, kind, er) = DeserializeMapping(mr, d, kind, er)
  BY DEF Deserialized
<1> HIDE DEF a
<1>3. Holds(d, b, a) => b.pos < a.pos /\ DeserializeMapping(mr, d, kind, er) = Came(d, a.pos, SeenPairs(wk, rk, wv, rv, v))
  BY BackMapping DEF a
<1> QED
  BY <1>1, <1>2, <1>3 DEF ReadBackAt

LEMMA AgreesMap ==
  ASSUME Recursion, ViewRecursion, NEW w \in Descs, NEW r, w.k = "map", r.k = "map",
         NEW v2 \in BOOLEAN, Fits(w, v2), Agrees(w.key, r.key, v2), Agrees(w.val, r.val, v2)
  PROVE  Agrees(w, r, v2)
<1>1. \A v \in ValuesOf[w] : v \in Seq(ValuesOf[w.key] \X ValuesOf[w.val])
  BY ValuesAssumption DEF IsValue
<1> SUFFICES ASSUME NEW id, NEW header
             PROVE  /\ BuiltMachine(w, id, header, v2).m # "Array"
                    /\ SameShape(BuiltMachine(w, id, header, v2), BuiltMachine(r, id, header, v2))
                    /\ MachinesBack(BuiltMachine(w, id, header, v2), BuiltMachine(r, id, header, v2), w, r, v2)
  BY AgreesBy
<1> DEFINE mw == BuiltMachine(w, id, header, v2)
           mr == BuiltMachine(r, id, header, v2)
           wk == w.key
           rk == r.key
           wv == w.val
           rv == r.val
<1>2. /\ mw.m = "Mapping" /\ mr.m = "Mapping"
      /\ mw.key = MachineFor(wk, None, header, v2) /\ mr.key = MachineFor(rk, None, header, v2)
      /\ mw.val = MachineFor(wv, None, header, v2) /\ mr.val = MachineFor(rv, None, header, v2)
  BY DEF BuiltMachine
<1>3. /\ ReadsBack(MachineFor(wk, None, header, v2), MachineFor(rk, None, header, v2), wk, rk, v2)
      /\ ReadsBack(MachineFor(wv, None, header, v2), MachineFor(rv, None, header, v2), wv, rv, v2)
  BY DEF Agrees, Agree
<1>4. \A v : ViewOf(w, r, v) = SeenPairs(wk, rk, wv, rv, v)
  BY DEF ViewOf, SeenPairs
<1> HIDE DEF mw, mr, wk, rk, wv, rv
<1>5. SameShape(mw, mr) /\ mw.m # "Array"
  BY <1>2 DEF SameShape, Innermost
<1>6. ReadsBack(mw.key, mr.key, wk, rk, v2) /\ ReadsBack(mw.val, mr.val, wv, rv, v2)
  BY <1>2, <1>3
<1>7. ASSUME NEW b, NEW v, NEW ew, NEW d, NEW er, Fit(b, v2), v \in ValuesOf[w]
      PROVE  ReadBackAt(mw, mr, b, v, ew, d, er, ViewOf(w, r, v))
  <2>1. v \in Seq(ValuesOf[wk] \X ValuesOf[wv])
    BY <1>1, <1>7 DEF wk, wv
  <2>2. ReadBackAt(mw, mr, b, v, ew, d, er, SeenPairs(wk, rk, wv, rv, v))
    BY <1>2, <1>6, <1>7, <2>1, MappingsBack
  <2> QED
    BY <1>4, <2>2
<1>8. MachinesBack(mw, mr, w, r, v2)
  BY <1>7 DEF MachinesBack
<1> QED
  BY <1>5, <1>8 DEF mw, mr

\* Plain numbers are seen as they are.
LEMMA NumbersSeen ==
  ASSUME Recursion, ViewRecursion, NEW t \in Descs, NEW header, NEW v2 \in BOOLEAN,
         MachineFor(t, None, header, v2).m = "Primitive", NEW u, NEW V, NEW s \in Seq(V)
  PROVE  Seen(t, u, s) = s
<1>1. t.k = "prim"
  BY TypesAssumption, PrimitiveType
<1>2. \A x : View(t, u, x) = x
  BY <1>1 DEF ViewRecursion, ViewOf
<1>3. s = [i \in DOMAIN s |-> s[i]]
  OBVIOUS
<1> QED
  BY <1>2, <1>3 DEF Seen

LEMMA AgreesSeq ==
  ASSUME Recursion, ViewRecursion, NEW w \in Descs, NEW r, w.k = "seq", r.k = "seq", w.of \in Descs,
         NEW v2 \in BOOLEAN, Fits(w, v2), Agrees(w.of, r.of, v2)
  PROVE  Agrees(w, r, v2)
<1>1. \A v \in ValuesOf[w] : v \in Seq(ValuesOf[w.of]) /\ Bounded(v, w.max)
  BY ValuesAssumption DEF IsValue
<1> SUFFICES ASSUME NEW id, NEW header
             PROVE  /\ BuiltMachine(w, id, header, v2).m # "Array"
                    /\ SameShape(BuiltMachine(w, id, header, v2), BuiltMachine(r, id, header, v2))
                    /\ MachinesBack(BuiltMachine(w, id, header, v2), BuiltMachine(r, id, header, v2), w, r, v2)
  BY AgreesBy
<1> DEFINE mw == BuiltMachine(w, id, header, v2)
           mr == BuiltMachine(r, id, header, v2)
           kind == "DataSample"
           x == MachineFor(w.of, None, header, v2)
           y == MachineFor(r.of, None, header, v2)
           t == w.of
           u == r.of
<1>2. /\ mw = IF x.m = "Primitive" THEN [m |-> "PlainSequence", size |-> x.size, max |-> w.max]
              ELSE [m |-> "Sequence", of |-> x, max |-> w.max, header |-> header /\ x.m # "Char"]
      /\ mr = IF y.m = "Primitive" THEN [m |-> "PlainSequence", size |-> y.size, max |-> r.max]
              ELSE [m |-> "Sequence", of |-> y, max |-> r.max, header |-> header /\ y.m # "Char"]
  BY DEF BuiltMachine, SequenceMachineFor
<1>3. ReadsBack(x, y, t, u, v2) /\ SameShape(x, y)
  BY DEF Agrees, Agree
<1>4. \A v : ViewOf(w, r, v) = Seen(t, u, v)
  BY DEF ViewOf, Seen
<1>5. x.m = "Primitive" => x.size \in Widths
  BY PrimitiveMachine
<1>6. x.m = "Primitive" => \A v \in ValuesOf[w] : Seen(t, u, v) = v
  BY <1>1, NumbersSeen
<1> HIDE DEF mw, mr, x, y, t, u
<1>7. mw.max = w.max
  BY <1>2
<1>8. CASE x.m = "Primitive"
  <2>1. /\ mw.m = "PlainSequence" /\ mr.m = "PlainSequence" /\ mw.size \in Widths /\ mr.size = mw.size
    BY <1>2, <1>3, <1>5, <1>8 DEF SameShape
  <2>2. SameShape(mw, mr) /\ mw.m # "Array"
    BY <2>1 DEF SameShape, Innermost
  <2>3. \A b, v, ew : Serialized(mw, b, v, kind, ew) = SerializePlainSequence(mw, b, v)
    BY <2>1 DEF Serialized
  <2>4. \A d, er : Deserialized(mr, d, kind, er) = DeserializePlainSequence(mr, d)
    BY <2>1 DEF Deserialized
  <2>5. ASSUME NEW b, NEW v, NEW ew, NEW d, NEW er, Fit(b, v2), v \in ValuesOf[w]
        PROVE  ReadBackAt(mw, mr, b, v, ew, d, er, ViewOf(w, r, v))
    <3> DEFINE a == SerializePlainSequence(mw, b, v)
    <3>1. v \in Seq(ValuesOf[t]) /\ Bounded(v, mw.max) /\ Seen(t, u, v) = v
      BY <1>1, <1>6, <1>7, <1>8, <2>5 DEF t
    <3>2. Len(v) \in Nat /\ (Len(v) = 0 <=> v = <<>>) /\ Sound(b)
      BY <2>5, <3>1 DEF Fit
    <3> HIDE DEF a
    <3>3. Holds(d, b, a) => b.pos < a.pos /\ DeserializePlainSequence(mr, d) = Came(d, a.pos, v)
      BY <2>1, <3>1, <3>2, BackPlainSequence DEF a
    <3> QED
      BY <1>4, <2>3, <2>4, <3>1, <3>3 DEF ReadBackAt, a
  <2>6. MachinesBack(mw, mr, w, r, v2)
    BY <2>5 DEF MachinesBack
  <2> QED
    BY <2>2, <2>6 DEF mw, mr
<1>9. CASE x.m # "Primitive"
  <2>1. /\ mw.m = "Sequence" /\ mr.m = "Sequence" /\ mw.of = x /\ mr.of = y /\ mw.header = mr.header
    BY <1>2, <1>3, <1>9 DEF SameShape
  <2>2. SameShape(mw, mr) /\ mw.m # "Array"
    BY <2>1 DEF SameShape, Innermost
  <2>3. ReadsBack(mw.of, mr.of, t, u, v2)
    BY <1>3, <2>1
  <2>4. ASSUME NEW b, NEW v, NEW ew, NEW d, NEW er, Fit(b, v2), v \in ValuesOf[w]
        PROVE  ReadBackAt(mw, mr, b, v, ew, d, er, ViewOf(w, r, v))
    <3>1. v \in Seq(ValuesOf[t]) /\ Bounded(v, mw.max)
      BY <1>1, <1>7, <2>4 DEF t
    <3>2. ReadBackAt(mw, mr, b, v, ew, d, er, Seen(t, u, v))
      BY <2>1, <2>3, <2>4, <3>1, SequencesBack
    <3> QED
      BY <1>4, <3>2
  <2>5. MachinesBack(mw, mr, w, r, v2)
    BY <2>4 DEF MachinesBack
  <2> QED
    BY <2>2, <2>5 DEF mw, mr
<1> QED
  BY <1>8, <1>9

\* The machines of two arrays with elements that agree.
LEMMA ArraysBack ==
  ASSUME Recursion, NEW mw, NEW mr, mw.m = "Array", mr.m = "Array", mw.header = mr.header, mw.len = mr.len,
         NEW v2, NEW w, NEW r, ReadsBack(mw.of, mr.of, w, r, v2), NEW b, Fit(b, v2), NEW v \in Seq(ValuesOf[w]),
         Len(v) = mw.len, v # <<>>, NEW ew, NEW d, NEW er
  PROVE  ReadBackAt(mw, mr, b, v, ew, d, er, Seen(w, r, v))
<1> DEFINE kind == "DataSample"
           a == SerializeArray(mw, b, v, kind, ew)
<1>1. Serialized(mw, b, v, kind, ew) = a
  BY DEF Serialized
<1>2. Deserialized(mr, d, kind, er) = DeserializeArray(mr, d, kind, er)
  BY DEF Deserialized
<1> HIDE DEF a
<1>3. Holds(d, b, a) => b.pos < a.pos /\ DeserializeArray(mr, d, kind, er) = Came(d, a.pos, Seen(w, r, v))
  BY BackArray DEF a
<1> QED
  BY <1>1, <1>2, <1>3 DEF ReadBackAt

LEMMA PlainArraysBack ==
  ASSUME NEW m, m.m = "PlainArray", m.size \in Widths, m.len \in Nat \ {0}, NEW v2, NEW b, Fit(b, v2),
         NEW v, Len(v) = m.len, NEW ew, NEW d, NEW er
  PROVE  ReadBackAt(m, m, b, v, ew, d, er, v)
<1> DEFINE kind == "DataSample"
           a == SerializePlainArray(m, b, v)
<1>1. Serialized(m, b, v, kind, ew) = a
  BY DEF Serialized
<1>2. Deserialized(m, d, kind, er) = DeserializePlainArray(m, d)
  BY DEF Deserialized
<1>3. Sound(b)
  BY DEF Fit
<1> HIDE DEF a
<1>4. Holds(d, b, a) => b.pos < a.pos /\ DeserializePlainArray(m, d) = Came(d, a.pos, v)
  BY <1>3, BackPlainArray DEF a
<1> QED
  BY <1>1, <1>2, <1>4 DEF ReadBackAt

LEMMA AgreesArray ==
  ASSUME Recursion, ViewRecursion, NEW w \in Descs, NEW r, w.k = "array", r.k = "array", w.len = r.len,
         w.of \in Descs, NEW v2 \in BOOLEAN, Fits(w, v2), Agrees(w.of, r.of, v2)
  PROVE  Agrees(w, r, v2)
<1>1. w.len \in Nat \ {0} /\ \A v \in ValuesOf[w] : v \in Seq(ValuesOf[w.of]) /\ Len(v) = w.len
  <2>1. IsDescription(w)
    BY TypesAssumption
  <2>2. w.len \in Nat \ {0}
    BY <2>1 DEF IsDescription
  <2> QED
    BY <2>2, ValuesAssumption DEF IsValue
<1> SUFFICES ASSUME NEW id, NEW header
             PROVE  Agree(MachineFor(w, id, header, v2), MachineFor(r, id, header, v2), w, r, v2)
  BY DEF Agrees
<1> DEFINE mw == MachineFor(w, id, header, v2)
           mr == MachineFor(r, id, header, v2)
           sw == StripHeaders(mw)
           sr == StripHeaders(mr)
           x == MachineFor(w.of, None, header, v2)
           y == MachineFor(r.of, None, header, v2)
           t == w.of
           u == r.of
           n == w.len
           hx == header /\ ~(Innermost(x) \in {"PlainArray", "Char"})
           hy == header /\ ~(Innermost(y) \in {"PlainArray", "Char"})
<1>2. /\ mw = IF x.m = "Primitive" THEN [m |-> "PlainArray", size |-> x.size, len |-> n]
              ELSE [m |-> "Array", of |-> StripHeaders(x), inner |-> Innermost(x), len |-> n, header |-> hx]
      /\ mr = IF y.m = "Primitive" THEN [m |-> "PlainArray", size |-> y.size, len |-> n]
              ELSE [m |-> "Array", of |-> StripHeaders(y), inner |-> Innermost(y), len |-> n, header |-> hy]
  BY DEF Recursion, BuiltMachine, ArrayMachineFor
<1>3. SameShape(x, y) /\ ReadsBack(StripHeaders(x), StripHeaders(y), t, u, v2)
  BY DEF Agrees, Agree
<1>4. \A v : ViewOf(w, r, v) = Seen(t, u, v)
  BY DEF ViewOf, Seen
<1>5. x.m = "Primitive" => x.size \in Widths
  BY PrimitiveMachine
<1>6. x.m = "Primitive" => \A v \in ValuesOf[w] : Seen(t, u, v) = v
  BY <1>1, NumbersSeen
<1>7. Encodes(mw, ValuesOf[w], v2) /\ Encodes(sw, ValuesOf[w], v2)
  BY DEF Fits
<1> HIDE DEF mw, mr, x, y
<1>8. CASE x.m = "Primitive"
  <2>1. /\ mw = mr /\ mw.m = "PlainArray" /\ mw.size \in Widths /\ mw.len = n
    BY <1>2, <1>3, <1>5, <1>8 DEF SameShape
  <2>2. SameShape(mw, mr)
    BY <2>1 DEF SameShape
  <2> HIDE DEF n, t, u
  <2>3. ASSUME NEW b, NEW v, NEW ew, NEW d, NEW er, Fit(b, v2), v \in ValuesOf[w]
        PROVE  ReadBackAt(mw, mr, b, v, ew, d, er, ViewOf(w, r, v))
    <3>1. Len(v) = mw.len /\ mw.len \in Nat \ {0}
      BY <1>1, <2>1, <2>3 DEF n
    <3>2. ReadBackAt(mw, mw, b, v, ew, d, er, v)
      BY <2>1, <2>3, <3>1, PlainArraysBack
    <3>3. ViewOf(w, r, v) = v
      BY <1>4, <1>6, <1>8, <2>3
    <3> QED
      BY <2>1, <3>2, <3>3
  <2>4. MachinesBack(mw, mr, w, r, v2)
    BY <2>3 DEF MachinesBack
  <2>5. ReadsBack(mw, mr, w, r, v2)
    BY <1>7, <2>4, BackBy
  <2>6. sw = mw /\ sr = mr
    BY <2>1 DEF StripHeaders
  <2> QED
    BY <2>2, <2>5, <2>6 DEF Agree, mw, mr
<1>9. CASE x.m # "Primitive"
  <2>1. y.m # "Primitive" /\ Innermost(x) = Innermost(y)
    BY <1>3, <1>9 DEF SameShape
  <2>2. hx = hy
    BY <2>1
  <2>0. /\ hx = (header /\ ~(Innermost(x) \in {"PlainArray", "Char"}))
        /\ hy = (header /\ ~(Innermost(y) \in {"PlainArray", "Char"}))
    OBVIOUS
  <2> HIDE DEF hx, hy, n, t, u
  <2>3. /\ mw.m = "Array" /\ mw.of = StripHeaders(x) /\ mw.len = n /\ mw.header = hx /\ mw.inner = Innermost(x)
        /\ mr.m = "Array" /\ mr.of = StripHeaders(y) /\ mr.len = n /\ mr.header = hy /\ mr.inner = Innermost(x)
    BY <1>2, <1>9, <2>1
  <2>4. /\ sw.m = "Array" /\ sw.of = StripHeaders(x) /\ sw.len = n /\ sw.header = FALSE
        /\ sr.m = "Array" /\ sr.of = StripHeaders(y) /\ sr.len = n /\ sr.header = FALSE
    BY <1>2, <1>9, <2>1 DEF StripHeaders
  <2>5. SameShape(mw, mr)
    BY <2>3 DEF SameShape, Innermost
  <2>6. ASSUME NEW p, NEW q, p.m = "Array", q.m = "Array", p.of = StripHeaders(x), q.of = StripHeaders(y),
               p.len = n, q.len = n, p.header = q.header, Encodes(p, ValuesOf[w], v2)
        PROVE  ReadsBack(p, q, w, r, v2)
    <3>1. ASSUME NEW b, NEW v, NEW ew, NEW d, NEW er, Fit(b, v2), v \in ValuesOf[w]
          PROVE  ReadBackAt(p, q, b, v, ew, d, er, ViewOf(w, r, v))
      <4>1. v \in Seq(ValuesOf[t]) /\ Len(v) = p.len /\ v # <<>>
        BY <1>1, <2>6, <3>1 DEF n, t
      <4>2. ReadsBack(p.of, q.of, t, u, v2) /\ p.len = q.len
        BY <1>3, <2>6
      <4>3. ReadBackAt(p, q, b, v, ew, d, er, Seen(t, u, v))
        BY <2>6, <3>1, <4>1, <4>2, ArraysBack
      <4> QED
        BY <1>4, <4>3
    <3>2. MachinesBack(p, q, w, r, v2)
      BY <3>1 DEF MachinesBack
    <3> QED
      BY <2>6, <3>2, BackBy
  <2> HIDE DEF sw, sr
  <2>7. ReadsBack(mw, mr, w, r, v2)
    BY <1>7, <2>2, <2>3, <2>6
  <2>8. ReadsBack(sw, sr, w, r, v2)
    BY <1>7, <2>4, <2>6
  <2> QED
    BY <2>5, <2>7, <2>8 DEF Agree, mw, mr, sw, sr
<1> QED
  BY <1>8, <1>9

\* What a union needs of its parts.
UnionParts(w, r, v2) ==
  /\ w.disc.k \in {"prim", "char", "enum"} /\ Agrees(w.disc, r.disc, v2)
  /\ DOMAIN r.cases = DOMAIN w.cases
  /\ \A label \in DOMAIN w.cases :
       /\ w.cases[label] \in Descs /\ r.cases[label] \in Descs /\ Agrees(w.cases[label], r.cases[label], v2)
  /\ w.default = None <=> r.default = None
  /\ w.default # None => w.default \in Descs /\ r.default \in Descs /\ Agrees(w.default, r.default, v2)

LEMMA AgreesUnion ==
  ASSUME Recursion, ViewRecursion, NEW w \in Descs, NEW r, w.k = "union", r.k = "union", w.ext = r.ext,
         w.defaultDisc = r.defaultDisc, NEW v2 \in BOOLEAN, Fits(w, v2), UnionParts(w, r, v2)
  PROVE  Agrees(w, r, v2)
<1>0. IsDescription(w) /\ \A u \in ValuesOf[w] : IsValue(w, u)
  BY TypesAssumption, ValuesAssumption
<1>1. \A u \in ValuesOf[w] :
         /\ LabelOf(w, u) \in ValuesOf[w.disc]
         /\ u.d \in DOMAIN w.cases => u.v \in ValuesOf[w.cases[u.d]]
         /\ u.d \notin DOMAIN w.cases /\ w.default # None => u.v \in ValuesOf[w.default]
  BY <1>0 DEF IsValue
<1>2. {None, w.defaultDisc} \cap DOMAIN w.cases = {}
  BY <1>0 DEF IsDescription
<1> SUFFICES ASSUME NEW id, NEW header
             PROVE  /\ BuiltMachine(w, id, header, v2).m # "Array"
                    /\ SameShape(BuiltMachine(w, id, header, v2), BuiltMachine(r, id, header, v2))
                    /\ MachinesBack(BuiltMachine(w, id, header, v2), BuiltMachine(r, id, header, v2), w, r, v2)
  BY AgreesBy
<1> DEFINE mw == BuiltMachine(w, id, header, v2)
           mr == BuiltMachine(r, id, header, v2)
           kind == "DataSample"
           M(t) == MachineFor(t, None, v2, v2)
           cases(t) == [label \in DOMAIN t.cases |-> M(t.cases[label])]
           default(t) == IF t.default = None THEN None ELSE M(t.default)
           class(t) == IF t.ext = "appendable" /\ v2 THEN "DelimitedUnion" ELSE "Union"
<1>3. /\ mw = [m |-> class(w), disc |-> M(w.disc), cases |-> cases(w), default |-> default(w), defaultDisc |-> w.defaultDisc]
      /\ mr = [m |-> class(r), disc |-> M(r.disc), cases |-> cases(r), default |-> default(r), defaultDisc |-> r.defaultDisc]
  BY DEF BuiltMachine, UnionMachineFor
<1> HIDE DEF mw, mr
<1>4. /\ mw.m = class(w) /\ mw.disc = M(w.disc) /\ mw.cases = cases(w) /\ mw.default = default(w) /\ mw.defaultDisc = w.defaultDisc
      /\ mr.m = class(r) /\ mr.disc = M(r.disc) /\ mr.cases = cases(r) /\ mr.default = default(r) /\ mr.defaultDisc = r.defaultDisc
  BY <1>3
<1>5. mw.m = mr.m /\ mw.m \in {"Union", "DelimitedUnion"} /\ (mw.m = "DelimitedUnion" => w.ext = "appendable")
  BY <1>4
<1>6. \A t \in Descs : M(t) # None
  BY NoneAssumption
<1>7. \A t, u : Agrees(t, u, v2) => ReadsBack(M(t), M(u), t, u, v2)
  BY DEF Agrees, Agree
<1> HIDE DEF M
<1>8. UnionsAlike(mw, mr, w, r, v2)
  <2>1. ReadsBack(mw.disc, mr.disc, w.disc, r.disc, v2)
    BY <1>4, <1>7 DEF UnionParts
  <2>2. DOMAIN mw.cases = DOMAIN w.cases /\ DOMAIN mr.cases = DOMAIN w.cases
    BY <1>4 DEF UnionParts
  <2>3. mw.defaultDisc = w.defaultDisc /\ mr.defaultDisc = w.defaultDisc
    BY <1>4
  <2>4. ASSUME NEW label \in DOMAIN w.cases
        PROVE  /\ mw.cases[label] # None /\ mr.cases[label] # None
               /\ ReadsBack(mw.cases[label], mr.cases[label], w.cases[label], r.cases[label], v2)
    <3>1. mw.cases[label] = M(w.cases[label]) /\ mr.cases[label] = M(r.cases[label])
      BY <1>4 DEF UnionParts
    <3>2. w.cases[label] \in Descs /\ r.cases[label] \in Descs /\ Agrees(w.cases[label], r.cases[label], v2)
      BY DEF UnionParts
    <3> QED
      BY <1>6, <1>7, <3>1, <3>2
  <2>5. /\ mw.default = None <=> w.default = None
        /\ mr.default = None <=> w.default = None
    BY <1>4, <1>6 DEF UnionParts
  <2>6. w.default # None => ReadsBack(mw.default, mr.default, w.default, r.default, v2)
    BY <1>4, <1>7 DEF UnionParts
  <2> QED
    BY <1>2, <2>1, <2>2, <2>3, <2>4, <2>5, <2>6 DEF UnionsAlike
<1>9. \A x : View(w.disc, r.disc, x) = x
  BY DEF UnionParts, ViewRecursion, ViewOf
<1>10. \A u \in ValuesOf[w] : UnionValue(w, r, u)
  BY <1>1, <1>9 DEF UnionValue
<1>11. \A u : ViewOf(w, r, u) = UnionSeen(w, r, u)
  BY DEF ViewOf, UnionSeen
<1>12. SameShape(mw, mr) /\ mw.m # "Array"
  BY <1>5 DEF SameShape, Innermost
<1>13. ASSUME NEW b, NEW u, NEW ew, NEW d, NEW er, Fit(b, v2), u \in ValuesOf[w]
       PROVE  ReadBackAt(mw, mr, b, u, ew, d, er, ViewOf(w, r, u))
  <2>1. UnionValue(w, r, u)
    BY <1>10, <1>13
  <2>2. CASE mw.m = "Union"
    <3> DEFINE inside == "Never"
               a == SerializeUnion(mw, b, u, kind, ew, inside)
    <3>1. Serialized(mw, b, u, kind, ew) = a
      BY <2>2 DEF Serialized
    <3>2. Deserialized(mr, d, kind, er) = DeserializeUnion(mr, d, kind, er)
      BY <1>5, <2>2 DEF Deserialized
    <3> HIDE DEF a, inside
    <3>3. Holds(d, b, a) => b.pos < a.pos /\ DeserializeUnion(mr, d, kind, er) = Came(d, a.pos, UnionSeen(w, r, u))
      BY <1>8, <1>13, <2>1, BackUnion DEF a
    <3> QED
      BY <1>11, <3>1, <3>2, <3>3 DEF ReadBackAt
  <2>3. CASE mw.m = "DelimitedUnion"
    <3> DEFINE a == SerializeDelimitedUnion(mw, b, u, kind)
    <3>1. Serialized(mw, b, u, kind, ew) = a
      BY <2>3 DEF Serialized
    <3>2. Deserialized(mr, d, kind, er) = DeserializeDelimitedUnion(mr, d, kind)
      BY <1>5, <2>3 DEF Deserialized
    <3>3. w.default = None => LabelOf(w, u) \in DOMAIN w.cases \cup {w.defaultDisc}
      BY <1>5, <1>13, <2>3, LabelsAssumption
    <3>4. mr.m = "DelimitedUnion"
      BY <1>5, <2>3
    <3> HIDE DEF a
    <3>5. Holds(d, b, a) => b.pos < a.pos /\ DeserializeDelimitedUnion(mr, d, kind) = Came(d, a.pos, UnionSeen(w, r, u))
      BY <1>8, <1>13, <2>1, <3>3, <3>4, BackDelimitedUnion DEF a
    <3> QED
      BY <1>11, <3>1, <3>2, <3>5 DEF ReadBackAt
  <2> QED
    BY <1>5, <2>2, <2>3
<1>14. MachinesBack(mw, mr, w, r, v2)
  BY <1>13 DEF MachinesBack
<1> QED
  BY <1>12, <1>14 DEF mw, mr

\* What a struct needs of its parts.
StructParts(w, r, v2) ==
  /\ \A i \in DOMAIN w.members : Fits(w.members[i].type, v2)
  /\ \A i \in DOMAIN r.members : Zeroed(r.members[i].type, v2)
  /\ \A i \in DOMAIN w.members \cap DOMAIN r.members :
       w.members[i].id = r.members[i].id /\ Agrees(w.members[i].type, r.members[i].type, v2)

\* The machines of the members of a struct that is not mutable.
PlainOnes(m, t, v2) ==
  /\ Distinct(t.members) /\ Len(m.members) = Len(t.members) /\ Len(t.members) \in Nat /\ t.members # <<>>
  /\ DOMAIN t.members = 1 .. Len(t.members)
  /\ \A i \in 1 .. Len(t.members) :
       /\ m.members[i].name = t.members[i].name
       /\ m.members[i].machine = MachineFor(t.members[i].type, t.members[i].id, v2, v2)

LEMMA PlainMembers ==
  ASSUME NEW t, IsDescription(t), t.k = "struct", NEW v2, NEW m, m.members = [i \in DOMAIN t.members |-> PlainMember(t.members[i], v2)]
  PROVE  PlainOnes(m, t, v2)
<1>1. Distinct(t.members) /\ Len(t.members) > 0
  BY MembersDistinct
<1>2. Len(t.members) \in Nat /\ DOMAIN t.members = 1 .. Len(t.members)
  BY <1>1 DEF Distinct
<1> DEFINE N == Len(t.members)
<1>3. m.members = [i \in 1 .. N |-> PlainMember(t.members[i], v2)]
  BY <1>2
<1>4. \A i \in 1 .. N : m.members[i] = PlainMember(t.members[i], v2)
  BY <1>3
<1>5. Len(m.members) = N
  <2> HIDE DEF N
  <2> QED
    BY <1>2, <1>3 DEF N
<1>6. t.members # <<>>
  BY <1>1
<1> QED
  BY <1>1, <1>2, <1>4, <1>5, <1>6 DEF PlainMember, PlainOnes

LEMMA AgreesStruct ==
  ASSUME Recursion, ViewRecursion, NEW w \in Descs, NEW r \in Descs, w.k = "struct", r.k = "struct", w.ext = r.ext,
         w.ext # "mutable", NEW v2 \in BOOLEAN, ~(w.ext = "appendable" /\ v2) => Len(w.members) = Len(r.members),
         Fits(w, v2), StructParts(w, r, v2)
  PROVE  Agrees(w, r, v2)
<1>0. IsDescription(w) /\ IsDescription(r) /\ \A u \in ValuesOf[w] : IsValue(w, u)
  BY TypesAssumption, ValuesAssumption
<1> SUFFICES ASSUME NEW id, NEW header
             PROVE  /\ BuiltMachine(w, id, header, v2).m # "Array"
                    /\ SameShape(BuiltMachine(w, id, header, v2), BuiltMachine(r, id, header, v2))
                    /\ MachinesBack(BuiltMachine(w, id, header, v2), BuiltMachine(r, id, header, v2), w, r, v2)
  BY AgreesBy
<1> DEFINE mw == BuiltMachine(w, id, header, v2)
           mr == BuiltMachine(r, id, header, v2)
           kind == "DataSample"
           class == IF w.ext = "appendable" /\ v2 THEN "Delimited" ELSE "Struct"
           N == Len(w.members)
           K == Len(r.members)
<1>1. /\ mw = [m |-> class, keys |-> w.keys, members |-> [i \in DOMAIN w.members |-> PlainMember(w.members[i], v2)]]
      /\ mr = [m |-> class, keys |-> r.keys, members |-> [i \in DOMAIN r.members |-> PlainMember(r.members[i], v2)]]
  BY DEF BuiltMachine, StructMachineFor
<1> HIDE DEF mw, mr
<1>2. /\ mw.m = class /\ mw.members = [i \in DOMAIN w.members |-> PlainMember(w.members[i], v2)]
      /\ mr.m = class /\ mr.members = [i \in DOMAIN r.members |-> PlainMember(r.members[i], v2)]
  BY <1>1
<1>3. /\ Distinct(w.members) /\ Len(mw.members) = N /\ N \in Nat /\ w.members # <<>> /\ DOMAIN w.members = 1 .. N
      /\ \A i \in 1 .. N : /\ mw.members[i].name = w.members[i].name
                           /\ mw.members[i].machine = MachineFor(w.members[i].type, w.members[i].id, v2, v2)
  <2>1. PlainOnes(mw, w, v2)
    BY <1>0, <1>2, PlainMembers
  <2> QED
    BY <2>1 DEF PlainOnes
<1>4. /\ Distinct(r.members) /\ Len(mr.members) = K /\ K \in Nat /\ DOMAIN r.members = 1 .. K
      /\ \A i \in 1 .. K : /\ mr.members[i].name = r.members[i].name
                           /\ mr.members[i].machine = MachineFor(r.members[i].type, r.members[i].id, v2, v2)
  <2>1. PlainOnes(mr, r, v2)
    BY <1>0, <1>2, PlainMembers
  <2> QED
    BY <2>1 DEF PlainOnes
<1>5. mw.m = mr.m /\ mw.m \in {"Struct", "Delimited"} /\ (mw.m = "Struct" => N = K)
  BY <1>2
<1>6. \A v \in ValuesOf[w] : StructValue(w, v)
  <2>1. \A i \in 1 .. N : w.members[i] \in ToSet(w.members)
    BY <1>3 DEF ToSet
  <2> QED
    BY <1>0, <2>1 DEF IsValue, StructValue
<1>7. \A v : ViewOf(w, r, v) = StructSeen(w, r, v)
  BY DEF ViewOf, StructSeen
<1> HIDE DEF class
<1>8. StructsAlike(mw, mr, w, r, v2)
  <2>1. ASSUME NEW i \in 1 .. N
        PROVE  mw.members[i].name = w.members[i].name /\ Encodes(mw.members[i].machine, ValuesOf[w.members[i].type], v2)
    BY <1>3 DEF StructParts, Fits
  <2>2. ASSUME NEW i \in 1 .. K
        PROVE  mr.members[i].name = r.members[i].name /\ DefaultOf(mr.members[i].machine) = Zero(r.members[i].type)
    <3> DEFINE y == r.members[i]
    <3>1. Zeroed(y.type, v2)
      BY <1>4 DEF StructParts
    <3>2. mr.members[i].name = y.name /\ mr.members[i].machine = MachineFor(y.type, y.id, v2, v2)
      BY <1>4
    <3> HIDE DEF y
    <3>3. DefaultOf(mr.members[i].machine) = Zero(y.type)
      BY <3>1, <3>2 DEF Zeroed
    <3> QED
      BY <3>2, <3>3 DEF y
  <2>3. ASSUME NEW i \in 1 .. N, i <= K
        PROVE  /\ w.members[i].id = r.members[i].id
               /\ ReadsBack(mw.members[i].machine, mr.members[i].machine, w.members[i].type, r.members[i].type, v2)
    <3>1. i \in DOMAIN w.members \cap DOMAIN r.members /\ i \in 1 .. K
      BY <1>3, <1>4, <2>3
    <3> DEFINE x == w.members[i]
               y == r.members[i]
    <3>2. x.id = y.id /\ Agrees(x.type, y.type, v2)
      BY <3>1 DEF StructParts
    <3>3. mw.members[i].machine = MachineFor(x.type, x.id, v2, v2) /\ mr.members[i].machine = MachineFor(y.type, y.id, v2, v2)
      BY <1>3, <1>4, <3>1
    <3> HIDE DEF x, y
    <3>4. ReadsBack(MachineFor(x.type, x.id, v2, v2), MachineFor(y.type, x.id, v2, v2), x.type, y.type, v2)
      BY <3>2 DEF Agrees, Agree
    <3>5. ReadsBack(mw.members[i].machine, mr.members[i].machine, x.type, y.type, v2)
      BY <3>2, <3>3, <3>4
    <3> QED
      BY <3>2, <3>5 DEF x, y
  <2> QED
    BY <1>3, <1>4, <2>1, <2>2, <2>3 DEF StructsAlike
<1>9. SameShape(mw, mr) /\ mw.m # "Array"
  BY <1>5 DEF SameShape, Innermost
<1>10. ASSUME NEW b, NEW v, NEW ew, NEW d, NEW er, Fit(b, v2), v \in ValuesOf[w]
       PROVE  ReadBackAt(mw, mr, b, v, ew, d, er, ViewOf(w, r, v))
  <2>1. StructValue(w, v)
    BY <1>6, <1>10
  <2>2. CASE mw.m = "Struct"
    <3> DEFINE a == SerializeMembers(mw, b, v, kind, ew)
    <3>1. Serialized(mw, b, v, kind, ew) = a
      BY <2>2 DEF Serialized
    <3>2. Deserialized(mr, d, kind, er) = DeserializeStruct(mr, d, kind, er)
      BY <1>5, <2>2 DEF Deserialized
    <3>3. Len(w.members) = Len(r.members) /\ w.members # <<>>
      BY <1>3, <1>5, <2>2
    <3> HIDE DEF a
    <3>4. Holds(d, b, a) => b.pos < a.pos /\ DeserializeStruct(mr, d, kind, er) = Came(d, a.pos, StructSeen(w, r, v))
      BY <1>8, <1>10, <2>1, <3>3, BackStruct DEF a
    <3> QED
      BY <1>7, <3>1, <3>2, <3>4 DEF ReadBackAt
  <2>3. CASE mw.m = "Delimited"
    <3> DEFINE a == SerializeDelimited(mw, b, v, kind, ew)
    <3>1. Serialized(mw, b, v, kind, ew) = a
      BY <2>3 DEF Serialized
    <3>2. Deserialized(mr, d, kind, er) = DeserializeDelimited(mr, d, kind, er)
      BY <1>5, <2>3 DEF Deserialized
    <3> HIDE DEF a
    <3>3. Holds(d, b, a) => b.pos < a.pos /\ DeserializeDelimited(mr, d, kind, er) = Came(d, a.pos, StructSeen(w, r, v))
      BY <1>8, <1>10, <2>1, BackDelimited DEF a
    <3> QED
      BY <1>7, <3>1, <3>2, <3>3 DEF ReadBackAt
  <2> QED
    BY <1>5, <2>2, <2>3
<1>11. MachinesBack(mw, mr, w, r, v2)
  BY <1>10 DEF MachinesBack
<1> QED
  BY <1>9, <1>11 DEF mw, mr

\* A sequence has its size in front, or elements of one byte.
LEMMA FirstSize ==
  ASSUME Recursion, NEW t, IsDescription(t), NEW id, NEW header, NEW v2, NEW m, m = BuiltMachine(t, id, header, v2)
  PROVE  header /\ m.m = "Sequence" => SizeFirst(m)
<1>1. t.k \in {"prim", "char", "string", "bytes", "enum", "bitmask", "opt", "list", "seq", "array",
               "map", "struct", "union"}
  BY DEF IsDescription
<1>2. CASE t.k = "list"
  <2>1. m.header = header
    BY <1>2 DEF BuiltMachine
  <2> QED
    BY <2>1 DEF SizeFirst
<1>3. CASE t.k = "seq"
  <2> DEFINE sub == MachineFor(t.of, None, header, v2)
  <2>1. m = IF sub.m = "Primitive" THEN [m |-> "PlainSequence", size |-> sub.size, max |-> t.max]
            ELSE [m |-> "Sequence", of |-> sub, max |-> t.max, header |-> header /\ sub.m # "Char"]
    BY <1>3 DEF BuiltMachine, SequenceMachineFor
  <2> HIDE DEF sub
  <2>2. m.m = "Sequence" => m.of = sub /\ m.header = (header /\ sub.m # "Char")
    BY <2>1
  <2> QED
    BY <2>2 DEF SizeFirst
<1>4. CASE t.k \notin {"list", "seq"}
  <2>1. m.m # "Sequence"
    BY <1>1, <1>4 DEF BuiltMachine, ArrayMachineFor, StructMachineFor, UnionMachineFor
  <2> QED
    BY <2>1
<1> QED
  BY <1>2, <1>3, <1>4

LEMMA MemberCode ==
  ASSUME Recursion, NEW t \in Descs, NEW id, NEW v2 \in BOOLEAN, NEW m, m = MachineFor(t, id, v2, v2), NEW lc,
         lc = IF v2 THEN LenType(m) ELSE 4
  PROVE  lc = 4 \/ (v2 /\ SizeKnown(m, t, lc))
<1>1. m = BuiltMachine(t, id, v2, v2) /\ IsDescription(t)
  BY TypesAssumption DEF Recursion
<1>2. v2 /\ m.m = "Sequence" => SizeFirst(m)
  BY <1>1, FirstSize
<1>3. CASE lc # 4
  <2>1. v2 /\ lc = LenType(m)
    BY <1>3
  <2>2. m.m = "Sequence" => SizeFirst(m)
    BY <1>2, <2>1
  <2>3. LenType(m) = 4 \/ SizeKnown(m, t, LenType(m))
    BY <1>1, <2>2, CodesKnown
  <2> QED
    BY <1>3, <2>1, <2>3
<1> QED
  BY <1>3

\* What a mutable struct needs of its parts.
MutableParts(w, r, v2) ==
  /\ \A i \in DOMAIN w.members :
       LET t == Inner(w.members[i].type)
       IN  IsDescription(w.members[i].type) /\ t \in Descs /\ Fits(t, v2)
  /\ \A j \in DOMAIN r.members : IsDescription(r.members[j].type) /\ Zeroed(r.members[j].type, v2)
  /\ \A j \in DOMAIN r.members : r.members[j].name \in r.keys =>
       \E i \in DOMAIN w.members : w.members[i].id = r.members[j].id /\ w.members[i].type.k # "opt"
  /\ \A i \in DOMAIN w.members, j \in DOMAIN r.members : w.members[i].id = r.members[j].id =>
       /\ w.members[i].type.k = "opt" <=> r.members[j].type.k = "opt"
       /\ Agrees(Inner(w.members[i].type), Inner(r.members[j].type), v2)

\* The machine of a member.
MadeFor(y, x, v2) ==
  /\ MemberOf(y, x)
  /\ y.machine = MachineFor(Inner(x.type), IF x.type.k = "opt" THEN None ELSE x.id, v2, v2)
  /\ y.lentype = IF v2 THEN LenType(y.machine) ELSE 4

MutableOnes(m, t, v2) ==
  /\ Distinct(t.members) /\ Len(m.members) = Len(t.members) /\ DOMAIN m.members = 1 .. Len(t.members)
  /\ Len(t.members) \in Nat /\ DOMAIN t.members = 1 .. Len(t.members)
  /\ \A i \in 1 .. Len(t.members) : MadeFor(m.members[i], t.members[i], v2)

LEMMA MutableMachines ==
  ASSUME Recursion, NEW t, IsDescription(t), t.k = "struct", NEW v2,
         \A i \in DOMAIN t.members : IsDescription(t.members[i].type),
         NEW m, m.members = [i \in DOMAIN t.members |-> MutableMember(t.members[i], v2)]
  PROVE  MutableOnes(m, t, v2)
<1>1. Distinct(t.members)
  BY MembersDistinct
<1>2. Len(t.members) \in Nat /\ DOMAIN t.members = 1 .. Len(t.members)
  BY <1>1 DEF Distinct
<1> DEFINE N == Len(t.members)
<1>3. m.members = [i \in 1 .. N |-> MutableMember(t.members[i], v2)]
  BY <1>2
<1>4. \A i \in 1 .. N : m.members[i] = MutableMember(t.members[i], v2)
  BY <1>3
<1>5. Len(m.members) = N /\ DOMAIN m.members = 1 .. N
  <2> HIDE DEF N
  <2> QED
    BY <1>2, <1>3 DEF N
<1>6. ASSUME NEW i \in 1 .. N PROVE MadeFor(m.members[i], t.members[i], v2)
  <2> DEFINE x == t.members[i]
             y == MutableMember(x, v2)
  <2>1. IsDescription(x.type)
    BY <1>2
  <2> HIDE DEF x
  <2>2. /\ MemberOf(y, x)
        /\ y.machine = IF x.type.k = "opt" THEN MachineFor(x.type.of, None, v2, v2)
                       ELSE MachineFor(x.type, x.id, v2, v2)
        /\ y.lentype = IF v2 THEN LenType(y.machine) ELSE 4
    BY <2>1, MemberMachine
  <2> HIDE DEF y
  <2>3. y.machine = MachineFor(Inner(x.type), IF x.type.k = "opt" THEN None ELSE x.id, v2, v2)
    BY <2>2 DEF Inner
  <2>4. MadeFor(y, x, v2)
    BY <2>2, <2>3 DEF MadeFor
  <2> QED
    BY <1>4, <2>4 DEF x, y
<1> QED
  BY <1>1, <1>2, <1>5, <1>6 DEF MutableOnes

LEMMA MutablesMeet ==
  ASSUME Recursion, ViewRecursion, NEW w \in Descs, NEW r \in Descs, w.k = "struct", r.k = "struct",
         w.ext = "mutable", r.ext = "mutable", NEW v2 \in BOOLEAN, MutableParts(w, r, v2), NEW id, NEW header,
         NEW mw, mw = BuiltMachine(w, id, header, v2), NEW mr, mr = BuiltMachine(r, id, header, v2)
  PROVE  MutablesAlike(mw, mr, w, r, v2) /\ mw.m = "Mutable" /\ mr.m = "Mutable"
<1>0. IsDescription(w) /\ IsDescription(r)
  BY TypesAssumption
<1> DEFINE N == Len(w.members)
           K == Len(r.members)
<1>1. /\ mw = [m |-> "Mutable", v2 |-> v2, keys |-> w.keys,
               members |-> [i \in DOMAIN w.members |-> MutableMember(w.members[i], v2)]]
      /\ mr = [m |-> "Mutable", v2 |-> v2, keys |-> r.keys,
               members |-> [i \in DOMAIN r.members |-> MutableMember(r.members[i], v2)]]
  BY DEF BuiltMachine, StructMachineFor
<1>2. /\ mw.m = "Mutable" /\ mw.v2 = v2 /\ mw.members = [i \in DOMAIN w.members |-> MutableMember(w.members[i], v2)]
      /\ mr.m = "Mutable" /\ mr.v2 = v2 /\ mr.members = [i \in DOMAIN r.members |-> MutableMember(r.members[i], v2)]
      /\ mr.keys = r.keys
  BY <1>1
<1>3. /\ \A i \in DOMAIN w.members : IsDescription(w.members[i].type)
      /\ \A j \in DOMAIN r.members : IsDescription(r.members[j].type)
  BY DEF MutableParts
<1>4. MutableOnes(mw, w, v2)
  BY <1>0, <1>2, <1>3, MutableMachines
<1>5. MutableOnes(mr, r, v2)
  BY <1>0, <1>2, <1>3, MutableMachines
<1>6. /\ Distinct(w.members) /\ Len(mw.members) = N /\ DOMAIN w.members = 1 .. N
      /\ \A i \in 1 .. N : MadeFor(mw.members[i], w.members[i], v2)
  BY <1>4 DEF MutableOnes
<1>7. /\ Distinct(r.members) /\ Len(mr.members) = K /\ DOMAIN mr.members = 1 .. K /\ DOMAIN r.members = 1 .. K
      /\ \A j \in 1 .. K : MadeFor(mr.members[j], r.members[j], v2)
  BY <1>5 DEF MutableOnes
<1> HIDE DEF N, K
<1>8. ASSUME NEW i \in 1 .. N
      PROVE  LET x == mw.members[i]
                 t == Inner(w.members[i].type)
             IN  /\ MemberOf(x, w.members[i]) /\ Encodes(x.machine, ValuesOf[t], v2)
                 /\ x.lentype = 4 \/ (mw.v2 /\ SizeKnown(x.machine, t, x.lentype))
  <2> DEFINE x == mw.members[i]
             z == w.members[i]
             t == Inner(z.type)
             d == IF z.type.k = "opt" THEN None ELSE z.id
             m == x.machine
             lc == x.lentype
  <2>1. MadeFor(x, z, v2)
    BY <1>6
  <2>2. t \in Descs /\ Fits(t, v2)
    BY <1>6 DEF MutableParts
  <2>3. MemberOf(x, z) /\ m = MachineFor(t, d, v2, v2) /\ lc = IF v2 THEN LenType(m) ELSE 4
    BY <2>1 DEF MadeFor
  <2> HIDE DEF x, z, t, d, m, lc
  <2>4. lc = 4 \/ (v2 /\ SizeKnown(m, t, lc))
    BY <2>2, <2>3, MemberCode
  <2>5. Encodes(m, ValuesOf[t], v2)
    BY <2>2, <2>3 DEF Fits
  <2> QED
    BY <1>2, <2>3, <2>4, <2>5 DEF x, z, t, m, lc
<1>9. ASSUME NEW j \in 1 .. K
      PROVE  /\ MemberOf(mr.members[j], r.members[j])
             /\ r.members[j].type.k # "opt" => DefaultOf(mr.members[j].machine) = Zero(r.members[j].type)
             /\ r.members[j].name \in r.keys =>
                  \E i \in 1 .. N : w.members[i].id = r.members[j].id /\ w.members[i].type.k # "opt"
  <2> DEFINE y == mr.members[j]
             z == r.members[j]
  <2>1. MadeFor(y, z, v2)
    BY <1>7
  <2>2. Zeroed(z.type, v2)
    BY <1>7 DEF MutableParts
  <2>3. z.name \in r.keys => \E i \in 1 .. N : w.members[i].id = z.id /\ w.members[i].type.k # "opt"
    BY <1>6, <1>7 DEF MutableParts
  <2> HIDE DEF y, z
  <2>4. MemberOf(y, z) /\ (z.type.k # "opt" => y.machine = MachineFor(z.type, z.id, v2, v2))
    BY <2>1 DEF MadeFor, Inner
  <2>5. z.type.k # "opt" => DefaultOf(y.machine) = Zero(z.type)
    BY <2>2, <2>4 DEF Zeroed
  <2> QED
    BY <2>3, <2>4, <2>5 DEF y, z
<1>10. ASSUME NEW i \in 1 .. N, NEW j \in 1 .. K, w.members[i].id = r.members[j].id
       PROVE  /\ w.members[i].type.k = "opt" <=> r.members[j].type.k = "opt"
              /\ ReadsBack(mw.members[i].machine, mr.members[j].machine,
                           Inner(w.members[i].type), Inner(r.members[j].type), v2)
  <2> DEFINE x == mw.members[i]
             z == w.members[i]
             y == mr.members[j]
             q == r.members[j]
             d == IF z.type.k = "opt" THEN None ELSE z.id
             e == IF q.type.k = "opt" THEN None ELSE q.id
             t == Inner(z.type)
             u == Inner(q.type)
  <2>1. MadeFor(x, z, v2) /\ MadeFor(y, q, v2)
    BY <1>6, <1>7
  <2>2. (z.type.k = "opt" <=> q.type.k = "opt") /\ Agrees(t, u, v2)
    BY <1>6, <1>7, <1>10 DEF MutableParts
  <2>3. d = e
    BY <1>10, <2>2
  <2>4. x.machine = MachineFor(t, d, v2, v2) /\ y.machine = MachineFor(u, e, v2, v2)
    BY <2>1 DEF MadeFor
  <2> HIDE DEF x, z, y, q, d, e, t, u
  <2>5. ReadsBack(MachineFor(t, d, v2, v2), MachineFor(u, d, v2, v2), t, u, v2)
    BY <2>2 DEF Agrees, Agree
  <2>6. ReadsBack(x.machine, y.machine, t, u, v2)
    BY <2>3, <2>4, <2>5
  <2> QED
    BY <2>2, <2>6 DEF x, z, y, q, t, u
<1>11. \A c : Fit(c, v2) /\ mw.v2 => c.alignMax = 4
  BY <1>2 DEF Fit
<1> QED
  BY <1>2, <1>6, <1>7, <1>8, <1>9, <1>10, <1>11 DEF MutablesAlike, N, K

\* How the members of a value are seen.
PartsSeen(w, r) ==
  \A i \in DOMAIN w.members, j \in DOMAIN r.members : w.members[i].id = r.members[j].id =>
    /\ w.members[i].type.k = "opt" <=> r.members[j].type.k = "opt"
    /\ w.members[i].type.k # "opt" =>
         \A v \in ValuesOf[w.members[i].type] : View(w.members[i].type, r.members[j].type, v) # None

LEMMA MutableSeen ==
  ASSUME ViewRecursion, NEW w, w.k = "struct", IsDescription(w), NEW r, r.k = "struct", IsDescription(r),
         \A i \in DOMAIN w.members : w.members[i].type \in Descs, PartsSeen(w, r),
         NEW v, IsValue(w, v)
  PROVE  MutableValue(w, r, v)
<1> DEFINE N == Len(w.members)
           K == Len(r.members)
<1>1. Distinct(w.members) /\ Distinct(r.members)
  BY MembersDistinct
<1>2. DOMAIN w.members = 1 .. N /\ DOMAIN r.members = 1 .. K
  BY <1>1 DEF Distinct
<1> HIDE DEF N, K
<1>3. \A i \in 1 .. N : w.members[i].type \in Descs /\ v[w.members[i].name] \in ValuesOf[w.members[i].type]
  <2>1. \A i \in 1 .. N : w.members[i] \in ToSet(w.members)
    BY <1>2 DEF ToSet
  <2> QED
    BY <1>2, <2>1 DEF IsValue
<1>4. ASSUME NEW i \in 1 .. N, Goes(w.members[i], v) PROVE v[w.members[i].name] \in ValuesOf[Inner(w.members[i].type)]
  <2> DEFINE x == w.members[i]
             z == v[x.name]
  <2>1. x.type \in Descs /\ z \in ValuesOf[x.type]
    BY <1>3
  <2>2. ~(x.type.k = "opt" /\ z = None)
    BY <1>4 DEF Goes
  <2> HIDE DEF x, z
  <2>3. x.type.k = "opt" => z \in {None} \cup ValuesOf[x.type.of]
    BY <2>1, ValuesAssumption DEF IsValue
  <2>4. z \in ValuesOf[Inner(x.type)]
    BY <2>1, <2>2, <2>3 DEF Inner
  <2> QED
    BY <2>4 DEF x, z
<1>5. ASSUME NEW i \in 1 .. N, NEW j \in 1 .. K, w.members[i].id = r.members[j].id
      PROVE  LET x == w.members[i]
                 y == r.members[j]
             IN  /\ View(x.type, y.type, v[x.name])
                      = IF Goes(x, v) THEN View(Inner(x.type), Inner(y.type), v[x.name]) ELSE None
                 /\ x.type.k # "opt" => View(x.type, y.type, v[x.name]) # None
  <2> DEFINE x == w.members[i]
             y == r.members[j]
             z == v[x.name]
  <2>1. z \in ValuesOf[x.type]
    BY <1>3
  <2>2. (x.type.k = "opt" <=> y.type.k = "opt") /\ (x.type.k # "opt" => View(x.type, y.type, z) # None)
    BY <1>2, <1>5, <2>1 DEF PartsSeen
  <2>3. Goes(x, v) <=> ~(x.type.k = "opt" /\ z = None)
    BY DEF Goes
  <2>4. x.type.k = "opt" => View(x.type, y.type, z) = IF z = None THEN None ELSE View(x.type.of, y.type.of, z)
    BY DEF ViewRecursion, ViewOf
  <2> HIDE DEF x, y, z
  <2>5. View(x.type, y.type, z) = IF Goes(x, v) THEN View(Inner(x.type), Inner(y.type), z) ELSE None
    BY <2>2, <2>3, <2>4 DEF Inner
  <2> QED
    BY <2>2, <2>5 DEF x, y, z
<1>6. \A j \in 1 .. K : r.members[j].type.k = "opt" => Zero(r.members[j].type) = None
  BY DEF ViewRecursion, ZeroValue
<1> QED
  BY <1>4, <1>5, <1>6 DEF MutableValue, N, K

\* The two ways to say that a member is missed.
LEMMA MissesMissed ==
  ASSUME NEW w, w.k = "struct", w.ext = "mutable", IsDescription(w), NEW r, r.k = "struct", IsDescription(r), NEW v
  PROVE  Misses(w, r, v) <=> Missed(w, r, v)
<1> DEFINE N == Len(w.members)
           K == Len(r.members)
<1>1. Distinct(w.members) /\ Distinct(r.members)
  BY MembersDistinct
<1>2. DOMAIN w.members = 1 .. N /\ DOMAIN r.members = 1 .. K
  BY <1>1 DEF Distinct
<1> HIDE DEF N, K
<1>3. ToSet(w.members) = {w.members[i] : i \in 1 .. N} /\ ToSet(r.members) = {r.members[j] : j \in 1 .. K}
  BY <1>2 DEF ToSet
<1> DEFINE Lacks(x) == /\ x.mu /\ \A y \in ToSet(r.members) : y.id # x.id
                       /\ ~(x.type.k = "opt" /\ v[x.name] = None)
<1>4. Misses(w, r, v) <=> \E x \in ToSet(w.members) : Lacks(x)
  BY DEF Misses
<1>5. \A i \in 1 .. N : Lacks(w.members[i]) <=> MissedAt(w, r, v, i)
  BY <1>3 DEF MissedAt, Goes, K
<1> HIDE DEF Lacks
<1>6. (\E x \in ToSet(w.members) : Lacks(x)) <=> (\E i \in 1 .. N : Lacks(w.members[i]))
  BY <1>3
<1> QED
  BY <1>4, <1>5, <1>6 DEF Missed, N

\* A mutable struct, written and read.
MutableBackAt(mw, mr, w, r, b, v, ew, d, er) ==
  LET a == Serialized(mw, b, v, "DataSample", ew)
      x == Deserialized(mr, d, "DataSample", er)
  IN  /\ Extends(b, a)
      /\ Holds(d, b, a) =>
           /\ b.pos < a.pos
           /\ IF Misses(w, r, v) THEN x.b.error = "MustUnderstand" ELSE x = Came(d, a.pos, View(w, r, v))

MutableReady(w, r, v2) ==
  /\ MutableParts(w, r, v2) /\ PartsSeen(w, r)
  /\ \A i \in DOMAIN w.members : w.members[i].type \in Descs

LEMMA MutableBack ==
  ASSUME Recursion, ViewRecursion, NEW w \in Descs, NEW r \in Descs, w.k = "struct", r.k = "struct",
         w.ext = "mutable", r.ext = "mutable", NEW v2 \in BOOLEAN, MutableReady(w, r, v2), NEW id, NEW header,
         NEW mw, mw = BuiltMachine(w, id, header, v2), NEW mr, mr = BuiltMachine(r, id, header, v2),
         NEW b, Fit(b, v2), NEW v \in ValuesOf[w], NEW ew, NEW d, NEW er
  PROVE  MutableBackAt(mw, mr, w, r, b, v, ew, d, er)
<1> DEFINE kind == "DataSample"
           a == SerializeMutable(mw, b, v, kind, ew)
           x == DeserializeMutable(mr, d, kind, er)
<1>1. IsDescription(w) /\ IsDescription(r) /\ IsValue(w, v)
  BY TypesAssumption, ValuesAssumption
<1>2. MutableParts(w, r, v2) /\ PartsSeen(w, r) /\ \A i \in DOMAIN w.members : w.members[i].type \in Descs
  BY DEF MutableReady
<1>3. MutablesAlike(mw, mr, w, r, v2) /\ mw.m = "Mutable" /\ mr.m = "Mutable"
  BY <1>2, MutablesMeet
<1>4. MutableValue(w, r, v)
  BY <1>1, <1>2, MutableSeen
<1>5. Misses(w, r, v) <=> Missed(w, r, v)
  BY <1>1, MissesMissed
<1>6. Serialized(mw, b, v, kind, ew) = a
  BY <1>3 DEF Serialized
<1>7. Deserialized(mr, d, kind, er) = x
  BY <1>3 DEF Deserialized
<1>8. View(w, r, v) = StructSeen(w, r, v)
  BY DEF ViewRecursion, ViewOf, StructSeen
<1> HIDE DEF a
<1>9. Extends(b, a) /\ b.pos < a.pos /\ (Holds(d, b, a) => MutableRead(mr, d, er, w, r, v, a.pos))
  BY <1>3, <1>4, BackMutable DEF a
<1>10. MutableRead(mr, d, er, w, r, v, a.pos)
         => IF Missed(w, r, v) THEN x.b.error = "MustUnderstand" ELSE x = Came(d, a.pos, StructSeen(w, r, v))
  BY DEF MutableRead
<1> HIDE DEF x
<1> QED
  BY <1>5, <1>6, <1>7, <1>8, <1>9, <1>10 DEF MutableBackAt

LEMMA AgreesMutable ==
  ASSUME Recursion, ViewRecursion, NEW w \in Descs, NEW r \in Descs, w.k = "struct", r.k = "struct",
         w.ext = "mutable", r.ext = "mutable", NEW v2 \in BOOLEAN, MutableReady(w, r, v2), Fits(w, v2),
         Understood(w, r)
  PROVE  Agrees(w, r, v2)
<1> SUFFICES ASSUME NEW id, NEW header
             PROVE  /\ BuiltMachine(w, id, header, v2).m # "Array"
                    /\ SameShape(BuiltMachine(w, id, header, v2), BuiltMachine(r, id, header, v2))
                    /\ MachinesBack(BuiltMachine(w, id, header, v2), BuiltMachine(r, id, header, v2), w, r, v2)
  BY AgreesBy
<1> DEFINE mw == BuiltMachine(w, id, header, v2)
           mr == BuiltMachine(r, id, header, v2)
<1>1. mw.m = "Mutable" /\ mr.m = "Mutable"
  BY DEF BuiltMachine, StructMachineFor
<1>2. ASSUME NEW b, NEW v, NEW ew, NEW d, NEW er, Fit(b, v2), v \in ValuesOf[w]
      PROVE  ReadBackAt(mw, mr, b, v, ew, d, er, ViewOf(w, r, v))
  <2>1. mw = BuiltMachine(w, id, header, v2) /\ mr = BuiltMachine(r, id, header, v2)
    OBVIOUS
  <2> HIDE DEF mw, mr
  <2>2. MutableBackAt(mw, mr, w, r, b, v, ew, d, er)
    BY <1>2, <2>1, MutableBack
  <2>3. ~Misses(w, r, v) /\ View(w, r, v) = ViewOf(w, r, v)
    BY <1>2 DEF Understood, ViewRecursion
  <2> QED
    BY <2>2, <2>3 DEF MutableBackAt, ReadBackAt
<1> HIDE DEF mw, mr
<1>3. SameShape(mw, mr) /\ mw.m # "Array"
  BY <1>1 DEF SameShape, Innermost
<1>4. MachinesBack(mw, mr, w, r, v2)
  BY <1>2 DEF MachinesBack
<1> QED
  BY <1>3, <1>4 DEF mw, mr

\* Everything that the parts of w are read as is read back.
PartsAgree(w, r, version, v2) ==
  \A q \in PartsReadAs(w, r) : q \in Readable[version] /\ Understood(q[1], q[2]) /\ Agrees(q[1], q[2], v2)

\* One pair of a part.
LEMMA PartAgrees ==
  ASSUME NEW w, NEW r, NEW version, NEW v2, PartsAgree(w, r, version, v2), NEW x, NEW y, <<x, y>> \in PartsReadAs(w, r)
  PROVE  <<x, y>> \in Readable[version] /\ Agrees(x, y, v2)
<1> DEFINE q == <<x, y>>
<1>1. q \in Readable[version] /\ Agrees(q[1], q[2], v2)
  BY DEF PartsAgree
<1>2. q[1] = x /\ q[2] = y
  OBVIOUS
<1> QED
  BY <1>1, <1>2

LEMMA PairFacts ==
  ASSUME NEW version \in Versions, NEW w, NEW r, <<w, r>> \in Readable[version]
  PROVE  /\ w \in Descs /\ r \in Descs /\ Alike(w, r, version) /\ IsDescription(w) /\ IsDescription(r)
         /\ \A x \in Parts(w) : x \in Descs /\ IsDescription(x) /\ Depth[x] < Depth[w]
         /\ \A x \in Parts(r) : x \in Descs /\ IsDescription(x)
         /\ \A q \in PartsReadAs(w, r) : q \in Readable[version] /\ Understood(q[1], q[2])
<1> DEFINE p == <<w, r>>
<1>1. /\ p[1] \in Descs /\ p[2] \in Descs /\ Alike(p[1], p[2], version)
      /\ \A q \in PartsReadAs(p[1], p[2]) : q \in Readable[version] /\ Understood(q[1], q[2])
  BY ReadableAssumption
<1>2. p[1] = w /\ p[2] = r
  OBVIOUS
<1> HIDE DEF p
<1>3. w \in Descs /\ r \in Descs
  BY <1>1, <1>2
<1>4. \A t \in Descs : IsDescription(t) /\ \A x \in Parts(t) : x \in Descs /\ IsDescription(x) /\ Depth[x] < Depth[t]
  BY TypesAssumption
<1> QED
  BY <1>1, <1>2, <1>3, <1>4

LEMMA MutableIsReady ==
  ASSUME Recursion, ViewRecursion, NEW version \in Versions, NEW v2 \in BOOLEAN, NEW w, NEW r,
         <<w, r>> \in Readable[version], w.k = "struct", w.ext = "mutable", PartsAgree(w, r, version, v2),
         \A q \in PartsReadAs(w, r) : PartsAgree(q[1], q[2], version, v2)
  PROVE  r.k = "struct" /\ r.ext = "mutable" /\ MutableReady(w, r, v2)
<1>1. /\ w \in Descs /\ r \in Descs /\ Alike(w, r, version) /\ IsDescription(w) /\ IsDescription(r)
      /\ \A x \in Parts(w) : x \in Descs /\ IsDescription(x)
      /\ \A x \in Parts(r) : x \in Descs /\ IsDescription(x)
  BY PairFacts
<1>2. r.k = "struct" /\ AlikeStructs(w, r, version)
  BY <1>1 DEF Alike
<1>3. /\ r.ext = "mutable"
      /\ \A y \in ToSet(r.members) : y.name \in r.keys =>
           \E x \in ToSet(w.members) : x.id = y.id /\ x.type.k # "opt"
  BY <1>2 DEF AlikeStructs
<1>4. \A i \in DOMAIN w.members : w.members[i] \in ToSet(w.members) /\ w.members[i].type \in Parts(w)
  BY DEF ToSet, Parts
<1>5. \A j \in DOMAIN r.members : r.members[j] \in ToSet(r.members) /\ r.members[j].type \in Parts(r)
  BY <1>2 DEF ToSet, Parts
<1>6. \A t \in Descs : Fits(t, v2) /\ Zeroed(t, v2)
  BY AllFit, AllZeroed
<1>7. ASSUME NEW i \in DOMAIN w.members
      PROVE  /\ w.members[i].type \in Descs /\ IsDescription(w.members[i].type)
             /\ Inner(w.members[i].type) \in Descs /\ Fits(Inner(w.members[i].type), v2)
  <2> DEFINE t == w.members[i].type
  <2>1. t \in Descs /\ IsDescription(t)
    BY <1>1, <1>4
  <2> HIDE DEF t
  <2>2. t.k = "opt" => t.of \in Parts(t)
    BY DEF Parts
  <2>3. \A x \in Parts(t) : x \in Descs
    BY <2>1, TypesAssumption
  <2>4. Inner(t) \in Descs
    BY <2>1, <2>2, <2>3 DEF Inner
  <2> QED
    BY <1>6, <2>1, <2>4 DEF t
<1>8. ASSUME NEW j \in DOMAIN r.members
      PROVE  IsDescription(r.members[j].type) /\ Zeroed(r.members[j].type, v2)
    BY <1>1, <1>5, <1>6
<1>9. ASSUME NEW j \in DOMAIN r.members, r.members[j].name \in r.keys
      PROVE  \E i \in DOMAIN w.members : w.members[i].id = r.members[j].id /\ w.members[i].type.k # "opt"
  <2>1. PICK x \in ToSet(w.members) : x.id = r.members[j].id /\ x.type.k # "opt"
    BY <1>3, <1>5, <1>9
  <2>2. PICK i \in DOMAIN w.members : x = w.members[i]
    BY DEF ToSet
  <2> QED
    BY <2>1, <2>2
<1>10. ASSUME NEW i \in DOMAIN w.members, NEW j \in DOMAIN r.members, w.members[i].id = r.members[j].id
       PROVE  /\ w.members[i].type.k = "opt" <=> r.members[j].type.k = "opt"
              /\ Agrees(Inner(w.members[i].type), Inner(r.members[j].type), v2)
              /\ <<w.members[i].type, r.members[j].type>> \in Readable[version]
  <2> DEFINE x == w.members[i]
             y == r.members[j]
             p == <<x, y>>
             t == x.type
             u == y.type
             P == {q \in ToSet(w.members) \X ToSet(r.members) : q[1].id = q[2].id}
  <2>1. p \in P /\ p[1].type = t /\ p[2].type = u
    BY <1>4, <1>5, <1>10
  <2>2. PartsReadAs(w, r) = {<<q[1].type, q[2].type>> : q \in P}
    BY DEF PartsReadAs
  <2> HIDE DEF p, P, t, u
  <2>3. <<t, u>> \in PartsReadAs(w, r)
    BY <2>1, <2>2
  <2>4. <<t, u>> \in Readable[version] /\ Agrees(t, u, v2)
    BY <2>3, PartAgrees
  <2>5. t.k = u.k
    BY <2>4, PairFacts DEF Alike
  <2>6. PartsAgree(t, u, version, v2)
    <3> DEFINE q == <<t, u>>
    <3>1. q[1] = t /\ q[2] = u
      OBVIOUS
    <3>2. PartsAgree(q[1], q[2], version, v2)
      BY <2>3
    <3> QED
      BY <3>1, <3>2
  <2>7. t.k = "opt" => Agrees(t.of, u.of, v2)
    <3>1. t.k = "opt" => <<t.of, u.of>> \in PartsReadAs(t, u)
      BY DEF PartsReadAs
    <3> QED
      BY <2>6, <3>1, PartAgrees
  <2>8. Agrees(Inner(t), Inner(u), v2)
    BY <2>4, <2>5, <2>7 DEF Inner
  <2> QED
    BY <2>4, <2>5, <2>8 DEF t, u
<1>11. MutableParts(w, r, v2)
  BY <1>7, <1>8, <1>9, <1>10 DEF MutableParts
<1>12. PartsSeen(w, r)
  <2> SUFFICES ASSUME NEW i \in DOMAIN w.members, NEW j \in DOMAIN r.members, w.members[i].id = r.members[j].id
               PROVE  /\ w.members[i].type.k = "opt" <=> r.members[j].type.k = "opt"
                      /\ w.members[i].type.k # "opt" =>
                           \A v \in ValuesOf[w.members[i].type] : View(w.members[i].type, r.members[j].type, v) # None
    BY DEF PartsSeen
  <2> DEFINE t == w.members[i].type
             u == r.members[j].type
             p == <<t, u>>
  <2>1. p \in Readable[version] /\ (t.k = "opt" <=> u.k = "opt")
    BY <1>10
  <2>2. p[1] = t /\ p[2] = u
    OBVIOUS
  <2> HIDE DEF p, t, u
  <2>3. p[1].k # "opt" => \A v \in ValuesOf[p[1]] : View(p[1], p[2], v) # None
    BY <2>1, NoneAssumption
  <2> QED
    BY <2>1, <2>2, <2>3 DEF t, u
<1> QED
  BY <1>2, <1>3, <1>7, <1>11, <1>12 DEF MutableReady

\* What is read as a part of the reader's is a part of the writer's.
LEMMA PartsAreParts ==
  ASSUME NEW w, NEW r, NEW q \in PartsReadAs(w, r)
  PROVE  q[1] \in Parts(w)
<1>1. CASE w.k \in {"opt", "list", "seq", "array"}
  BY <1>1 DEF PartsReadAs, Parts
<1>2. CASE w.k = "map"
  BY <1>2 DEF PartsReadAs, Parts
<1>3. CASE w.k = "struct"
  <2>1. PICK p \in {x \in ToSet(w.members) \X ToSet(r.members) : x[1].id = x[2].id} : q = <<p[1].type, p[2].type>>
    BY <1>3 DEF PartsReadAs
  <2>2. p[1] \in ToSet(w.members) /\ q[1] = p[1].type
    BY <2>1
  <2> QED
    BY <1>3, <2>2 DEF Parts
<1>4. CASE w.k = "union"
  <2>1. \/ q = <<w.disc, r.disc>>
        \/ \E label \in DOMAIN w.cases : q = <<w.cases[label], r.cases[label]>>
        \/ w.default # None /\ q = <<w.default, r.default>>
    BY <1>4 DEF PartsReadAs
  <2>2. CASE q = <<w.disc, r.disc>>
    BY <1>4, <2>2 DEF Parts
  <2>3. CASE \E label \in DOMAIN w.cases : q = <<w.cases[label], r.cases[label]>>
    <3>1. PICK label \in DOMAIN w.cases : q = <<w.cases[label], r.cases[label]>>
      BY <2>3
    <3> QED
      BY <1>4, <3>1 DEF Parts
  <2>4. CASE w.default # None /\ q = <<w.default, r.default>>
    BY <1>4, <2>4 DEF Parts
  <2> QED
    BY <2>1, <2>2, <2>3, <2>4
<1> QED
  BY <1>1, <1>2, <1>3, <1>4 DEF PartsReadAs

LEMMA StructAgrees ==
  ASSUME Recursion, ViewRecursion, NEW version \in Versions, NEW v2 \in BOOLEAN, v2 <=> version = 2,
         NEW w, NEW r, <<w, r>> \in Readable[version], w.k = "struct", w.ext # "mutable",
         PartsAgree(w, r, version, v2)
  PROVE  Agrees(w, r, v2)
<1>1. /\ w \in Descs /\ r \in Descs /\ Alike(w, r, version) /\ IsDescription(w)
      /\ \A x \in Parts(w) : x \in Descs
      /\ \A x \in Parts(r) : x \in Descs
  BY PairFacts
<1>2. r.k = "struct" /\ AlikeStructs(w, r, version)
  BY <1>1 DEF Alike
<1>3. /\ r.ext = w.ext
      /\ \A i \in DOMAIN w.members \cap DOMAIN r.members : w.members[i].id = r.members[i].id
      /\ w.ext = "final" \/ version = 1 => Len(w.members) = Len(r.members)
  BY <1>2 DEF AlikeStructs
<1>4. w.ext \in {"final", "appendable"}
  BY <1>1 DEF IsDescription
<1>5. ~(w.ext = "appendable" /\ v2) => Len(w.members) = Len(r.members)
  BY <1>3, <1>4 DEF Versions
<1>6. \A t \in Descs : Fits(t, v2) /\ Zeroed(t, v2)
  BY AllFit, AllZeroed
<1>7. \A i \in DOMAIN w.members : w.members[i] \in ToSet(w.members) /\ w.members[i].type \in Parts(w)
  BY DEF ToSet, Parts
<1>8. \A i \in DOMAIN r.members : r.members[i] \in ToSet(r.members) /\ r.members[i].type \in Parts(r)
  BY <1>2 DEF ToSet, Parts
<1>9. ASSUME NEW i \in DOMAIN w.members \cap DOMAIN r.members
      PROVE  w.members[i].id = r.members[i].id /\ Agrees(w.members[i].type, r.members[i].type, v2)
  <2> DEFINE x == w.members[i]
             y == r.members[i]
             p == <<x, y>>
  <2>1. x \in ToSet(w.members) /\ y \in ToSet(r.members) /\ x.id = y.id
    BY <1>3, <1>7, <1>8, <1>9
  <2>2. p[1] = x /\ p[2] = y
    OBVIOUS
  <2> HIDE DEF x, y
  <2>3. p \in {q \in ToSet(w.members) \X ToSet(r.members) : q[1].id = q[2].id}
    BY <2>1, <2>2
  <2>4. <<p[1].type, p[2].type>> \in PartsReadAs(w, r)
    BY <2>3 DEF PartsReadAs
  <2>5. <<x.type, y.type>> \in PartsReadAs(w, r)
    BY <2>2, <2>4
  <2>6. Agrees(x.type, y.type, v2)
    BY <2>5, PartAgrees
  <2> QED
    BY <2>1, <2>6 DEF x, y
<1>10. StructParts(w, r, v2)
  <2>1. \A i \in DOMAIN w.members : Fits(w.members[i].type, v2)
    BY <1>1, <1>6, <1>7
  <2>2. \A i \in DOMAIN r.members : Zeroed(r.members[i].type, v2)
    BY <1>1, <1>6, <1>8
  <2> QED
    BY <1>9, <2>1, <2>2 DEF StructParts
<1>11. Fits(w, v2) /\ w.ext = r.ext
  BY <1>1, <1>3, <1>6
<1> QED
  BY <1>1, <1>2, <1>5, <1>10, <1>11, AgreesStruct

LEMMA UnionAgrees ==
  ASSUME Recursion, ViewRecursion, NEW version \in Versions, NEW v2 \in BOOLEAN,
         NEW w, NEW r, <<w, r>> \in Readable[version], w.k = "union", PartsAgree(w, r, version, v2)
  PROVE  Agrees(w, r, v2)
<1>1. /\ w \in Descs /\ r \in Descs /\ Alike(w, r, version) /\ IsDescription(w)
      /\ \A x \in Parts(w) : x \in Descs
      /\ \A x \in Parts(r) : x \in Descs
  BY PairFacts
<1>2. /\ r.k = "union" /\ w.ext = r.ext /\ w.defaultDisc = r.defaultDisc
      /\ DOMAIN w.cases = DOMAIN r.cases /\ (w.default = None <=> r.default = None)
  BY <1>1 DEF Alike
<1>3. Fits(w, v2)
  BY <1>1, AllFit
<1>4. w.disc.k \in {"prim", "char", "enum"}
  BY <1>1 DEF IsDescription
<1>5. Agrees(w.disc, r.disc, v2)
  <2>1. <<w.disc, r.disc>> \in PartsReadAs(w, r)
    BY DEF PartsReadAs
  <2> QED
    BY <2>1, PartAgrees
<1>6. ASSUME NEW label \in DOMAIN w.cases
      PROVE  w.cases[label] \in Descs /\ r.cases[label] \in Descs /\ Agrees(w.cases[label], r.cases[label], v2)
  <2>1. <<w.cases[label], r.cases[label]>> \in PartsReadAs(w, r)
    BY DEF PartsReadAs
  <2>2. Agrees(w.cases[label], r.cases[label], v2)
    BY <2>1, PartAgrees
  <2>3. w.cases[label] \in Parts(w)
    BY DEF Parts
  <2>4. r.cases[label] \in Parts(r)
    BY <1>2 DEF Parts
  <2> QED
    BY <1>1, <2>2, <2>3, <2>4
<1>7. ASSUME w.default # None
      PROVE  w.default \in Descs /\ r.default \in Descs /\ Agrees(w.default, r.default, v2)
  <2>1. <<w.default, r.default>> \in PartsReadAs(w, r)
    BY <1>7 DEF PartsReadAs
  <2>2. Agrees(w.default, r.default, v2)
    BY <2>1, PartAgrees
  <2>3. w.default \in Parts(w)
    BY <1>7 DEF Parts
  <2>4. r.default \in Parts(r)
    BY <1>2, <1>7 DEF Parts
  <2> QED
    BY <1>1, <2>2, <2>3, <2>4
<1>8. UnionParts(w, r, v2)
  BY <1>2, <1>4, <1>5, <1>6, <1>7 DEF UnionParts
<1> QED
  BY <1>1, <1>2, <1>3, <1>8, AgreesUnion

\* A type agrees with what it is read as when its parts do.
LEMMA PairAgrees ==
  ASSUME Recursion, ViewRecursion, NEW version \in Versions, NEW v2 \in BOOLEAN, v2 <=> version = 2,
         NEW w, NEW r, <<w, r>> \in Readable[version], Understood(w, r), PartsAgree(w, r, version, v2),
         \A q \in PartsReadAs(w, r) : PartsAgree(q[1], q[2], version, v2)
  PROVE  Agrees(w, r, v2)
<1>1. /\ w \in Descs /\ r \in Descs /\ Alike(w, r, version) /\ IsDescription(w)
      /\ \A x \in Parts(w) : x \in Descs
  BY PairFacts
<1>2. r.k = w.k /\ (w.k = "array" => w.len = r.len)
  BY <1>1 DEF Alike
<1>3. Fits(w, v2)
  BY <1>1, AllFit
<1>4. CASE w.k \in {"prim", "char", "string", "bytes", "enum", "bitmask"}
  BY <1>1, <1>3, <1>4, AgreesSimple
<1>5. CASE w.k \in {"opt", "list", "seq", "array"}
  <2>1. <<w.of, r.of>> \in PartsReadAs(w, r)
    BY <1>5 DEF PartsReadAs
  <2>2. Agrees(w.of, r.of, v2)
    BY <2>1, PartAgrees
  <2>3. w.of \in Descs
    BY <1>1, <1>5 DEF Parts
  <2>4. CASE w.k = "opt"
    BY <1>1, <1>2, <1>3, <2>2, <2>4, AgreesOptional
  <2>5. CASE w.k = "list"
    BY <1>1, <1>2, <1>3, <2>2, <2>5, AgreesList
  <2>6. CASE w.k = "seq"
    BY <1>1, <1>2, <1>3, <2>2, <2>3, <2>6, AgreesSeq
  <2>7. CASE w.k = "array"
    BY <1>1, <1>2, <1>3, <2>2, <2>3, <2>7, AgreesArray
  <2> QED
    BY <1>5, <2>4, <2>5, <2>6, <2>7
<1>6. CASE w.k = "map"
  <2>1. <<w.key, r.key>> \in PartsReadAs(w, r) /\ <<w.val, r.val>> \in PartsReadAs(w, r)
    BY <1>6 DEF PartsReadAs
  <2>2. Agrees(w.key, r.key, v2)
    BY <2>1, PartAgrees
  <2>3. Agrees(w.val, r.val, v2)
    BY <2>1, PartAgrees
  <2> QED
    BY <1>1, <1>2, <1>3, <1>6, <2>2, <2>3, AgreesMap
<1>7. CASE w.k = "struct" /\ w.ext = "mutable"
  <2>1. r.k = "struct" /\ r.ext = "mutable" /\ MutableReady(w, r, v2)
    BY <1>7, MutableIsReady
  <2> QED
    BY <1>1, <1>3, <1>7, <2>1, AgreesMutable
<1>8. CASE w.k = "struct" /\ w.ext # "mutable"
  BY <1>8, StructAgrees
<1>9. CASE w.k = "union"
  BY <1>9, UnionAgrees
<1> QED
  BY <1>1, <1>4, <1>5, <1>6, <1>7, <1>8, <1>9 DEF IsDescription

\* The parts of a pair of types that meet, and theirs, agree if all that goes
\* less deep does.
Shallow(n, version, v2) ==
  \A p \in Readable[version] : Understood(p[1], p[2]) /\ Depth[p[1]] < n => Agrees(p[1], p[2], v2)
PairOfParts(p, version) ==
  \A q \in PartsReadAs(p[1], p[2]) :
    /\ q \in Readable[version] /\ Understood(q[1], q[2])
    /\ Depth[q[1]] \in Nat /\ Depth[q[1]] < Depth[p[1]]

LEMMA PartsOfPair ==
  ASSUME NEW version \in Versions, NEW p \in Readable[version]
  PROVE  p[1] \in Descs /\ Depth[p[1]] \in Nat /\ PairOfParts(p, version)
<1>1. p[1] \in Descs /\ \A q \in PartsReadAs(p[1], p[2]) : q \in Readable[version] /\ Understood(q[1], q[2])
  BY ReadableAssumption
<1>2. \A t \in Descs : Depth[t] \in Nat /\ \A x \in Parts(t) : x \in Descs /\ Depth[x] < Depth[t]
  BY TypesAssumption
<1>3. \A q \in PartsReadAs(p[1], p[2]) : q[1] \in Parts(p[1])
  BY PartsAreParts
<1> QED
  BY <1>1, <1>2, <1>3 DEF PairOfParts

LEMMA PartsShallow ==
  ASSUME NEW version \in Versions, NEW v2, NEW p \in Readable[version], Shallow(Depth[p[1]], version, v2)
  PROVE  /\ PartsAgree(p[1], p[2], version, v2)
         /\ \A q \in PartsReadAs(p[1], p[2]) : PartsAgree(q[1], q[2], version, v2)
<1>1. Depth[p[1]] \in Nat /\ PairOfParts(p, version)
  BY PartsOfPair
<1>2. \A q \in PartsReadAs(p[1], p[2]) :
        /\ q \in Readable[version] /\ Understood(q[1], q[2])
        /\ Depth[q[1]] \in Nat /\ Depth[q[1]] < Depth[p[1]]
  BY <1>1 DEF PairOfParts
<1>3. PartsAgree(p[1], p[2], version, v2)
  BY <1>2 DEF PartsAgree, Shallow
<1>4. ASSUME NEW q \in PartsReadAs(p[1], p[2]) PROVE PartsAgree(q[1], q[2], version, v2)
  <2>1. q \in Readable[version] /\ Depth[q[1]] \in Nat /\ Depth[q[1]] < Depth[p[1]]
    BY <1>2
  <2>2. PairOfParts(q, version)
    BY <2>1, PartsOfPair
  <2>3. ASSUME NEW x \in PartsReadAs(q[1], q[2])
        PROVE  x \in Readable[version] /\ Understood(x[1], x[2]) /\ Agrees(x[1], x[2], v2)
    <3>1. x \in Readable[version] /\ Understood(x[1], x[2]) /\ Depth[x[1]] \in Nat /\ Depth[x[1]] < Depth[q[1]]
      BY <2>2 DEF PairOfParts
    <3>2. Depth[x[1]] < Depth[p[1]]
      BY <1>1, <2>1, <3>1
    <3> QED
      BY <3>1, <3>2 DEF Shallow
  <2> QED
    BY <2>3 DEF PartsAgree
<1> QED
  BY <1>3, <1>4

\* Types that meet, and between which nothing is missed, agree.
LEMMA AllAgree ==
  ASSUME Recursion, ViewRecursion, NEW version \in Versions, NEW v2 \in BOOLEAN, v2 <=> version = 2
  PROVE  \A n \in Nat : Shallow(n, version, v2)
<1> DEFINE T == {n \in Nat : Shallow(n, version, v2)}
<1>1. ASSUME NEW p \in Readable[version], Understood(p[1], p[2]), Shallow(Depth[p[1]], version, v2)
      PROVE  Agrees(p[1], p[2], v2)
  <2>1. p[1] \in Descs /\ PartsAgree(p[1], p[2], version, v2)
    BY <1>1, PartsOfPair, PartsShallow
  <2>2. \A q \in PartsReadAs(p[1], p[2]) : PartsAgree(q[1], q[2], version, v2)
    BY <1>1, PartsShallow
  <2>3. p \in Descs \X Descs
    BY ReadableAssumption
  <2>4. <<p[1], p[2]>> = p
    BY <2>3
  <2>5. <<p[1], p[2]>> \in Readable[version]
    BY <2>4
  <2> QED
    BY <1>1, <2>1, <2>2, <2>5, PairAgrees
<1>2. \A p \in Readable[version] : Depth[p[1]] \in Nat
  BY PartsOfPair
<1>3. 0 \in T
  <2>1. \A p \in Readable[version] : ~(Depth[p[1]] < 0)
    BY <1>2
  <2> QED
    BY <2>1 DEF Shallow
<1>4. \A n \in T : n + 1 \in T
  <2> SUFFICES ASSUME NEW n \in Nat, Shallow(n, version, v2) PROVE Shallow(n + 1, version, v2)
    OBVIOUS
  <2> SUFFICES ASSUME NEW p \in Readable[version], Understood(p[1], p[2]), Depth[p[1]] < n + 1
               PROVE  Agrees(p[1], p[2], v2)
    BY DEF Shallow
  <2>1. \A q \in Readable[version] : Depth[q[1]] < Depth[p[1]] => Depth[q[1]] < n
    BY <1>2
  <2>2. Shallow(Depth[p[1]], version, v2)
    BY <2>1 DEF Shallow
  <2> QED
    BY <1>1, <2>2
<1> HIDE DEF T
<1>5. T = Nat
  BY <1>3, <1>4, SetInduction DEF T
<1> QED
  BY <1>5 DEF T

(***************************************************************************)
(* Messages, read.                                                         *)
(***************************************************************************)
LEMMA SameBeforeMore ==
  ASSUME NEW x, NEW y, NEW z, NEW p \in Nat, NEW q \in Nat, p <= q, SameBefore(x, y, p), SameBefore(y, z, q)
  PROVE  SameBefore(x, z, p)
<1> SUFFICES ASSUME NEW i \in Nat, i < p
             PROVE  /\ i \in DOMAIN z <=> i \in DOMAIN x
                    /\ i \in DOMAIN x => z[i] = x[i]
  BY DEF SameBefore
<1>1. i < q
  OBVIOUS
<1> QED
  BY <1>1 DEF SameBefore

\* A byte is read back whatever byte order the reader expects.
LEMMA ByteThere ==
  ASSUME NEW b, Sound(b), NEW v, NEW w, w = Write(b, 1, v), NEW cells, SameBefore(w.cells, cells, w.pos),
         NEW d, IsBufferRecord(d), d.pos = b.pos, d.cells = cells, d.size \in Nat, w.pos <= d.size
  PROVE  Read(d, 1) = Came(d, w.pos, v)
<1> DEFINE n == 1
           any == "any"
           cell == [width |-> n, unit |-> n, endian |-> any, v |-> v]
<1>0. IsBufferRecord(b) /\ b.pos \in Nat /\ b.size \in Nat \ {0} /\ n \in Nat /\ n = 1
  BY DEF Sound
<1> DEFINE put == WriteIn(b, n, n, any, v)
           holds == InRange(n, v)
           error == "struct.error"
<1>1. w = Check(put, holds, error)
  BY DEF Write
<1> HIDE DEF n, holds, error
<1>2. IsBufferRecord(put) /\ put.pos = b.pos + n /\ put.cells = PutCell(b.cells, b.pos, n, cell)
  BY <1>0, WriteInFacts
<1> HIDE DEF put
<1>3. w.pos = b.pos + n /\ w.cells = PutCell(b.cells, b.pos, n, cell)
  BY <1>1, <1>2, CheckFacts
<1>4. cell.width = n /\ cell.endian = "any" /\ cell.v = v
  OBVIOUS
<1> HIDE DEF cell, any
<1>5. b.pos \in DOMAIN w.cells /\ w.cells[b.pos] = cell
  <2>1. b.pos \in b.pos .. b.pos + n - 1
    BY <1>0
  <2> QED
    BY <1>3, <2>1 DEF PutCell
<1>6. b.pos < w.pos
  BY <1>0, <1>3
<1>7. d.pos \in DOMAIN d.cells /\ d.cells[d.pos] = cell
  BY <1>0, <1>5, <1>6 DEF SameBefore
<1>8. ~Short(d, n) /\ d.pos + n = w.pos
  BY <1>0, <1>3 DEF Short
<1>9. Unpacked(d, n) = v
  BY <1>4, <1>7, <1>8 DEF Unpacked
<1>10. Past(d, n) = [d EXCEPT !.pos = w.pos]
  BY <1>8 DEF Past
<1>11. Read(d, n) = Came(d, w.pos, v)
  BY <1>9, <1>10 DEF Read, Came, Seek
<1> QED
  BY <1>0, <1>11

\* The four bytes in front, and what a reader makes of them.
HeadRead(d, n) ==
  LET encoding == Read(Read(d, 1).b, 1)
  IN  encoding.v = n /\ Read(Read(encoding.b, 1).b, 1).b = Seek(d, 4)

LEMMA HeadBack ==
  ASSUME NEW b, Sound(b), b.pos = 0, NEW n, NEW h, h = PrependHeader(b, n), NEW a, Extends(h, a),
         NEW d, IsBufferRecord(d), d.pos = 0, d.cells = a.cells, d.size \in Nat, a.pos <= d.size
  PROVE  /\ h.pos = 4 /\ h.alignMax = b.alignMax /\ h.endian = b.endian
         /\ HeadRead(d, n)
<1> DEFINE z == 0
           b1 == Write(b, 1, z)
           b2 == Write(b1, 1, n)
           b3 == Write(b2, 1, z)
           b4 == Write(b3, 1, z)
<1>1. h = SetAlignOffset(b4, 4)
  BY DEF PrependHeader
<1> HIDE DEF z
<1> DEFINE v2 == FALSE
<1> HIDE DEF v2
<1>2. Wrote(v2, b, b1) /\ b1.pos = b.pos + 1 /\ b1 = Write(b, 1, z) /\ Sound(b) /\ Sound(b1)
  BY ByteEncoded DEF Encoded, Wrote
<1> HIDE DEF b1
<1>3. Wrote(v2, b1, b2) /\ b2.pos = b1.pos + 1 /\ b2 = Write(b1, 1, n) /\ Sound(b2)
  BY <1>2, ByteEncoded DEF Encoded, Wrote
<1> HIDE DEF b2
<1>4. Wrote(v2, b2, b3) /\ b3.pos = b2.pos + 1 /\ b3 = Write(b2, 1, z) /\ Sound(b3)
  BY <1>3, ByteEncoded DEF Encoded, Wrote
<1> HIDE DEF b3
<1>5. Wrote(v2, b3, b4) /\ b4.pos = b3.pos + 1 /\ b4 = Write(b3, 1, z) /\ Sound(b4)
  BY <1>4, ByteEncoded DEF Encoded, Wrote
<1> HIDE DEF b4
<1>6. b1.pos = 1 /\ b2.pos = 2 /\ b3.pos = 3 /\ b4.pos = 4
  BY <1>2, <1>3, <1>4, <1>5
<1>7. b4.alignMax = b.alignMax /\ b4.endian = b.endian
  BY <1>2, <1>3, <1>4, <1>5 DEF Wrote
<1>8. h.pos = b4.pos /\ h.alignMax = b4.alignMax /\ h.endian = b4.endian /\ h.cells = b4.cells
  BY <1>1, <1>5 DEF SetAlignOffset, Sound, IsBufferRecord
<1>9. h.pos <= a.pos /\ a.pos \in Nat /\ SameBefore(h.cells, a.cells, h.pos)
  BY DEF Extends, Wrote, Sound
<1>10. SameBefore(b4.cells, a.cells, b4.pos)
  BY <1>8, <1>9
<1>11. SameBefore(b3.cells, a.cells, b3.pos)
  <2>1. SameBefore(b3.cells, b4.cells, b3.pos) /\ b3.pos \in Nat /\ b4.pos \in Nat /\ b3.pos <= b4.pos
    BY <1>5, <1>6 DEF Wrote
  <2> QED
    BY <1>10, <2>1, SameBeforeMore
<1>12. SameBefore(b2.cells, a.cells, b2.pos)
  <2>1. SameBefore(b2.cells, b3.cells, b2.pos) /\ b2.pos \in Nat /\ b3.pos \in Nat /\ b2.pos <= b3.pos
    BY <1>4, <1>6 DEF Wrote
  <2> QED
    BY <1>11, <2>1, SameBeforeMore
<1>13. SameBefore(b1.cells, a.cells, b1.pos)
  <2>1. SameBefore(b1.cells, b2.cells, b1.pos) /\ b1.pos \in Nat /\ b2.pos \in Nat /\ b1.pos <= b2.pos
    BY <1>3, <1>6 DEF Wrote
  <2> QED
    BY <1>12, <2>1, SameBeforeMore
<1>14. b1.pos <= d.size /\ b2.pos <= d.size /\ b3.pos <= d.size /\ b4.pos <= d.size
  BY <1>6, <1>8, <1>9
<1>15. Read(d, 1) = Came(d, b1.pos, z)
  <2>1. d.pos = b.pos
    OBVIOUS
  <2> QED
    BY <1>2, <1>13, <1>14, <2>1, ByteThere
<1> DEFINE d1 == Seek(d, b1.pos)
           d2 == Seek(d, b2.pos)
           d3 == Seek(d, b3.pos)
<1>16. /\ IsBufferRecord(d1) /\ d1.pos = b1.pos /\ d1.cells = a.cells /\ d1.size = d.size
       /\ IsBufferRecord(d2) /\ d2.pos = b2.pos /\ d2.cells = a.cells /\ d2.size = d.size
       /\ IsBufferRecord(d3) /\ d3.pos = b3.pos /\ d3.cells = a.cells /\ d3.size = d.size
  BY SeekFacts
<1>17. /\ \A p : Seek(d1, p) = Seek(d, p)
       /\ \A p : Seek(d2, p) = Seek(d, p)
       /\ \A p : Seek(d3, p) = Seek(d, p)
  BY SeekFacts
<1>18. Read(d, 1).b = d1
  BY <1>15 DEF Came
<1> HIDE DEF d1
<1>19. Read(d1, 1) = Came(d1, b2.pos, n)
  BY <1>2, <1>3, <1>12, <1>14, <1>16, ByteThere
<1>20. Read(d1, 1).v = n /\ Read(d1, 1).b = d2
  BY <1>17, <1>19 DEF Came
<1> HIDE DEF d2
<1>21. Read(d2, 1) = Came(d2, b3.pos, z)
  <2>1. Sound(b2) /\ b3 = Write(b2, 1, z)
    BY <1>3, <1>4
  <2>2. IsBufferRecord(d2) /\ d2.pos = b2.pos /\ d2.cells = a.cells /\ d2.size \in Nat /\ b3.pos <= d2.size
    BY <1>14, <1>16
  <2> QED
    BY <1>11, <2>1, <2>2, ByteThere
<1>22. Read(d2, 1).b = d3
  BY <1>17, <1>21 DEF Came
<1> HIDE DEF d3
<1>23. Read(d3, 1) = Came(d3, b4.pos, z)
  BY <1>4, <1>5, <1>10, <1>14, <1>16, ByteThere
<1>24. Read(d3, 1).b = Seek(d, 4)
  BY <1>6, <1>17, <1>23 DEF Came
<1>25. HeadRead(d, n)
  BY <1>18, <1>20, <1>22, <1>24 DEF HeadRead
<1> QED
  BY <1>6, <1>7, <1>8, <1>25

\* The second byte tells version and byte order.
LEMMA HeadTells ==
  ASSUME NEW t \in Types, NEW version \in Versions, NEW endian \in {"Little", "Big"}, NEW n,
         n = Encoding(t, version, endian)
  PROVE  /\ (IF n > 3 THEN 2 ELSE 1) = version
         /\ (IF n % 2 = 1 THEN "Little" ELSE "Big") = endian
<1> DEFINE x == XcdrHead(t, version)
<1>1. /\ version = 1 => x \in {0, 2}
      /\ version = 2 => x \in {6, 8, 10}
  BY DEF XcdrHead
<1>2. n = x + (IF endian = "Little" THEN 1 ELSE 0)
  BY DEF Encoding
<1> HIDE DEF x
<1>3. /\ version = 1 => n \in {0, 1, 2, 3}
      /\ version = 2 => n \in {6, 7, 8, 9, 10, 11}
      /\ endian = "Little" => n \in {1, 3, 7, 9, 11}
      /\ endian = "Big" => n \in {0, 2, 6, 8, 10}
  BY <1>1, <1>2 DEF Versions
<1>4. n > 3 <=> version = 2
  BY <1>3 DEF Versions
<1>5. n % 2 = 1 <=> endian = "Little"
  <2>1. CASE endian = "Little"
    BY <1>3, <2>1
  <2>2. CASE endian = "Big"
    BY <1>3, <2>2
  <2> QED
    BY <2>1, <2>2
<1> QED
  BY <1>4, <1>5 DEF Versions

\* A message opened: the reader stands behind the header with the origin, the
\* alignment and the byte order the writer had there.
LEMMA Opened ==
  ASSUME NEW t \in Types, NEW version \in Versions, NEW endian \in {"Little", "Big"}, NEW b \in Buffers,
         NEW c, c = Prepare(b, version, endian), NEW h, h = PrependHeader(c, Encoding(t, version, endian)),
         NEW a, Extends(h, a), Room(a), NEW w, w.header, w.bytes = AsBytes(a)
  PROVE  /\ Fit(h, version = 2)
         /\ Open(w).version = version /\ Holds(Open(w).b, h, a)
<1> DEFINE n == Encoding(t, version, endian)
           v2 == version = 2
           max == IF version = 2 THEN 4 ELSE 8
<1>1. /\ Sound(c) /\ Room(c) /\ c.offset = 0 /\ (v2 => Regular(c))
      /\ c.pos = 0 /\ c.endian = endian /\ c.alignMax = max
  BY Prepared
<1>2. /\ (IF n > 3 THEN 2 ELSE 1) = version
      /\ (IF n % 2 = 1 THEN "Little" ELSE "Big") = endian
  BY HeadTells
<1>3. h = PrependHeader(c, n)
  OBVIOUS
<1>4. v2 => max = 4
  OBVIOUS
<1> HIDE DEF n, v2, max
<1>5. Sound(h) /\ Room(h) /\ h.offset = 4 /\ (v2 => Regular(h))
  BY <1>1, <1>3, HeaderPrepended
<1> DEFINE d == BufferOf(w.bytes, 4)
<1>6. h.pos <= a.pos /\ a.pos \in Nat /\ a.size \in Nat
  BY DEF Extends, Wrote, Sound
<1>7. w.bytes.length = a.pos /\ w.bytes.cells = a.cells
  BY <1>6 DEF AsBytes, AtMost, Room
<1> DEFINE size == IF a.pos = 0 THEN InitialSize ELSE a.pos
           new == NewBuffer
<1>8. IsBufferRecord(new) /\ new.pos = 0 /\ new.error = "none"
  BY DEF NewBuffer, IsBufferRecord
<1>9. /\ IsBufferRecord(d) /\ d.pos = 0 /\ d.offset = 4 /\ d.error = "none" /\ d.cells = a.cells
      /\ d.size = size
  <2>1. d = [new EXCEPT !.size = size, !.cells = a.cells, !.offset = 4]
    BY <1>7 DEF BufferOf
  <2> HIDE DEF new, d, size
  <2> QED
    BY <1>8, <2>1 DEF IsBufferRecord
<1>10. d.size \in Nat /\ a.pos <= d.size
  BY <1>6, <1>9, InitialSizeAssumption
<1> HIDE DEF d
<1>11. /\ h.pos = 4 /\ h.alignMax = c.alignMax /\ h.endian = c.endian
       /\ HeadRead(d, n)
  BY <1>1, <1>3, <1>9, <1>10, HeadBack
<1> DEFINE behind == Seek(d, 4)
<1>12. Open(w) = [version |-> version, b |-> [SetEndianness(behind, endian) EXCEPT !.alignMax = max]]
  BY <1>2, <1>11 DEF Open, HeadRead, d, max
<1>13. /\ IsBufferRecord(behind) /\ behind.pos = 4 /\ behind.size = d.size /\ behind.offset = 4
       /\ behind.error = "none" /\ behind.cells = a.cells
  BY <1>9, SeekFacts
<1> HIDE DEF behind
<1> DEFINE x == [SetEndianness(behind, endian) EXCEPT !.alignMax = max]
<1>14. /\ IsBufferRecord(x) /\ x.pos = 4 /\ x.size = d.size /\ x.offset = 4
       /\ x.error = "none" /\ x.cells = a.cells /\ x.endian = endian /\ x.alignMax = max
  <2> DEFINE y == SetEndianness(behind, endian)
  <2>1. /\ IsBufferRecord(y) /\ y.pos = 4 /\ y.size = d.size /\ y.offset = 4
        /\ y.error = "none" /\ y.cells = a.cells /\ y.endian = endian
    BY <1>13 DEF SetEndianness, IsBufferRecord
  <2>2. x = [y EXCEPT !.alignMax = max]
    OBVIOUS
  <2> HIDE DEF y, x
  <2> QED
    BY <2>1, <2>2 DEF IsBufferRecord
<1>15. Open(w).version = version /\ Open(w).b = x
  BY <1>12
<1> HIDE DEF x
<1>16. Holds(x, h, a)
  BY <1>1, <1>5, <1>10, <1>11, <1>14 DEF Holds, SameWithin
<1>17. Fit(h, v2)
  BY <1>1, <1>4, <1>5, <1>11 DEF Fit
<1> QED
  BY <1>15, <1>16, <1>17 DEF v2

\* What DeserializeSample should make of a message that was written from v.
ReadRight(w, r, v, bytes, x) ==
  IF Misses(w, r, v) THEN x.b.error = "MustUnderstand"
  ELSE x.b.error = "none" /\ x.v = View(w, r, v) /\ x.b.pos = bytes.length

LEMMA TypesRead ==
  ASSUME Recursion, ViewRecursion, NEW version \in Versions, NEW v2 \in BOOLEAN, v2 <=> version = 2,
         NEW w, NEW r, <<w, r>> \in Readable[version], w.k = "struct", NEW mw, mw = MachineFor(w, None, v2, v2),
         NEW mr, mr = MachineFor(r, None, v2, v2), NEW b, Fit(b, v2), NEW v \in ValuesOf[w],
         NEW a, a = Serialize(mw, b, v, "DataSample", "InKeylist"), NEW d, Holds(d, b, a),
         NEW x, x = Deserialize(mr, d, "DataSample", "InKeylist")
  PROVE  IF Misses(w, r, v) THEN x.b.error = "MustUnderstand" ELSE x = Came(d, a.pos, View(w, r, v))
<1> DEFINE p == <<w, r>>
<1>2. p \in Readable[version] /\ p[1] = w /\ p[2] = r
  OBVIOUS
<1> HIDE DEF p
<1>3. w \in Descs /\ Depth[w] \in Nat
  BY <1>2, PartsOfPair
<1>4. r \in Descs
  BY PairFacts
<1>5. Shallow(Depth[w], version, v2) /\ Shallow(Depth[w] + 1, version, v2)
  <2>1. \A n \in Nat : Shallow(n, version, v2)
    BY AllAgree
  <2> QED
    BY <1>3, <2>1
<1>6. CASE w.ext = "mutable"
  <2>1. PartsAgree(w, r, version, v2) /\ \A q \in PartsReadAs(w, r) : PartsAgree(q[1], q[2], version, v2)
    BY <1>2, <1>5, PartsShallow
  <2>2. r.k = "struct" /\ r.ext = "mutable" /\ MutableReady(w, r, v2)
    BY <1>6, <2>1, MutableIsReady
  <2> DEFINE none == None
             key == "InKeylist"
  <2>3. mw = BuiltMachine(w, none, v2, v2) /\ mr = BuiltMachine(r, none, v2, v2)
    BY DEF Recursion
  <2>4. a = Serialized(mw, b, v, "DataSample", key) /\ x = Deserialized(mr, d, "DataSample", key)
    BY DEF Recursion
  <2> HIDE DEF none, key
  <2>5. MutableBackAt(mw, mr, w, r, b, v, key, d, key)
    BY <1>3, <1>4, <1>6, <2>2, <2>3, MutableBack
  <2> QED
    BY <2>4, <2>5 DEF MutableBackAt
<1>7. CASE w.ext # "mutable"
  <2>1. ~Misses(w, r, v) /\ Understood(w, r)
    BY <1>7 DEF Misses, Understood
  <2>2. Depth[w] < Depth[w] + 1
    BY <1>3
  <2>3. Agrees(w, r, v2)
    BY <1>2, <1>5, <2>1, <2>2 DEF Shallow
  <2>4. ReadsBack(mw, mr, w, r, v2)
    BY <2>3 DEF Agrees, Agree
  <2>5. x = Came(d, a.pos, View(w, r, v))
    BY <2>4, WritesBack
  <2> QED
    BY <2>1, <2>5
<1> QED
  BY <1>6, <1>7

\* A message that SerializeSample made.
MadeOf(m, t, version, e, b, v) ==
  /\ t \in Types /\ version \in Versions /\ e \in Endians /\ b \in Buffers /\ v \in Samples[t]
  /\ m = Message(t, version, "DataSample", TRUE, v, SerializeInto(b, t, version, e, "DataSample", TRUE, v))
Made(m) == \E t, version, e, b, v : MadeOf(m, t, version, e, b, v)

LEMMA MadeRead ==
  ASSUME Recursion, ViewRecursion, NEW m, NEW t, NEW version, NEW e, NEW b, NEW v, MadeOf(m, t, version, e, b, v),
         NEW r \in Types, Assignable(t, r, version)
  PROVE  /\ m.type = t /\ m.version = version /\ m.value = v
         /\ ReadRight(Desc[t], Desc[r], v, m.bytes, DeserializeAs(r, m, "DataSample"))
<1> DEFINE v2 == version = 2
           header == TRUE
           c == Prepare(b, version, e)
           h == PrependHeader(c, Encoding(t, version, e))
           mw == MachineOf(t, version)
           mr == MachineOf(r, version)
           w == Desc[t]
           seenAs == Desc[r]
           a == Serialize(mw, h, v, "DataSample", "InKeylist")
           d == Open(m).b
           x == Deserialize(mr, d, "DataSample", "InKeylist")
<1>1. t \in Types /\ version \in Versions /\ e \in {"Little", "Big"} /\ b \in Buffers /\ v \in Samples[t]
  BY EndiansAssumption DEF MadeOf
<1>2. SerializeInto(b, t, version, e, "DataSample", header, v) = a
  BY DEF SerializeInto
<1>3. m = Message(t, version, "DataSample", header, v, a)
  BY <1>2 DEF MadeOf
<1>4. m.type = t /\ m.version = version /\ m.value = v /\ m.header /\ m.bytes = AsBytes(a)
  BY <1>3 DEF Message
<1>5. w \in Descs /\ w.k = "struct" /\ v \in ValuesOf[w]
  BY <1>1, TypesAssumption
<1>6. <<w, seenAs>> \in Readable[version]
  BY <1>1, ReadableAssumption
<1>7. v2 \in BOOLEAN /\ (v2 <=> version = 2)
  OBVIOUS
<1>8. mw = MachineFor(w, None, v2, v2) /\ mr = MachineFor(seenAs, None, v2, v2)
  BY DEF MachineOf
<1>9. Sound(h)
  <2>1. Sound(c) /\ Room(c) /\ c.offset = 0 /\ (v2 => Regular(c))
    BY <1>1, Prepared
  <2> HIDE DEF c, v2
  <2> QED
    BY <2>1, HeaderPrepended
<1>10. Room(h)
  <2>1. Sound(c) /\ Room(c) /\ c.offset = 0 /\ (v2 => Regular(c))
    BY <1>1, Prepared
  <2> HIDE DEF c, v2
  <2> QED
    BY <2>1, HeaderPrepended
<1>11. c = Prepare(b, version, e) /\ h = PrependHeader(c, Encoding(t, version, e))
       /\ a = Serialize(mw, h, v, "DataSample", "InKeylist") /\ x = Deserialize(mr, d, "DataSample", "InKeylist")
  OBVIOUS
<1> HIDE DEF c, h, mw, w, seenAs, a, v2, header
<1>12. Fits(w, v2)
  BY <1>5, <1>7, AllFit
<1>13. Encodes(mw, ValuesOf[w], v2)
  BY <1>8, <1>12 DEF Fits
<1>14. Encoded(v2, h, a)
  BY <1>5, <1>9, <1>11, <1>13 DEF Encodes
<1>15. Extends(h, a) /\ Room(a) /\ a.pos \in Nat
  BY <1>10, <1>14, EncodedExtends DEF Encoded, Wrote, Sound
<1>16. Fit(h, version = 2) /\ Open(m).version = version /\ Holds(d, h, a)
  BY <1>1, <1>4, <1>11, <1>15, Opened
<1>17. DeserializeAs(r, m, "DataSample") = x
  BY <1>16 DEF DeserializeAs, mr
<1> HIDE DEF d, mr, x
<1>18. Fit(h, v2)
  BY <1>16 DEF v2
<1>19. IF Misses(w, seenAs, v) THEN x.b.error = "MustUnderstand" ELSE x = Came(d, a.pos, View(w, seenAs, v))
  BY <1>1, <1>5, <1>6, <1>7, <1>8, <1>11, <1>16, <1>18, TypesRead
<1>20. m.bytes.length = a.pos
  BY <1>4, <1>15 DEF AsBytes, AtMost, Room
<1>21. d.error = "none" /\ IsBufferRecord(d)
  BY <1>16 DEF Holds
<1>22. Seek(d, a.pos).error = "none" /\ Seek(d, a.pos).pos = a.pos
  BY <1>21, SeekFacts
<1>23. ReadRight(w, seenAs, v, m.bytes, x)
  BY <1>19, <1>20, <1>22 DEF ReadRight, Came
<1> QED
  BY <1>4, <1>17, <1>23 DEF w, seenAs

\* SampleReadBack with what it takes to be inductive: where a sample came from.
ReadingOK ==
  /\ wire = None => seen = None
  /\ wire # None /\ wire.kind = "DataSample" => Made(wire)
  /\ SampleReadBack

LEMMA ReadingStep ==
  ASSUME Recursion, ViewRecursion, ReadingOK, [Next]_vars
  PROVE  ReadingOK'
<1>1. CASE UNCHANGED vars
  BY <1>1 DEF vars, ReadingOK, Made, MadeOf, SampleReadBack
<1>2. ASSUME NEW t \in Types, NEW version \in Versions, NEW e \in Endians, NEW b \in Buffers,
             NEW v \in Samples[t], SerializeSample(t, v, version, e, b)
      PROVE  ReadingOK'
  <2>1. seen' = None
    BY <1>2 DEF SerializeSample, ReadingOK
  <2>2. MadeOf(wire', t, version, e, b, v)
    BY <1>2 DEF SerializeSample, MadeOf
  <2>3. Made(wire')
    BY <2>2 DEF Made
  <2>4. Made(wire)'
    BY <2>3 DEF Made, MadeOf
  <2> QED
    BY <2>1, <2>4 DEF ReadingOK, SampleReadBack
<1>3. ASSUME NEW t \in Types, NEW version \in Versions, NEW kind \in KeyKinds, NEW header \in BOOLEAN,
             NEW e \in Endians, NEW b \in Buffers, NEW v \in Samples[t],
             SerializeKey(t, v, version, kind, header, e, b)
      PROVE  ReadingOK'
  <2>1. seen' = None
    BY <1>3 DEF SerializeKey, ReadingOK
  <2>2. wire'.kind = kind /\ kind # "DataSample"
    BY <1>3 DEF SerializeKey, Message, KeyKinds
  <2> QED
    BY <2>1, <2>2 DEF ReadingOK, SampleReadBack
<1>4. ASSUME NEW r \in Types, DeserializeSample(r)
      PROVE  ReadingOK'
  <2>1. /\ wire # None /\ wire.kind = "DataSample" /\ Assignable(wire.type, r, wire.version)
        /\ seen' = Reading(r, DeserializeAs(r, wire, "DataSample")) /\ UNCHANGED wire
    BY <1>4 DEF DeserializeSample
  <2>2. PICK t, version, e, b, v : MadeOf(wire, t, version, e, b, v)
    BY <2>1 DEF ReadingOK, Made
  <2>3. wire.type = t /\ wire.version = version /\ wire.value = v
    BY <2>2 DEF MadeOf, Message
  <2>4. Assignable(t, r, version)
    BY <2>1, <2>3
  <2>5. ReadRight(Desc[t], Desc[r], v, wire.bytes, DeserializeAs(r, wire, "DataSample"))
    BY <2>2, <2>4, MadeRead
  <2> DEFINE x == DeserializeAs(r, wire, "DataSample")
  <2>6. seen'.type = r /\ seen'.value = x.v /\ seen'.error = x.b.error /\ seen'.end = x.b.pos
    BY <2>1 DEF Reading
  <2> HIDE DEF x
  <2>7. ReadRight(Desc[t], Desc[r], v, wire.bytes, x)
    BY <2>5 DEF x
  <2>8. SampleReadBack'
    BY <2>1, <2>3, <2>6, <2>7 DEF SampleReadBack, ReadRight
  <2>9. Made(wire)'
    BY <2>1 DEF ReadingOK, Made, MadeOf
  <2> QED
    BY <2>1, <2>8, <2>9 DEF ReadingOK
<1>5. ASSUME NEW r \in Types, DeserializeKey(r)
      PROVE  ReadingOK'
  <2>1. wire # None /\ wire.kind = "KeyDefinitionOrder" /\ UNCHANGED wire
    BY <1>5 DEF DeserializeKey
  <2> QED
    BY <2>1 DEF ReadingOK, SampleReadBack
<1> QED
  BY <1>1, <1>2, <1>3, <1>4, <1>5 DEF Next

\* A sample that one version of a type wrote and another reads: the members both
\* know have the values that were written, the reader's others their defaults,
\* and the reader ends where the message does; only a member that must be
\* understood and is unknown stops it (IDL.serialize, IDL.deserialize and the
\* machines between them).
THEOREM SamplesReadBack ==
  ASSUME Recursion, ViewRecursion
  PROVE  Spec => []SampleReadBack
<1>1. Init => ReadingOK
  BY DEF Init, ReadingOK, SampleReadBack
<1>2. ReadingOK /\ [Next]_vars => ReadingOK'
  BY ReadingStep
<1>3. ReadingOK => SampleReadBack
  BY DEF ReadingOK
<1> QED
  BY <1>1, <1>2, <1>3, PTL DEF Spec

(***************************************************************************)
(* Keys of two versions of a type.  Two buffers are twins when all that is *)
(* sent of them is the same: one may have more room than the other.        *)
(***************************************************************************)
Plain(b) ==
  /\ IsBufferRecord(b)
  /\ b.pos \in Nat /\ b.size \in Nat \ {0} /\ b.offset \in Int /\ b.alignMax \in {4, 8}

Near(b, c) ==
  /\ Plain(b) /\ Plain(c)
  /\ b.pos = c.pos /\ b.offset = c.offset /\ b.alignMax = c.alignMax
  /\ b.endian = c.endian /\ b.cells = c.cells /\ b.error = c.error

Twin(b, c) == Near(b, c) /\ Room(b) /\ Room(c)

LEMMA TwinAligned ==
  ASSUME NEW b, NEW c, Twin(b, c), NEW a \in Widths
  PROVE  Near(Align(b, a), Align(c, a))
<1> DEFINE w == AtMost(a, b.alignMax)
           x == b.pos - b.offset
           y == ((x + w - 1) \div w) * w
<1>1. w \in Widths /\ x \in Int
  BY DEF Twin, Near, Plain, Widths, AtMost
<1>2. Align(b, a) = [b EXCEPT !.pos = y + b.offset] /\ Align(c, a) = [c EXCEPT !.pos = y + b.offset]
  BY DEF Align, Aligned, Twin, Near
<1> HIDE DEF w, x
<1>3. y \in Int /\ x <= y
  BY <1>1, NextMultiple
<1> HIDE DEF y
<1>4. y + b.offset \in Nat
  BY <1>3 DEF x, Twin, Near, Plain
<1> DEFINE p == y + b.offset
<1> HIDE DEF p
<1>5. p \in Nat /\ Align(b, a) = [b EXCEPT !.pos = p] /\ Align(c, a) = [c EXCEPT !.pos = p]
  BY <1>2, <1>4 DEF p
<1> QED
  BY <1>5 DEF Twin, Near, Plain, IsBufferRecord

LEMMA NearWrittenIn ==
  ASSUME NEW b, NEW c, Near(b, c), NEW n \in Nat, NEW unit, NEW endian, NEW v
  PROVE  /\ Twin(WriteIn(b, n, unit, endian, v), WriteIn(c, n, unit, endian, v))
         /\ WriteIn(b, n, unit, endian, v).pos = b.pos + n
<1> DEFINE d == WriteIn(b, n, unit, endian, v)
           f == WriteIn(c, n, unit, endian, v)
           cell == [width |-> n, unit |-> unit, endian |-> endian, v |-> v]
<1>1. /\ IsBufferRecord(d) /\ d.pos = b.pos + n /\ d.size \in Nat \ {0} /\ Room(d)
      /\ d.offset = b.offset /\ d.alignMax = b.alignMax /\ d.endian = b.endian /\ d.error = b.error
      /\ d.cells = IF n = 0 THEN b.cells ELSE PutCell(b.cells, b.pos, n, cell)
  BY WriteInFacts DEF Near, Plain
<1>2. /\ IsBufferRecord(f) /\ f.pos = c.pos + n /\ f.size \in Nat \ {0} /\ Room(f)
      /\ f.offset = c.offset /\ f.alignMax = c.alignMax /\ f.endian = c.endian /\ f.error = c.error
      /\ f.cells = IF n = 0 THEN c.cells ELSE PutCell(c.cells, c.pos, n, cell)
  BY WriteInFacts DEF Near, Plain
<1> HIDE DEF d, f, cell
<1>3. Twin(d, f)
  BY <1>1, <1>2 DEF Twin, Near, Plain
<1> QED
  BY <1>1, <1>3 DEF d, f

LEMMA TwinChecked ==
  ASSUME NEW b, NEW c, Twin(b, c), NEW holds, NEW error
  PROVE  Twin(Check(b, holds, error), Check(c, holds, error))
<1>1. Twin(Fail(b, error), Fail(c, error))
  <2>1. b.error = c.error
    BY DEF Twin, Near
  <2>2. CASE b.error = "none"
    <3>1. Fail(b, error) = [b EXCEPT !.error = error] /\ Fail(c, error) = [c EXCEPT !.error = error]
      BY <2>1, <2>2 DEF Fail
    <3> QED
      BY <3>1 DEF Twin, Near, Plain, IsBufferRecord, Room
  <2>3. CASE b.error # "none"
    BY <2>1, <2>3 DEF Fail
  <2> QED
    BY <2>2, <2>3
<1> QED
  BY <1>1 DEF Check

LEMMA NearWritten ==
  ASSUME NEW b, NEW c, Near(b, c), NEW n \in Nat, NEW v
  PROVE  /\ Twin(Write(b, n, v), Write(c, n, v)) /\ Write(b, n, v).pos = b.pos + n
         /\ \A unit : Twin(WriteMulti(b, n, unit, v), WriteMulti(c, n, unit, v))
         /\ Twin(WriteBytes(b, n, v), WriteBytes(c, n, v))
<1>1. b.endian = c.endian
  BY DEF Near
<1>2. \A unit, endian : /\ Twin(WriteIn(b, n, unit, endian, v), WriteIn(c, n, unit, endian, v))
                        /\ WriteIn(b, n, unit, endian, v).pos = b.pos + n
  BY NearWrittenIn
<1> DEFINE error == "struct.error"
<1>3. ASSUME NEW unit, NEW endian, NEW holds
      PROVE  /\ Twin(Check(WriteIn(b, n, unit, endian, v), holds, error),
                      Check(WriteIn(c, n, unit, endian, v), holds, error))
             /\ Check(WriteIn(b, n, unit, endian, v), holds, error).pos = b.pos + n
  <2> DEFINE x == WriteIn(b, n, unit, endian, v)
             y == WriteIn(c, n, unit, endian, v)
  <2>1. Twin(x, y) /\ x.pos = b.pos + n
    BY <1>2
  <2> HIDE DEF x, y, error
  <2>2. Twin(Check(x, holds, error), Check(y, holds, error))
    BY <2>1, TwinChecked
  <2>3. Check(x, holds, error).pos = x.pos
    BY <2>1, CheckFacts DEF Twin, Near, Plain
  <2> QED
    BY <2>1, <2>2, <2>3 DEF x, y
<1>4. Twin(Write(b, n, v), Write(c, n, v)) /\ Write(b, n, v).pos = b.pos + n
  BY <1>1, <1>3 DEF Write
<1>5. \A unit : Twin(WriteMulti(b, n, unit, v), WriteMulti(c, n, unit, v))
  BY <1>1, <1>3 DEF WriteMulti
<1>6. Twin(WriteBytes(b, n, v), WriteBytes(c, n, v))
  BY <1>2 DEF WriteBytes
<1> QED
  BY <1>4, <1>5, <1>6

LEMMA TwinWritten ==
  ASSUME NEW b, NEW c, Twin(b, c), NEW n \in Nat, NEW v
  PROVE  /\ Twin(Write(b, n, v), Write(c, n, v)) /\ Write(b, n, v).pos = b.pos + n
         /\ \A unit : Twin(WriteMulti(b, n, unit, v), WriteMulti(c, n, unit, v))
         /\ Twin(WriteBytes(b, n, v), WriteBytes(c, n, v))
<1>1. Near(b, c)
  BY DEF Twin
<1> QED
  BY <1>1, NearWritten

LEMMA TwinNumber ==
  ASSUME NEW b, NEW c, Twin(b, c), NEW n \in Widths, NEW v
  PROVE  Twin(Write(Align(b, n), n, v), Write(Align(c, n), n, v))
<1>1. Near(Align(b, n), Align(c, n)) /\ n \in Nat
  BY TwinAligned DEF Widths
<1> QED
  BY <1>1, NearWritten

LEMMA TwinPatched ==
  ASSUME NEW b, NEW c, Twin(b, c), NEW q \in Nat, NEW v
  PROVE  Twin(Patch(b, q, v), Patch(c, q, v))
<1> DEFINE s == Seek(b, q)
           t == Seek(c, q)
           d == Write(s, 4, v)
           f == Write(t, 4, v)
<1>1. Near(s, t)
  BY SeekFacts DEF Twin, Near, Plain
<1> HIDE DEF s, t
<1>2. Twin(d, f) /\ b.size <= d.size /\ c.size <= f.size
  <2>1. Twin(d, f)
    BY <1>1, NearWritten
  <2>2. s.size = b.size /\ t.size = c.size
    BY SeekFacts DEF Twin, Near, Plain, s, t
  <2>3. ASSUME NEW x, IsBufferRecord(x), x.pos \in Nat, x.size \in Nat \ {0}
        PROVE  x.size <= Write(x, 4, v).size
    <3> DEFINE n == 4
               endian == IF n = 1 THEN "any" ELSE x.endian
               w == WriteIn(x, n, n, endian, v)
               holds == InRange(n, v)
               error == "struct.error"
    <3>1. Write(x, n, v) = Check(w, holds, error) /\ n \in Nat
      BY DEF Write
    <3> HIDE DEF n, endian, holds, error
    <3>2. IsBufferRecord(w) /\ x.size <= w.size
      BY <2>3, <3>1, WriteInFacts
    <3> HIDE DEF w
    <3>3. x.size <= Write(x, n, v).size
      BY <3>1, <3>2, CheckFacts
    <3> QED
      BY <3>3 DEF n
  <2>4. s.size <= d.size /\ t.size <= f.size
    BY <1>1, <2>3 DEF Near, Plain
  <2> QED
    BY <2>1, <2>2, <2>4
<1>3. Patch(b, q, v) = Seek(d, b.pos) /\ Patch(c, q, v) = Seek(f, b.pos) /\ b.pos \in Nat
  BY DEF Patch, s, t, Twin, Near, Plain
<1> HIDE DEF d, f
<1>4. Twin(Seek(d, b.pos), Seek(f, b.pos))
  BY <1>2, <1>3, SeekFacts DEF Twin, Near, Plain, Room
<1> QED
  BY <1>3, <1>4

\* A place for a size, and the size.
LEMMA TwinFramed ==
  ASSUME NEW b, NEW c, Twin(b, c), NEW start, start = Write(Align(b, 4), 4, 0),
         NEW other, other = Write(Align(c, 4), 4, 0)
  PROVE  /\ Twin(start, other)
         /\ \A d, f : Twin(d, f) => Twin(Patch(d, start.pos - 4, d.pos - start.pos),
                                         Patch(f, other.pos - 4, f.pos - other.pos))
<1> DEFINE a == Align(b, 4)
           e == Align(c, 4)
<1>1. Near(a, e)
  BY TwinAligned DEF Widths
<1> HIDE DEF a, e
<1>2. start = Write(a, 4, 0) /\ other = Write(e, 4, 0)
  BY DEF a, e
<1>3. Twin(start, other) /\ start.pos = a.pos + 4
  BY <1>1, <1>2, NearWritten
<1>4. start.pos - 4 \in Nat /\ other.pos = start.pos
  BY <1>1, <1>3 DEF Twin, Near, Plain
<1>5. ASSUME NEW d, NEW f, Twin(d, f)
      PROVE  Twin(Patch(d, start.pos - 4, d.pos - start.pos), Patch(f, other.pos - 4, f.pos - other.pos))
  <2>1. d.pos = f.pos
    BY <1>5 DEF Twin, Near
  <2> QED
    BY <1>4, <1>5, <2>1, TwinPatched
<1> QED
  BY <1>3, <1>5

\* Two machines that write the same for a value and for what it is seen as.
Doubles(mw, mr, w, r, e) ==
  \A b, c, v : Twin(b, c) /\ v \in ValuesOf[w] =>
    Twin(Serialize(mw, b, v, "KeyNormalized", e), Serialize(mr, c, View(w, r, v), "KeyNormalized", e))

LEMMA TwinEach ==
  ASSUME NEW mw, NEW mr, NEW w, NEW r, NEW e, Doubles(mw, mr, w, r, e), NEW s \in Seq(ValuesOf[w]),
         NEW b, NEW c, Twin(b, c)
  PROVE  Twin(Each(mw, b, s, "KeyNormalized", e), Each(mr, c, Seen(w, r, s), "KeyNormalized", e))
<1> DEFINE K == "KeyNormalized"
           u == Seen(w, r, s)
           N == Len(s)
<1>1. N \in Nat /\ Len(u) = N /\ \A i \in 1 .. N : u[i] = View(w, r, s[i]) /\ s[i] \in ValuesOf[w]
  BY DEF Seen
<1> HIDE DEF u
<1>2. PICK x : EachRuns(x, mw, b, s, K, e)
  BY <1>1, EachSteps
<1>3. PICK y : EachRuns(y, mr, c, u, K, e)
  BY <1>1, EachSteps
<1> HIDE DEF N
<1> DEFINE T == {i \in 0 .. N : Twin(x[i], y[i])}
<1>4. 0 \in T
  BY <1>1, <1>2, <1>3 DEF EachRuns
<1>5. ASSUME NEW i \in 0 .. N - 1, i \in T PROVE i + 1 \in T
  <2>1. i + 1 \in 1 .. N /\ (i + 1) - 1 = i
    BY <1>1
  <2>2. x[i + 1] = Serialize(mw, x[i], s[i + 1], K, e) /\ y[i + 1] = Serialize(mr, y[i], View(w, r, s[i + 1]), K, e)
    BY <1>1, <1>2, <1>3, <2>1 DEF EachRuns, N
  <2> QED
    BY <1>1, <1>5, <2>1, <2>2 DEF Doubles
<1> HIDE DEF T
<1>6. N \in T
  <2>1. N \in Nat
    BY <1>1
  <2>2. 0 .. N \subseteq T
    BY <1>4, <1>5, <2>1, IntervalInduction
  <2> QED
    BY <2>1, <2>2
<1> QED
  BY <1>1, <1>2, <1>3, <1>6 DEF EachRuns, T, N, u

LEMMA TwinArrays ==
  ASSUME NEW mw, NEW mr, NEW w, NEW r, NEW e, Doubles(mw.of, mr.of, w, r, e),
         mw.header = mr.header, mw.len = mr.len, NEW v \in Seq(ValuesOf[w]), NEW b, NEW c, Twin(b, c)
  PROVE  Twin(SerializeArray(mw, b, v, "KeyNormalized", e),
              SerializeArray(mr, c, Seen(w, r, v), "KeyNormalized", e))
<1> DEFINE K == "KeyNormalized"
           u == Seen(w, r, v)
           x == Check(b, Len(v) = mw.len, "assert")
           y == Check(c, Len(v) = mw.len, "assert")
           start == Write(Align(x, 4), 4, 0)
           other == Write(Align(y, 4), 4, 0)
<1>1. Twin(x, y)
  BY TwinChecked
<1>2. Len(u) = Len(v)
  BY DEF Seen
<1> HIDE DEF x, y, u
<1>3. CASE mw.header
  <2> DEFINE d == Each(mw.of, start, v, K, e)
             f == Each(mr.of, other, u, K, e)
  <2>1. /\ SerializeArray(mw, b, v, K, e) = Patch(d, start.pos - 4, d.pos - start.pos)
        /\ SerializeArray(mr, c, u, K, e) = Patch(f, other.pos - 4, f.pos - other.pos)
    BY <1>2, <1>3 DEF SerializeArray, x, y
  <2>2. Twin(start, other)
    BY <1>1, TwinFramed
  <2>3. Twin(d, f)
    BY <2>2, TwinEach DEF u
  <2> HIDE DEF d, f
  <2> QED
    BY <1>1, <2>1, <2>3, TwinFramed DEF u
<1>4. CASE ~mw.header
  <2>1. SerializeArray(mw, b, v, K, e) = Each(mw.of, x, v, K, e) /\ SerializeArray(mr, c, u, K, e) = Each(mr.of, y, u, K, e)
    BY <1>2, <1>4 DEF SerializeArray, x, y
  <2> QED
    BY <1>1, <2>1, TwinEach DEF u
<1> QED
  BY <1>3, <1>4

LEMMA TwinSequences ==
  ASSUME NEW mw, NEW mr, NEW w, NEW r, NEW e, Doubles(mw.of, mr.of, w, r, e),
         mw.header = mr.header, mw.max = mr.max, NEW v \in Seq(ValuesOf[w]), NEW b, NEW c, Twin(b, c)
  PROVE  Twin(SerializeSequence(mw, b, v, "KeyNormalized", e),
              SerializeSequence(mr, c, Seen(w, r, v), "KeyNormalized", e))
<1> DEFINE K == "KeyNormalized"
           u == Seen(w, r, v)
           x == WithinMax(mw, b, v)
           y == WithinMax(mr, c, u)
           start == IF mw.header THEN Write(Align(x, 4), 4, 0) ELSE Align(x, 4)
           other == IF mr.header THEN Write(Align(y, 4), 4, 0) ELSE Align(y, 4)
           d == Each(mw.of, Write(start, 4, Len(v)), v, K, e)
           f == Each(mr.of, Write(other, 4, Len(u)), u, K, e)
<1>1. Len(u) = Len(v)
  BY DEF Seen
<1>2. Twin(x, y)
  BY <1>1, TwinChecked DEF WithinMax
<1>3. /\ SerializeSequence(mw, b, v, K, e) = IF mw.header THEN Patch(d, start.pos - 4, d.pos - start.pos) ELSE d
      /\ SerializeSequence(mr, c, u, K, e) = IF mr.header THEN Patch(f, other.pos - 4, f.pos - other.pos) ELSE f
  BY DEF SerializeSequence
<1> HIDE DEF x, y, u
<1>4. Near(start, other)
  <2>1. Near(Align(x, 4), Align(y, 4))
    BY <1>2, TwinAligned DEF Widths
  <2> QED
    BY <1>2, <2>1, TwinFramed DEF Twin
<1> HIDE DEF start, other
<1>5. Twin(Write(start, 4, Len(v)), Write(other, 4, Len(u)))
  BY <1>1, <1>4, NearWritten
<1>6. Twin(d, f)
  BY <1>5, TwinEach DEF u
<1> HIDE DEF d, f
<1>7. mw.header => Twin(Patch(d, start.pos - 4, d.pos - start.pos), Patch(f, other.pos - 4, f.pos - other.pos))
  BY <1>2, <1>6, TwinFramed DEF start, other
<1> QED
  BY <1>3, <1>6, <1>7 DEF u

LEMMA TwinPlainSequences ==
  ASSUME NEW mw, NEW mr, mw.size \in Widths, mr.size = mw.size, mr.max = mw.max, NEW v, Len(v) \in Nat,
         NEW b, NEW c, Twin(b, c)
  PROVE  Twin(SerializePlainSequence(mw, b, v), SerializePlainSequence(mr, c, v))
<1> DEFINE x == WithinMax(mw, b, v)
           y == WithinMax(mr, c, v)
           d == Write(Align(x, 4), 4, Len(v))
           f == Write(Align(y, 4), 4, Len(v))
           n == mw.size * Len(v)
<1>1. Twin(x, y)
  BY TwinChecked DEF WithinMax
<1> HIDE DEF x, y
<1>2. Twin(d, f)
  BY <1>1, TwinNumber DEF Widths
<1>3. /\ SerializePlainSequence(mw, b, v) = IF v = <<>> THEN d ELSE WriteMulti(Align(d, mw.size), n, mw.size, v)
      /\ SerializePlainSequence(mr, c, v) = IF v = <<>> THEN f ELSE WriteMulti(Align(f, mw.size), n, mw.size, v)
  BY DEF SerializePlainSequence, x, y
<1>4. n \in Nat
  BY DEF Widths
<1> HIDE DEF d, f, n
<1>5. Near(Align(d, mw.size), Align(f, mw.size))
  BY <1>2, TwinAligned
<1>6. Twin(WriteMulti(Align(d, mw.size), n, mw.size, v), WriteMulti(Align(f, mw.size), n, mw.size, v))
  <2> DEFINE g == Align(d, mw.size)
             h == Align(f, mw.size)
  <2>1. Near(g, h)
    BY <1>5
  <2> HIDE DEF g, h
  <2>2. \A unit : Twin(WriteMulti(g, n, unit, v), WriteMulti(h, n, unit, v))
    BY <1>4, <2>1, NearWritten
  <2> QED
    BY <2>2 DEF g, h
<1> QED
  BY <1>2, <1>3, <1>6

LEMMA TwinPlainArrays ==
  ASSUME NEW m, m.size \in Widths, m.len \in Nat, NEW v, NEW b, NEW c, Twin(b, c)
  PROVE  Twin(SerializePlainArray(m, b, v), SerializePlainArray(m, c, v))
<1> DEFINE x == Check(b, Len(v) = m.len, "assert")
           y == Check(c, Len(v) = m.len, "assert")
           n == m.size * m.len
<1>1. Twin(x, y)
  BY TwinChecked
<1>2. /\ SerializePlainArray(m, b, v) = WriteMulti(Align(x, m.size), n, m.size, v)
      /\ SerializePlainArray(m, c, v) = WriteMulti(Align(y, m.size), n, m.size, v)
  BY DEF SerializePlainArray
<1>3. n \in Nat
  BY DEF Widths
<1> DEFINE d == Align(x, m.size)
           f == Align(y, m.size)
<1> HIDE DEF x, y, n
<1>4. Near(d, f)
  BY <1>1, TwinAligned
<1> HIDE DEF d, f
<1>5. \A unit : Twin(WriteMulti(d, n, unit, v), WriteMulti(f, n, unit, v))
  BY <1>3, <1>4, NearWritten
<1> QED
  BY <1>2, <1>5 DEF d, f

LEMMA TwinStrings ==
  ASSUME NEW mw, NEW mr, mw.bound = mr.bound, NEW v \in Seq(Nat), NEW b, NEW c, Twin(b, c)
  PROVE  Twin(SerializeString(mw, b, v), SerializeString(mr, c, v))
<1> DEFINE x == Check(b, mw.bound = None \/ Len(v) <= mw.bound, "longer than bound")
           y == Check(c, mw.bound = None \/ Len(v) <= mw.bound, "longer than bound")
           d == Write(Align(x, 4), 4, SumOf(v) + 1)
           f == Write(Align(y, 4), 4, SumOf(v) + 1)
<1>1. Twin(x, y)
  BY TwinChecked
<1>2. /\ SerializeString(mw, b, v) = Write(WriteBytes(d, SumOf(v), v), 1, 0)
      /\ SerializeString(mr, c, v) = Write(WriteBytes(f, SumOf(v), v), 1, 0)
  BY DEF SerializeString
<1> HIDE DEF x, y
<1>3. Twin(d, f)
  BY <1>1, TwinNumber DEF Widths
<1>4. SumOf(v) \in Nat
  BY SumOfType
<1> HIDE DEF d, f
<1>5. Twin(WriteBytes(d, SumOf(v), v), WriteBytes(f, SumOf(v), v))
  BY <1>3, <1>4, TwinWritten
<1> QED
  BY <1>2, <1>5, TwinWritten

LEMMA TwinBytes ==
  ASSUME NEW v, Len(v) \in Nat, NEW b, NEW c, Twin(b, c)
  PROVE  Twin(SerializeBytes(b, v), SerializeBytes(c, v))
<1>1. Twin(Write(Align(b, 4), 4, Len(v)), Write(Align(c, 4), 4, Len(v)))
  BY TwinNumber DEF Widths
<1> QED
  BY <1>1, TwinWritten DEF SerializeBytes

LEMMA TwinMappings ==
  ASSUME NEW mw, NEW mr, NEW e, NEW wk, NEW rk, Doubles(mw.key, mr.key, wk, rk, e),
         NEW wv, NEW rv, Doubles(mw.val, mr.val, wv, rv, e), NEW s \in Seq(ValuesOf[wk] \X ValuesOf[wv]),
         NEW b, NEW c, Twin(b, c)
  PROVE  Twin(SerializeMapping(mw, b, s, "KeyNormalized", e),
              SerializeMapping(mr, c, SeenPairs(wk, rk, wv, rv, s), "KeyNormalized", e))
<1> DEFINE K == "KeyNormalized"
           u == SeenPairs(wk, rk, wv, rv, s)
           N == Len(s)
<1>1. N \in Nat /\ Len(u) = N /\ \A i \in 1 .. N : u[i] = <<View(wk, rk, s[i][1]), View(wv, rv, s[i][2])>>
                                  /\ s[i][1] \in ValuesOf[wk] /\ s[i][2] \in ValuesOf[wv]
  BY DEF SeenPairs
<1> HIDE DEF u
<1>2. PICK x : MappingRuns(x, mw, b, s, K, e)
  BY <1>1, MappingSteps
<1>3. PICK y : MappingRuns(y, mr, c, u, K, e)
  BY <1>1, MappingSteps
<1> HIDE DEF N
<1> DEFINE T == {i \in 0 .. N : Twin(x[i], y[i])}
<1>4. 0 \in T
  <2>1. x[0] = Write(Align(b, 4), 4, N) /\ y[0] = Write(Align(c, 4), 4, N)
    BY <1>1, <1>2, <1>3 DEF MappingRuns, N
  <2> QED
    BY <1>1, <2>1, TwinNumber DEF Widths
<1>5. ASSUME NEW i \in 0 .. N - 1, i \in T PROVE i + 1 \in T
  <2> DEFINE p == Serialize(mw.key, x[i], s[i + 1][1], K, e)
             q == Serialize(mr.key, y[i], View(wk, rk, s[i + 1][1]), K, e)
  <2>1. i + 1 \in 1 .. N /\ (i + 1) - 1 = i
    BY <1>1
  <2>2. /\ x[i + 1] = Serialize(mw.val, p, s[i + 1][2], K, e)
        /\ y[i + 1] = Serialize(mr.val, q, View(wv, rv, s[i + 1][2]), K, e)
    BY <1>1, <1>2, <1>3, <2>1 DEF MappingRuns, N
  <2>3. Twin(p, q)
    BY <1>1, <1>5, <2>1 DEF Doubles
  <2> HIDE DEF p, q
  <2>4. Twin(x[i + 1], y[i + 1])
    BY <1>1, <2>1, <2>2, <2>3 DEF Doubles
  <2> QED
    BY <2>1, <2>4
<1> HIDE DEF T
<1>6. N \in T
  <2>1. N \in Nat
    BY <1>1
  <2>2. 0 .. N \subseteq T
    BY <1>4, <1>5, <2>1, IntervalInduction
  <2> QED
    BY <2>1, <2>2
<1> QED
  BY <1>1, <1>2, <1>3, <1>6 DEF MappingRuns, T, N, u

\* An optional in a key is refused, whatever it holds.
LEMMA TwinOptionals ==
  ASSUME NEW mw, NEW mr, NEW v, NEW u, NEW b, NEW c, Twin(b, c)
  PROVE  Twin(SerializeOptional(mw, b, v, "KeyNormalized"), SerializeOptional(mr, c, u, "KeyNormalized"))
<1> DEFINE error == "AssertionError"
           no == FALSE
<1>1. /\ SerializeOptional(mw, b, v, "KeyNormalized") = Check(b, no, error)
      /\ SerializeOptional(mr, c, u, "KeyNormalized") = Check(c, no, error)
  BY DEF SerializeOptional, Check
<1>2. Twin(Check(b, no, error), Check(c, no, error))
  BY TwinChecked
<1> QED
  BY <1>1, <1>2

\* Labels are written alike, and so is what goes with them.
UnionKeys(mw, mr, w, r, e, inside) ==
  /\ {None, w.defaultDisc} \cap DOMAIN w.cases = {}
  /\ mw.defaultDisc = w.defaultDisc /\ mr.defaultDisc = w.defaultDisc
  /\ DOMAIN mw.cases = DOMAIN w.cases /\ DOMAIN mr.cases = DOMAIN w.cases
  /\ \A label \in DOMAIN w.cases :
       Doubles(mw.cases[label], mr.cases[label], w.cases[label], r.cases[label], inside)
  /\ (mw.default = None <=> w.default = None) /\ (mr.default = None <=> w.default = None)
  /\ w.default # None => Doubles(mw.default, mr.default, w.default, r.default, inside)
  /\ \A v : View(w.disc, r.disc, v) = v
  /\ Doubles(mw.disc, mr.disc, w.disc, r.disc, e)

UnionHolds(w, v) ==
  /\ LabelOf(w, v) \in ValuesOf[w.disc]
  /\ v.d \in DOMAIN w.cases => v.v \in ValuesOf[w.cases[v.d]]
  /\ v.d \notin DOMAIN w.cases /\ w.default # None => v.v \in ValuesOf[w.default]

LEMMA TwinUnions ==
  ASSUME NEW mw, NEW mr, NEW w, NEW r, NEW e, NEW inside, UnionKeys(mw, mr, w, r, e, inside),
         NEW v, UnionHolds(w, v), NEW u, u = [d |-> LabelOf(w, v), v |-> UnionView(w, r, v)],
         NEW b, NEW c, Twin(b, c)
  PROVE  Twin(SerializeUnion(mw, b, v, "KeyNormalized", e, inside),
              SerializeUnion(mr, c, u, "KeyNormalized", e, inside))
<1> DEFINE K == "KeyNormalized"
           l == LabelOf(w, v)
           x == Serialize(mw.disc, b, l, K, e)
           y == Serialize(mr.disc, c, l, K, e)
           N == v.d \notin DOMAIN w.cases
<1>1. Label(mw, v) = l /\ Label(mr, u) = l /\ u.d = l /\ u.v = UnionView(w, r, v)
  BY DEF Label, LabelOf, UnionKeys
<1>2. Twin(x, y)
  <2>1. l \in ValuesOf[w.disc] /\ View(w.disc, r.disc, l) = l
    BY DEF UnionHolds, UnionKeys
  <2> HIDE DEF l
  <2> QED
    BY <2>1 DEF Doubles, UnionKeys
<1> HIDE DEF x, y
<1>3. CASE ~N
  <2>1. l = v.d
    BY <1>3 DEF LabelOf, UnionKeys
  <2>2. /\ SerializeUnion(mw, b, v, K, e, inside) = Serialize(mw.cases[v.d], x, v.v, K, inside)
        /\ SerializeUnion(mr, c, u, K, e, inside) = Serialize(mr.cases[v.d], y, u.v, K, inside)
    BY <1>1, <1>3, <2>1 DEF SerializeUnion, UnionKeys, x, y
  <2>3. u.v = View(w.cases[v.d], r.cases[v.d], v.v)
    BY <1>1, <1>3 DEF UnionView
  <2>4. v.v \in ValuesOf[w.cases[v.d]] /\ Doubles(mw.cases[v.d], mr.cases[v.d], w.cases[v.d], r.cases[v.d], inside)
    BY <1>3 DEF UnionHolds, UnionKeys
  <2> QED
    BY <1>2, <2>2, <2>3, <2>4 DEF Doubles
<1>4. CASE N /\ w.default # None
  <2>1. l \notin DOMAIN w.cases
    BY <1>4 DEF LabelOf, UnionKeys
  <2>2. /\ SerializeUnion(mw, b, v, K, e, inside) = Serialize(mw.default, x, v.v, K, inside)
        /\ SerializeUnion(mr, c, u, K, e, inside) = Serialize(mr.default, y, u.v, K, inside)
    BY <1>1, <1>4, <2>1 DEF SerializeUnion, UnionKeys, x, y
  <2>3. u.v = View(w.default, r.default, v.v)
    BY <1>1, <1>4 DEF UnionView
  <2>4. v.v \in ValuesOf[w.default] /\ Doubles(mw.default, mr.default, w.default, r.default, inside)
    BY <1>4 DEF UnionHolds, UnionKeys
  <2> QED
    BY <1>2, <2>2, <2>3, <2>4 DEF Doubles
<1>5. CASE N /\ w.default = None
  <2>1. l \notin DOMAIN w.cases
    BY <1>5 DEF LabelOf, UnionKeys
  <2>2. SerializeUnion(mw, b, v, K, e, inside) = x /\ SerializeUnion(mr, c, u, K, e, inside) = y
    BY <1>1, <1>5, <2>1 DEF SerializeUnion, UnionKeys, x, y
  <2> QED
    BY <1>2, <2>2
<1> QED
  BY <1>3, <1>4, <1>5

LEMMA TwinDelimitedUnions ==
  ASSUME NEW mw, NEW mr, NEW w, NEW r, UnionKeys(mw, mr, w, r, "InKeylist", "InKeylist"),
         NEW v, UnionHolds(w, v), NEW u, u = [d |-> LabelOf(w, v), v |-> UnionView(w, r, v)],
         NEW b, NEW c, Twin(b, c)
  PROVE  Twin(SerializeDelimitedUnion(mw, b, v, "KeyNormalized"),
              SerializeDelimitedUnion(mr, c, u, "KeyNormalized"))
<1> DEFINE K == "KeyNormalized"
           e == "InKeylist"
           start == Write(Align(b, 4), 4, 0)
           other == Write(Align(c, 4), 4, 0)
           d == SerializeUnion(mw, start, v, K, e, e)
           f == SerializeUnion(mr, other, u, K, e, e)
<1>1. /\ SerializeDelimitedUnion(mw, b, v, K) = Patch(d, start.pos - 4, d.pos - start.pos)
      /\ SerializeDelimitedUnion(mr, c, u, K) = Patch(f, other.pos - 4, f.pos - other.pos)
  BY DEF SerializeDelimitedUnion
<1>2. Twin(start, other)
  BY TwinFramed
<1> HIDE DEF start, other
<1>3. Twin(d, f)
  BY <1>2, TwinUnions
<1> HIDE DEF d, f
<1> QED
  BY <1>1, <1>3, TwinFramed DEF start, other

\* A member of a struct that is part of the key.
Picked(t, i, e) == KeyEnabled(t.keys, t.members[i].name, e) # "Never"

StructKeys(mw, mr, w, r, e) ==
  /\ PlainOnes(mw, w, TRUE) /\ PlainOnes(mr, r, TRUE) /\ mw.keys = w.keys /\ mr.keys = r.keys
  /\ {i \in 1 .. Len(w.members) : Picked(w, i, e)} = {i \in 1 .. Len(r.members) : Picked(r, i, e)}
  /\ \A i \in 1 .. Len(w.members) : i <= Len(r.members) /\ Picked(w, i, e) =>
       /\ w.members[i].id = r.members[i].id
       /\ Doubles(mw.members[i].machine, mr.members[i].machine, w.members[i].type, r.members[i].type,
                  "InKeylistOrKeyless")

\* What one member of a struct adds, and what the end of its members does.
AfterMember(m, t, x, v, e, i) ==
  LET N == Len(t.members)
  IN  x[AtMost(i + 1, N)] =
        IF i + 1 <= N /\ Picked(t, i + 1, e)
        THEN Serialize(m.members[i + 1].machine, x[AtMost(i, N)], v[t.members[i + 1].name],
                       "KeyNormalized", "InKeylistOrKeyless")
        ELSE x[AtMost(i, N)]

LEMMA MemberPicked ==
  ASSUME NEW m, NEW t, PlainOnes(m, t, TRUE), m.keys = t.keys, NEW e, NEW b, NEW v,
         NEW x, MembersRuns(x, m, b, v, "KeyNormalized", e), NEW i \in Nat
  PROVE  AfterMember(m, t, x, v, e, i)
<1> DEFINE N == Len(t.members)
           K == "KeyNormalized"
<1>1. N \in Nat /\ Len(m.members) = N
  BY DEF PlainOnes
<1>2. CASE i + 1 <= N
  <2>1. i + 1 \in 1 .. N /\ AtMost(i + 1, N) = i + 1 /\ AtMost(i, N) = i /\ (i + 1) - 1 = i
    BY <1>1, <1>2 DEF AtMost
  <2>2. x[i + 1] = SerializeMember(m, x[i], m.members[i + 1], v, K, e)
    BY <1>1, <2>1 DEF MembersRuns
  <2>3. m.members[i + 1].name = t.members[i + 1].name
    BY <2>1 DEF PlainOnes
  <2>4. KeyEnabled(t.keys, t.members[i + 1].name, e) \in {"Never", "InKeylistOrKeyless"}
    BY DEF KeyEnabled
  <2> QED
    BY <1>2, <2>1, <2>2, <2>3, <2>4 DEF SerializeMember, Picked, AfterMember
<1>3. CASE ~(i + 1 <= N)
  <2>1. AtMost(i + 1, N) = N /\ AtMost(i, N) = N
    BY <1>1, <1>3 DEF AtMost
  <2> QED
    BY <1>3, <2>1 DEF AfterMember
<1> QED
  BY <1>2, <1>3

LEMMA TwinMembers ==
  ASSUME NEW mw, NEW mr, NEW w, NEW r, NEW e, StructKeys(mw, mr, w, r, e), NEW v, StructValue(w, v),
         NEW u, u = [name \in Names(r) |-> MemberView(w, MemberNamed(r, name), v)], NEW b, NEW c, Twin(b, c)
  PROVE  Twin(SerializeMembers(mw, b, v, "KeyNormalized", e), SerializeMembers(mr, c, u, "KeyNormalized", e))
<1> DEFINE K == "KeyNormalized"
           N == Len(w.members)
           M == Len(r.members)
<1>1. /\ N \in Nat /\ M \in Nat /\ Len(mw.members) = N /\ Len(mr.members) = M
      /\ PlainOnes(mw, w, TRUE) /\ PlainOnes(mr, r, TRUE) /\ mw.keys = w.keys /\ mr.keys = r.keys
  BY DEF StructKeys, PlainOnes
<1>2. Met(w, r, v)
  BY MembersMet DEF StructKeys, PlainOnes
<1>3. PICK x : MembersRuns(x, mw, b, v, K, e)
  BY <1>1, MembersSteps
<1>4. PICK y : MembersRuns(y, mr, c, u, K, e)
  BY <1>1, MembersSteps
<1> DEFINE At(i) == Twin(x[AtMost(i, N)], y[AtMost(i, M)])
           T == {i \in Nat : At(i)}
<1>5. 0 \in T
  BY <1>1, <1>3, <1>4 DEF MembersRuns, AtMost
<1>6. ASSUME NEW i \in T PROVE i + 1 \in T
  <2> DEFINE j == i + 1
  <2>1. i \in Nat /\ j \in Nat /\ At(i)
    OBVIOUS
  <2>2. AfterMember(mw, w, x, v, e, i)
    BY <1>1, <1>3, <2>1, MemberPicked
  <2>3. AfterMember(mr, r, y, u, e, i)
    BY <1>1, <1>4, <2>1, MemberPicked
  <2>4. j <= N /\ Picked(w, j, e) <=> j <= M /\ Picked(r, j, e)
    <3>1. j \in {k \in 1 .. N : Picked(w, k, e)} <=> j \in {k \in 1 .. M : Picked(r, k, e)}
      BY DEF StructKeys
    <3> QED
      BY <1>1, <2>1, <3>1
  <2>5. CASE j <= N /\ Picked(w, j, e)
    <3>1. j \in 1 .. N /\ j \in 1 .. M
      BY <1>1, <2>1, <2>4, <2>5
    <3>2. /\ w.members[j].id = r.members[j].id
          /\ Doubles(mw.members[j].machine, mr.members[j].machine, w.members[j].type, r.members[j].type,
                     "InKeylistOrKeyless")
      BY <2>5, <3>1 DEF StructKeys
    <3>3. u[r.members[j].name] = View(w.members[j].type, r.members[j].type, v[w.members[j].name])
      BY <1>2, <3>1, <3>2 DEF Met
    <3>4. v[w.members[j].name] \in ValuesOf[w.members[j].type]
      BY <3>1 DEF StructValue
    <3> DEFINE p == x[AtMost(i, N)]
               q == y[AtMost(i, M)]
    <3>5. /\ x[AtMost(j, N)] = Serialize(mw.members[j].machine, p, v[w.members[j].name], K, "InKeylistOrKeyless")
          /\ y[AtMost(j, M)] = Serialize(mr.members[j].machine, q, u[r.members[j].name], K, "InKeylistOrKeyless")
      BY <2>2, <2>3, <2>4, <2>5 DEF AfterMember
    <3>6. Twin(p, q)
      BY <2>1
    <3> HIDE DEF p, q, j
    <3>7. Twin(x[AtMost(j, N)], y[AtMost(j, M)])
      BY <3>2, <3>3, <3>4, <3>5, <3>6 DEF Doubles
    <3> QED
      BY <2>1, <3>7 DEF j
  <2>6. CASE ~(j <= N /\ Picked(w, j, e))
    BY <2>1, <2>2, <2>3, <2>4, <2>6 DEF AfterMember
  <2> QED
    BY <2>5, <2>6
<1>7. T = Nat
  <2>1. T \in SUBSET Nat
    OBVIOUS
  <2> HIDE DEF T
  <2> QED
    BY <1>5, <1>6, <2>1, SetInduction
<1>8. N + M \in Nat /\ AtMost(N + M, N) = N /\ AtMost(N + M, M) = M
  <2>1. N \in Nat /\ M \in Nat
    BY <1>1
  <2> HIDE DEF N, M
  <2> QED
    BY <2>1 DEF AtMost
<1>9. Twin(x[N], y[M])
  <2>1. At(N + M)
    BY <1>7, <1>8
  <2> QED
    BY <1>8, <2>1
<1> QED
  BY <1>1, <1>3, <1>4, <1>9 DEF MembersRuns

LEMMA TwinDelimiteds ==
  ASSUME NEW mw, NEW mr, NEW w, NEW r, NEW e, StructKeys(mw, mr, w, r, e), NEW v, StructValue(w, v),
         NEW u, u = [name \in Names(r) |-> MemberView(w, MemberNamed(r, name), v)], NEW b, NEW c, Twin(b, c)
  PROVE  Twin(SerializeDelimited(mw, b, v, "KeyNormalized", e), SerializeDelimited(mr, c, u, "KeyNormalized", e))
<1> DEFINE K == "KeyNormalized"
           start == Write(Align(b, 4), 4, 0)
           other == Write(Align(c, 4), 4, 0)
           d == SerializeMembers(mw, start, v, K, e)
           f == SerializeMembers(mr, other, u, K, e)
<1>1. /\ SerializeDelimited(mw, b, v, K, e) = Patch(d, start.pos - 4, d.pos - start.pos)
      /\ SerializeDelimited(mr, c, u, K, e) = Patch(f, other.pos - 4, f.pos - other.pos)
  BY DEF SerializeDelimited
<1>2. Twin(start, other)
  BY TwinFramed
<1> HIDE DEF start, other
<1>3. Twin(d, f)
  BY <1>2, TwinMembers
<1> HIDE DEF d, f
<1> QED
  BY <1>1, <1>3, TwinFramed DEF start, other

\* A member of a mutable struct that is sent in a key.
SentIn(m, x, v, e) == KeyEnabled(m.keys, x.name, e) # "Never" /\ ~(x.optional /\ v[x.name] = None)

\* The same member of two mutable structs.
MemberPair(x, y, v, u) ==
  /\ x.id = y.id /\ x.mu = y.mu /\ x.lentype = y.lentype
  /\ \A b, c : Twin(b, c) =>
       Twin(Serialize(x.machine, b, v[x.name], "KeyNormalized", "InKeylistOrKeyless"),
            Serialize(y.machine, c, u[y.name], "KeyNormalized", "InKeylistOrKeyless"))

MutableKeys(mw, mr, v, u, e) ==
  /\ mw.v2 /\ mr.v2
  /\ Len(mw.members) \in Nat /\ Apart(mw.members, Len(mw.members))
  /\ Len(mr.members) \in Nat /\ Apart(mr.members, Len(mr.members))
  /\ \A x \in ToSet(mw.members) : SentIn(mw, x, v, e) =>
       \E y \in ToSet(mr.members) : y.id = x.id /\ SentIn(mr, y, u, e)
  /\ \A y \in ToSet(mr.members) : SentIn(mr, y, u, e) =>
       \E x \in ToSet(mw.members) : x.id = y.id /\ SentIn(mw, x, v, e)
  /\ \A x \in ToSet(mw.members), y \in ToSet(mr.members) :
       x.id = y.id /\ SentIn(mw, x, v, e) /\ SentIn(mr, y, u, e) => MemberPair(x, y, v, u)

LEMMA TwinMutableMembers ==
  ASSUME NEW mw, NEW mr, mw.v2, mr.v2, NEW x, NEW y, NEW v, NEW u, MemberPair(x, y, v, u),
         NEW b, NEW c, Twin(b, c)
  PROVE  Twin(SerializeMutableMember(mw, b, x, v[x.name], "KeyNormalized", "InKeylistOrKeyless"),
              SerializeMutableMember(mr, c, y, u[y.name], "KeyNormalized", "InKeylistOrKeyless"))
<1> DEFINE K == "KeyNormalized"
           e == "InKeylistOrKeyless"
           head == [mu |-> x.mu, lc |-> x.lentype, id |-> x.id]
           hx == Write(Align(b, 4), 4, head)
           hy == Write(Align(c, 4), 4, head)
           sx == IF x.lentype = 4 THEN Write(hx, 4, 0) ELSE hx
           sy == IF x.lentype = 4 THEN Write(hy, 4, 0) ELSE hy
           d == Serialize(x.machine, sx, v[x.name], K, e)
           f == Serialize(y.machine, sy, u[y.name], K, e)
<1>1. MemberHeader(mw, b, x) = hx /\ MemberHeader(mr, c, y) = hy
  BY DEF MemberHeader, MemberPair
<1>2. /\ SerializeMutableMember(mw, b, x, v[x.name], K, e)
           = IF x.lentype = 4 THEN Patch(d, hx.pos, d.pos - hx.pos - 4) ELSE d
      /\ SerializeMutableMember(mr, c, y, u[y.name], K, e)
           = IF x.lentype = 4 THEN Patch(f, hy.pos, f.pos - hy.pos - 4) ELSE f
  BY <1>1 DEF SerializeMutableMember, MemberPair
<1> HIDE DEF head
<1>3. Twin(hx, hy)
  BY TwinNumber DEF Widths
<1> HIDE DEF hx, hy
<1>4. Twin(sx, sy)
  BY <1>3, TwinWritten
<1> HIDE DEF sx, sy
<1>5. Twin(d, f)
  BY <1>4 DEF MemberPair
<1> HIDE DEF d, f
<1>6. hx.pos \in Nat /\ hy.pos = hx.pos /\ f.pos = d.pos
  BY <1>3, <1>5 DEF Twin, Near, Plain
<1> QED
  BY <1>2, <1>5, <1>6, TwinPatched

\* The members of a struct in the order of their ids, all of them.
InOrder(p, s, N) ==
  /\ Len(p) = N
  /\ \A i \in 1 .. N : p[i] \in ToSet(s) /\ p[i].id \in Nat
  /\ \A i, j \in 1 .. N : i < j => p[i].id < p[j].id
  /\ \A z \in ToSet(s) : \E i \in 1 .. N : p[i] = z

LEMMA OrderedOnto ==
  ASSUME NEW s, NEW N \in Nat, Apart(s, N)
  PROVE  InOrder(ById(s), s, N)
<1> DEFINE S == ToSet(s)
           p == ById(s)
<1>1. s \in [1 .. N -> S]
  BY DEF Apart
<1>2. Len(s) = N /\ DOMAIN s = 1 .. N
  BY <1>1
<1>3. S = {s[i] : i \in 1 .. N}
  BY <1>2 DEF ToSet
<1>4. (\A i \in 1 .. N : s[i].id \in Nat) /\ (\A i, j \in 1 .. N : i # j => s[i].id # s[j].id)
  BY DEF Apart
<1>5. p \in [1 .. N -> S] /\ \A i, j \in 1 .. N : i < j => p[i].id < p[j].id
  BY <1>2, <1>4, ByIdOrdered
<1> HIDE DEF p, S
<1> DEFINE I == 1 .. N
           at == [i \in I |-> CHOOSE j \in I : s[j] = p[i]]
<1>6. Len(p) = N /\ \A i \in I : p[i] \in S /\ \E j \in I : s[j] = p[i]
  BY <1>3, <1>5
<1>7. \A i \in I : at[i] \in I /\ s[at[i]] = p[i]
  BY <1>6
<1>8. \A i \in I : p[i].id \in Nat
  BY <1>4, <1>7
<1>9. at \in Injection(I, I)
  <2>1. at \in [I -> I]
    BY <1>7
  <2>2. ASSUME NEW i \in I, NEW j \in I, at[i] = at[j] PROVE i = j
    <3>1. p[i].id = p[j].id
      BY <1>7, <2>2
    <3> QED
      BY <1>5, <1>8, <3>1
  <2> HIDE DEF at
  <2> QED
    BY <2>1, <2>2 DEF Injection, IsInjective
<1>10. IsFiniteSet(I)
  BY FS_Interval
<1> HIDE DEF at, I
<1>11. at \in Surjection(I, I)
  BY <1>9, <1>10, FS_Injection
<1>12. \A j \in I : \E i \in I : at[i] = j
  BY <1>11 DEF Surjection
<1>13. \A z \in S : \E i \in I : p[i] = z
  BY <1>3, <1>7, <1>12 DEF I
<1> QED
  BY <1>5, <1>6, <1>8, <1>13 DEF InOrder, I, p, S

\* The first i are those with ids below k.
Split(p, N, i, k) ==
  i \in 0 .. N /\ (\A h \in 1 .. i : p[h].id < k) /\ (\A h \in 1 .. N : i < h => k <= p[h].id)

LEMMA SplitBefore ==
  ASSUME NEW p, NEW s, NEW N \in Nat, InOrder(p, s, N), NEW k \in Nat, NEW i, Split(p, N, i, k + 1)
  PROVE  \/ Split(p, N, i, k) /\ \A h \in 1 .. N : p[h].id # k
         \/ i \in 1 .. N /\ p[i].id = k /\ Split(p, N, i - 1, k) /\ \A h \in 1 .. N : p[h].id = k => h = i
<1>1. /\ i \in 0 .. N
      /\ \A h \in 1 .. i : p[h].id < k + 1
      /\ \A h \in 1 .. N : i < h => k + 1 <= p[h].id
  BY DEF Split
<1>2. \A h \in 1 .. N : p[h].id \in Nat
  BY DEF InOrder
<1>3. \A g, h \in 1 .. N : g < h => p[g].id < p[h].id
  BY DEF InOrder
<1>4. CASE i \in 1 .. N /\ p[i].id = k
  <2>1. \A h \in 1 .. i - 1 : p[h].id < k
    BY <1>1, <1>3, <1>4
  <2>2. ASSUME NEW h \in 1 .. N, i - 1 < h PROVE k <= p[h].id
    <3>1. i = h \/ i < h
      BY <1>1, <2>2
    <3> QED
      BY <1>2, <1>3, <1>4, <3>1
  <2>3. ASSUME NEW h \in 1 .. N, p[h].id = k PROVE h = i
    <3>1. ~(h < i) /\ ~(i < h)
      BY <1>2, <1>3, <1>4, <2>3
    <3> QED
      BY <1>4, <3>1
  <2>4. i - 1 \in 0 .. N
    BY <1>4
  <2> QED
    BY <1>4, <2>1, <2>2, <2>3, <2>4 DEF Split
<1>5. CASE ~(i \in 1 .. N /\ p[i].id = k)
  <2>1. ASSUME NEW h \in 1 .. i PROVE p[h].id < k
    <3>1. h \in 1 .. N /\ i \in 1 .. N /\ i \in 1 .. i
      BY <1>1
    <3>2. p[i].id < k
      BY <1>1, <1>2, <1>5, <3>1
    <3>3. h = i \/ h < i
      BY <1>1
    <3> QED
      BY <1>2, <1>3, <3>1, <3>2, <3>3
  <2>2. ASSUME NEW h \in 1 .. N PROVE p[h].id # k /\ (i < h => k <= p[h].id)
    <3>1. h \in 1 .. i \/ i < h
      BY <1>1
    <3> QED
      BY <1>1, <1>2, <2>1, <3>1
  <2> QED
    BY <1>1, <2>1, <2>2 DEF Split
<1> QED
  BY <1>4, <1>5

\* Where the members with lower ids end, and what the one with id k adds.
Sends(m, x, v, e, k, i, g) ==
  \E z \in ToSet(m.members) :
    /\ z.id = k /\ SentIn(m, z, v, e)
    /\ x[i] = SerializeMutableMember(m, x[g], z, v[z.name], "KeyNormalized", "InKeylistOrKeyless")
Skips(m, x, v, e, k, i, g) ==
  x[i] = x[g] /\ \A z \in ToSet(m.members) : z.id = k => ~SentIn(m, z, v, e)

LEMMA LastSent ==
  ASSUME NEW m, NEW p, NEW N \in Nat, InOrder(p, m.members, N), NEW b, NEW v, NEW e,
         NEW x, MutableRuns(x, m, p, b, v, "KeyNormalized", e), NEW k \in Nat, NEW i, Split(p, N, i, k + 1)
  PROVE  \E g : Split(p, N, g, k) /\ (Sends(m, x, v, e, k, i, g) \/ Skips(m, x, v, e, k, i, g))
<1>1. \A z \in ToSet(m.members) : \E h \in 1 .. N : p[h] = z
  BY DEF InOrder
<1>2. CASE Split(p, N, i, k) /\ \A h \in 1 .. N : p[h].id # k
  <2>1. \A z \in ToSet(m.members) : z.id # k
    BY <1>1, <1>2
  <2>2. Skips(m, x, v, e, k, i, i)
    BY <2>1 DEF Skips
  <2> QED
    BY <1>2, <2>2
<1>3. CASE i \in 1 .. N /\ p[i].id = k /\ Split(p, N, i - 1, k) /\ \A h \in 1 .. N : p[h].id = k => h = i
  <2> DEFINE z == p[i]
             g == i - 1
  <2>1. z \in ToSet(m.members) /\ z.id = k /\ Split(p, N, g, k)
    BY <1>3 DEF InOrder
  <2>2. x[i] = MutableMemberOrNone(m, x[g], z, v, "KeyNormalized", e)
    BY <1>3 DEF MutableRuns, InOrder
  <2>3. \A y \in ToSet(m.members) : y.id = k => y = z
    BY <1>1, <1>3
  <2> HIDE DEF z, g
  <2>4. CASE SentIn(m, z, v, e)
    <3>1. KeyEnabled(m.keys, z.name, e) = "InKeylistOrKeyless"
      BY <2>4 DEF SentIn, KeyEnabled
    <3>2. x[i] = SerializeMutableMember(m, x[g], z, v[z.name], "KeyNormalized", "InKeylistOrKeyless")
      BY <2>2, <2>4, <3>1 DEF MutableMemberOrNone, SentIn
    <3> QED
      BY <2>1, <2>4, <3>2 DEF Sends
  <2>5. CASE ~SentIn(m, z, v, e)
    <3>1. x[i] = x[g]
      BY <2>2, <2>5 DEF MutableMemberOrNone, SentIn
    <3> QED
      BY <2>1, <2>3, <2>5, <3>1 DEF Skips
  <2> QED
    BY <2>4, <2>5
<1> QED
  BY <1>2, <1>3, SplitBefore

\* An id that none of them reaches.
LEMMA LastSplit ==
  ASSUME NEW p, NEW s, NEW N \in Nat, InOrder(p, s, N)
  PROVE  \E k \in Nat : \A l \in Nat : k <= l => Split(p, N, N, l)
<1> DEFINE k == IF N = 0 THEN 0 ELSE p[N].id + 1
<1>1. /\ \A h \in 1 .. N : p[h].id \in Nat
      /\ \A h \in 1 .. N : h = N \/ p[h].id < p[N].id
  BY DEF InOrder
<1>2. k \in Nat
  BY <1>1
<1>3. \A h \in 1 .. N : p[h].id < k
  BY <1>1
<1> HIDE DEF k
<1>4. ASSUME NEW l \in Nat, k <= l PROVE Split(p, N, N, l)
  <2>1. \A h \in 1 .. N : p[h].id < l
    BY <1>1, <1>2, <1>3, <1>4
  <2>2. \A h \in 1 .. N : ~(N < h)
    OBVIOUS
  <2> QED
    BY <2>1, <2>2 DEF Split
<1> QED
  BY <1>2, <1>4

LEMMA TwinMutables ==
  ASSUME NEW mw, NEW mr, NEW v, NEW u, NEW e, MutableKeys(mw, mr, v, u, e), NEW b, NEW c, Twin(b, c)
  PROVE  Twin(SerializeMutable(mw, b, v, "KeyNormalized", e), SerializeMutable(mr, c, u, "KeyNormalized", e))
<1> DEFINE K == "KeyNormalized"
           start == Write(Align(b, 4), 4, 0)
           other == Write(Align(c, 4), 4, 0)
           p == ById(mw.members)
           q == ById(mr.members)
           N == Len(mw.members)
           M == Len(mr.members)
           d == MutableMembersFrom(mw, start, p, v, K, e)
           f == MutableMembersFrom(mr, other, q, u, K, e)
<1>1. /\ SerializeMutable(mw, b, v, K, e) = Patch(d, start.pos - 4, d.pos - start.pos)
      /\ SerializeMutable(mr, c, u, K, e) = Patch(f, other.pos - 4, f.pos - other.pos)
  BY DEF SerializeMutable, MemberOrder, MutableKeys
<1>2. Twin(start, other)
  BY TwinFramed
<1>3. N \in Nat /\ M \in Nat /\ InOrder(p, mw.members, N) /\ InOrder(q, mr.members, M)
  BY OrderedOnto DEF MutableKeys
<1> HIDE DEF start, other, p, q, N, M
<1>4. Len(p) = N /\ Len(q) = M
  BY <1>3 DEF InOrder
<1>5. PICK x : MutableRuns(x, mw, p, start, v, K, e)
  BY <1>3, <1>4, MutableSteps
<1>6. PICK y : MutableRuns(y, mr, q, other, u, K, e)
  BY <1>3, <1>4, MutableSteps
<1> DEFINE T == {k \in Nat : \A i, j : Split(p, N, i, k) /\ Split(q, M, j, k) => Twin(x[i], y[j])}
<1>7. 0 \in T
  <2> SUFFICES ASSUME NEW i, NEW j, Split(p, N, i, 0), Split(q, M, j, 0) PROVE Twin(x[i], y[j])
    OBVIOUS
  <2>1. /\ i \in 0 .. N /\ \A h \in 1 .. i : p[h].id < 0
        /\ j \in 0 .. M /\ \A h \in 1 .. j : q[h].id < 0
    BY DEF Split
  <2>2. (\A h \in 1 .. N : p[h].id \in Nat) /\ (\A h \in 1 .. M : q[h].id \in Nat)
    BY <1>3 DEF InOrder
  <2>3. i = 0
    <3>1. i # 0 => i \in 1 .. i /\ i \in 1 .. N
      BY <1>3, <2>1
    <3> QED
      BY <2>1, <2>2, <3>1
  <2>4. j = 0
    <3>1. j # 0 => j \in 1 .. j /\ j \in 1 .. M
      BY <1>3, <2>1
    <3> QED
      BY <2>1, <2>2, <3>1
  <2> QED
    BY <1>2, <1>5, <1>6, <2>3, <2>4 DEF MutableRuns
<1>8. ASSUME NEW k \in T PROVE k + 1 \in T
  <2>0. k \in Nat /\ \A i, j : Split(p, N, i, k) /\ Split(q, M, j, k) => Twin(x[i], y[j])
    OBVIOUS
  <2> SUFFICES ASSUME NEW i, NEW j, Split(p, N, i, k + 1), Split(q, M, j, k + 1) PROVE Twin(x[i], y[j])
    BY <2>0
  <2> HIDE DEF T
  <2>1. PICK g : Split(p, N, g, k) /\ (Sends(mw, x, v, e, k, i, g) \/ Skips(mw, x, v, e, k, i, g))
    BY <1>3, <1>5, <2>0, LastSent
  <2>2. PICK h : Split(q, M, h, k) /\ (Sends(mr, y, u, e, k, j, h) \/ Skips(mr, y, u, e, k, j, h))
    BY <1>3, <1>6, <2>0, LastSent
  <2>3. Twin(x[g], y[h])
    BY <2>0, <2>1, <2>2
  <2>4. CASE Sends(mw, x, v, e, k, i, g)
    <3>1. PICK z \in ToSet(mw.members) :
            /\ z.id = k /\ SentIn(mw, z, v, e)
            /\ x[i] = SerializeMutableMember(mw, x[g], z, v[z.name], K, "InKeylistOrKeyless")
      BY <2>4 DEF Sends
    <3>2. \E t \in ToSet(mr.members) : t.id = k /\ SentIn(mr, t, u, e)
      BY <3>1 DEF MutableKeys
    <3>3. Sends(mr, y, u, e, k, j, h)
      BY <2>2, <3>2 DEF Skips
    <3>4. PICK t \in ToSet(mr.members) :
            /\ t.id = k /\ SentIn(mr, t, u, e)
            /\ y[j] = SerializeMutableMember(mr, y[h], t, u[t.name], K, "InKeylistOrKeyless")
      BY <3>3 DEF Sends
    <3>5. MemberPair(z, t, v, u) /\ mw.v2 /\ mr.v2
      BY <3>1, <3>4 DEF MutableKeys
    <3> QED
      BY <2>3, <3>1, <3>4, <3>5, TwinMutableMembers
  <2>5. CASE Skips(mw, x, v, e, k, i, g)
    <3>1. ~Sends(mr, y, u, e, k, j, h)
      BY <2>5 DEF Sends, Skips, MutableKeys
    <3> QED
      BY <2>2, <2>3, <2>5, <3>1 DEF Skips
  <2> QED
    BY <2>1, <2>4, <2>5
<1>9. T = Nat
  <2>1. T \in SUBSET Nat
    OBVIOUS
  <2> HIDE DEF T
  <2> QED
    BY <1>7, <1>8, <2>1, SetInduction
<1>10. PICK k \in Nat : \A l \in Nat : k <= l => Split(p, N, N, l)
  BY <1>3, LastSplit
<1>11. PICK l \in Nat : \A n \in Nat : l <= n => Split(q, M, M, n)
  BY <1>3, LastSplit
<1>12. k + l \in Nat /\ k <= k + l /\ l <= k + l
  OBVIOUS
<1>13. Twin(x[N], y[M])
  BY <1>9, <1>10, <1>11, <1>12
<1>14. d = x[N] /\ f = y[M]
  BY <1>4, <1>5, <1>6 DEF MutableRuns
<1> HIDE DEF d, f
<1> QED
  BY <1>1, <1>13, <1>14, TwinFramed DEF start, other

(***************************************************************************)
(* The keys of two versions of a type, kind by kind.                       *)
(***************************************************************************)
\* Machines of which one stands for the other in a key.
SameForm(mw, mr) == SameShape(mw, mr) /\ LenType(mw) = LenType(mr)

TwinPair(mw, mr, w, r, e) ==
  /\ SameForm(mw, mr)
  /\ Doubles(mw, mr, w, r, e) /\ Doubles(StripHeaders(mw), StripHeaders(mr), w, r, e)

PairsTwin(w, r, e) ==
  \A id, header : TwinPair(MachineFor(w, id, header, TRUE), MachineFor(r, id, header, TRUE), w, r, e)

\* Only None is seen as None.
SomeSeen(w, r) == \A v \in ValuesOf[w] : v # None => View(w, r, v) # None

Twins(w, r, e) == PairsTwin(w, r, e) /\ SomeSeen(w, r)

TwinAt(mw, mr, v, u, e) ==
  \A b, c : Twin(b, c) => Twin(Serialized(mw, b, v, "KeyNormalized", e), Serialized(mr, c, u, "KeyNormalized", e))

MachinesTwin(mw, mr, w, r, e) == \A v \in ValuesOf[w] : TwinAt(mw, mr, v, ViewOf(w, r, v), e)

LEMMA DoublesBy ==
  ASSUME Recursion, ViewRecursion, NEW mw, NEW mr, NEW w, NEW r, NEW e, MachinesTwin(mw, mr, w, r, e)
  PROVE  Doubles(mw, mr, w, r, e)
<1>1. /\ \A m, b, v, kind, enabled : Serialize(m, b, v, kind, enabled) = Serialized(m, b, v, kind, enabled)
      /\ \A v : View(w, r, v) = ViewOf(w, r, v)
  BY DEF Recursion, ViewRecursion
<1> SUFFICES ASSUME NEW b, NEW c, NEW v, Twin(b, c), v \in ValuesOf[w]
             PROVE  Twin(Serialize(mw, b, v, "KeyNormalized", e),
                         Serialize(mr, c, View(w, r, v), "KeyNormalized", e))
  BY DEF Doubles
<1>2. Twin(Serialized(mw, b, v, "KeyNormalized", e), Serialized(mr, c, ViewOf(w, r, v), "KeyNormalized", e))
  BY DEF MachinesTwin, TwinAt
<1> QED
  BY <1>1, <1>2

LEMMA TwinsBy ==
  ASSUME Recursion, ViewRecursion, NEW w, NEW r, NEW e,
         \A id, header :
           /\ BuiltMachine(w, id, header, TRUE).m # "Array"
           /\ SameForm(BuiltMachine(w, id, header, TRUE), BuiltMachine(r, id, header, TRUE))
           /\ MachinesTwin(BuiltMachine(w, id, header, TRUE), BuiltMachine(r, id, header, TRUE), w, r, e)
  PROVE  PairsTwin(w, r, e)
<1> SUFFICES ASSUME NEW id, NEW header
             PROVE  TwinPair(MachineFor(w, id, header, TRUE), MachineFor(r, id, header, TRUE), w, r, e)
  BY DEF PairsTwin
<1> DEFINE mw == MachineFor(w, id, header, TRUE)
           mr == MachineFor(r, id, header, TRUE)
<1>1. mw = BuiltMachine(w, id, header, TRUE) /\ mr = BuiltMachine(r, id, header, TRUE)
  BY DEF Recursion
<1>2. mw.m # "Array" /\ SameForm(mw, mr) /\ MachinesTwin(mw, mr, w, r, e)
  BY <1>1
<1> HIDE DEF mw, mr
<1>3. mr.m # "Array"
  BY <1>2 DEF SameForm, SameShape
<1>4. Doubles(mw, mr, w, r, e)
  BY <1>2, DoublesBy
<1>5. StripHeaders(mw) = mw /\ StripHeaders(mr) = mr
  BY <1>2, <1>3 DEF StripHeaders
<1> QED
  BY <1>2, <1>4, <1>5 DEF TwinPair, mw, mr

\* Types that are written as they are.
LEMMA TwinsSimple ==
  ASSUME Recursion, ViewRecursion, NEW w \in Descs, NEW r \in Descs, NEW version, Alike(w, r, version),
         w.k \in {"prim", "char", "string", "bytes", "enum", "bitmask"}, NEW e, SameKey(w, r, e)
  PROVE  PairsTwin(w, r, e)
<1>1. /\ IsDescription(w) /\ IsDescription(r) /\ \A v \in ValuesOf[w] : IsValue(w, v)
      /\ w.k = r.k
  BY TypesAssumption, ValuesAssumption DEF Alike
<1> SUFFICES ASSUME NEW id, NEW header
             PROVE  /\ BuiltMachine(w, id, header, TRUE).m # "Array"
                    /\ SameForm(BuiltMachine(w, id, header, TRUE), BuiltMachine(r, id, header, TRUE))
                    /\ MachinesTwin(BuiltMachine(w, id, header, TRUE), BuiltMachine(r, id, header, TRUE), w, r, e)
  BY TwinsBy
<1> DEFINE mw == BuiltMachine(w, id, header, TRUE)
           mr == BuiltMachine(r, id, header, TRUE)
           K == "KeyNormalized"
<1>2. \A v : ViewOf(w, r, v) = v
  BY DEF ViewOf
<1>3. ASSUME NEW x, NEW y, mw = x, mr = y, SameForm(x, y), x.m # "Array",
             \A v \in ValuesOf[w] : TwinAt(x, y, v, v, e)
      PROVE  mw.m # "Array" /\ SameForm(mw, mr) /\ MachinesTwin(mw, mr, w, r, e)
  <2> HIDE DEF mw, mr
  <2> QED
    BY <1>2, <1>3 DEF MachinesTwin
<1>4. CASE w.k = "prim"
  <2> DEFINE n == w.size
             x == [m |-> "Primitive", size |-> n]
  <2>1. mw = x /\ mr = x /\ n \in Widths
    BY <1>1, <1>4 DEF BuiltMachine, IsDescription, Widths, Alike
  <2>2. SameForm(x, x) /\ x.m # "Array"
    BY DEF SameForm, SameShape
  <2>3. \A b, v : Serialized(x, b, v, K, e) = Write(Align(b, n), n, v)
    BY DEF Serialized, SerializePrimitive
  <2> HIDE DEF x, mw, mr
  <2>4. \A v \in ValuesOf[w] : TwinAt(x, x, v, v, e)
    BY <2>1, <2>3, TwinNumber DEF TwinAt
  <2> QED
    BY <1>3, <2>1, <2>2, <2>4 DEF mw, mr
<1>5. CASE w.k = "enum"
  <2> DEFINE n == IF w.bits # None THEN EnumHolder(w.bits) ELSE 4
  <2>1. /\ mw.m = mr.m /\ mw.m \in {"Enum", "BitBoundEnum"}
        /\ mw.m = "BitBoundEnum" => mw.size = n /\ mr.size = n
        /\ mw.m = "Enum" => n = 4
    BY <1>1, <1>5 DEF BuiltMachine, Alike
  <2>2. n \in Widths
    BY <1>1, <1>5, HolderWidth DEF IsDescription, Widths
  <2> HIDE DEF n, mw, mr
  <2>3. SameForm(mw, mr) /\ mw.m # "Array"
    BY <2>1 DEF SameForm, SameShape, Innermost, LenType
  <2>4. /\ \A b, v : Serialized(mw, b, v, K, e) = Write(Align(b, n), n, v)
        /\ \A b, v : Serialized(mr, b, v, K, e) = Write(Align(b, n), n, v)
    BY <2>1 DEF Serialized, SerializeEnum, SerializeBitBoundEnum
  <2>5. \A v \in ValuesOf[w] : TwinAt(mw, mr, v, v, e)
    BY <2>2, <2>4, TwinNumber DEF TwinAt
  <2> QED
    BY <1>3, <2>3, <2>5 DEF mw, mr
<1>6. CASE w.k = "char"
  <2> DEFINE x == [m |-> "Char"]
  <2>1. mw = x /\ mr = x
    BY <1>1, <1>6 DEF BuiltMachine
  <2>2. SameForm(x, x) /\ x.m # "Array"
    BY DEF SameForm, SameShape
  <2>3. \A b, v : Serialized(x, b, v, K, e) = Write(b, 1, v)
    BY DEF Serialized, SerializeChar
  <2> HIDE DEF x, mw, mr
  <2>4. \A v \in ValuesOf[w] : TwinAt(x, x, v, v, e)
    BY <2>3, TwinWritten DEF TwinAt
  <2> QED
    BY <1>3, <2>1, <2>2, <2>4 DEF mw, mr
<1>7. CASE w.k = "string"
  <2>1. mw.m = "String" /\ mr.m = "String" /\ mw.bound = mr.bound
    BY <1>1, <1>7 DEF BuiltMachine, SameKey
  <2> HIDE DEF mw, mr
  <2>2. SameForm(mw, mr) /\ mw.m # "Array"
    BY <2>1 DEF SameForm, SameShape, Innermost, LenType
  <2>3. /\ \A b, v : Serialized(mw, b, v, K, e) = SerializeString(mw, b, v)
        /\ \A b, v : Serialized(mr, b, v, K, e) = SerializeString(mr, b, v)
    BY <2>1 DEF Serialized
  <2>4. \A v \in ValuesOf[w] : v \in Seq(Nat)
    <3>1. \A v \in ValuesOf[w] : v \in Seq(1 .. 4)
      BY <1>1, <1>7 DEF IsValue
    <3> QED
      BY <3>1
  <2>5. \A v \in ValuesOf[w] : TwinAt(mw, mr, v, v, e)
    BY <2>1, <2>3, <2>4, TwinStrings DEF TwinAt
  <2> QED
    BY <1>3, <2>2, <2>5 DEF mw, mr
<1>8. CASE w.k = "bytes"
  <2>1. mw.m = "Bytes" /\ mr.m = "Bytes"
    BY <1>1, <1>8 DEF BuiltMachine
  <2> HIDE DEF mw, mr
  <2>2. SameForm(mw, mr) /\ mw.m # "Array"
    BY <2>1 DEF SameForm, SameShape, Innermost, LenType
  <2>3. /\ \A b, v : Serialized(mw, b, v, K, e) = SerializeBytes(b, v)
        /\ \A b, v : Serialized(mr, b, v, K, e) = SerializeBytes(b, v)
    BY <2>1 DEF Serialized
  <2>4. \A v \in ValuesOf[w] : Len(v) \in Nat
    BY <1>1, <1>8 DEF IsValue
  <2>5. \A v \in ValuesOf[w] : TwinAt(mw, mr, v, v, e)
    BY <2>3, <2>4, TwinBytes DEF TwinAt
  <2> QED
    BY <1>3, <2>2, <2>5 DEF mw, mr
<1>9. CASE w.k = "bitmask"
  <2> DEFINE n == MaskHolder(w.bits)
  <2>1. mw.m = "BitMask" /\ mr.m = "BitMask" /\ mw.size = n /\ mr.size = n
    BY <1>1, <1>9 DEF BuiltMachine, Alike
  <2>2. n \in Widths
    BY <1>1, <1>9, HolderWidth DEF IsDescription, Widths
  <2> HIDE DEF n, mw, mr
  <2>3. SameForm(mw, mr) /\ mw.m # "Array"
    BY <2>1 DEF SameForm, SameShape, Innermost, LenType
  <2>4. ASSUME NEW v \in ValuesOf[w]
        PROVE  /\ \A b : Serialized(mw, b, v, K, e) = Write(Align(b, n), n, v[1])
               /\ \A b : Serialized(mr, b, v, K, e) = Write(Align(b, n), n, v[1])
    <3> DEFINE y == v[1]
    <3>1. v = <<y>>
      BY <1>1, <1>9 DEF IsValue
    <3>2. v # <<>>
      BY <3>1
    <3> QED
      BY <2>1, <3>2 DEF Serialized, SerializeBitMask
  <2>5. \A v \in ValuesOf[w] : TwinAt(mw, mr, v, v, e)
    BY <2>2, <2>4, TwinNumber DEF TwinAt
  <2> QED
    BY <1>3, <2>3, <2>5 DEF mw, mr
<1> QED
  BY <1>4, <1>5, <1>6, <1>7, <1>8, <1>9

LEMMA TwinsOptional ==
  ASSUME Recursion, ViewRecursion, NEW w \in Descs, NEW r, w.k = "opt", r.k = "opt", NEW e
  PROVE  PairsTwin(w, r, e)
<1> DEFINE K == "KeyNormalized"
<1> SUFFICES ASSUME NEW id, NEW header
             PROVE  /\ BuiltMachine(w, id, header, TRUE).m # "Array"
                    /\ SameForm(BuiltMachine(w, id, header, TRUE), BuiltMachine(r, id, header, TRUE))
                    /\ MachinesTwin(BuiltMachine(w, id, header, TRUE), BuiltMachine(r, id, header, TRUE), w, r, e)
  BY TwinsBy
<1> DEFINE mw == BuiltMachine(w, id, header, TRUE)
           mr == BuiltMachine(r, id, header, TRUE)
<1>1. mw.m = "Optional" /\ mr.m = "Optional"
  BY DEF BuiltMachine
<1> HIDE DEF mw, mr
<1>2. SameForm(mw, mr) /\ mw.m # "Array"
  BY <1>1 DEF SameForm, SameShape, Innermost, LenType
<1>3. /\ \A b, v : Serialized(mw, b, v, K, e) = SerializeOptional(mw, b, v, K)
      /\ \A b, v : Serialized(mr, b, v, K, e) = SerializeOptional(mr, b, v, K)
  BY <1>1 DEF Serialized
<1>4. ASSUME NEW v, NEW u, NEW b, NEW c, Twin(b, c)
      PROVE  Twin(Serialized(mw, b, v, K, e), Serialized(mr, c, u, K, e))
  BY <1>3, <1>4, TwinOptionals
<1>5. MachinesTwin(mw, mr, w, r, e)
  BY <1>4 DEF MachinesTwin, TwinAt
<1> QED
  BY <1>2, <1>5 DEF mw, mr

\* The machines of two sequences.
LEMMA SequencesTwin ==
  ASSUME NEW mw, NEW mr, mw.m = "Sequence", mr.m = "Sequence", mw.header = mr.header, mw.max = mr.max,
         NEW w, NEW r, NEW e, Doubles(mw.of, mr.of, w, r, e), NEW v \in Seq(ValuesOf[w])
  PROVE  TwinAt(mw, mr, v, Seen(w, r, v), e)
<1> DEFINE K == "KeyNormalized"
<1>1. /\ \A b, x : Serialized(mw, b, x, K, e) = SerializeSequence(mw, b, x, K, e)
      /\ \A b, x : Serialized(mr, b, x, K, e) = SerializeSequence(mr, b, x, K, e)
  BY DEF Serialized
<1> QED
  BY <1>1, TwinSequences DEF TwinAt

LEMMA TwinsList ==
  ASSUME Recursion, ViewRecursion, NEW w \in Descs, NEW r, w.k = "list", r.k = "list", NEW e,
         PairsTwin(w.of, r.of, e)
  PROVE  PairsTwin(w, r, e)
<1>1. \A v \in ValuesOf[w] : v \in Seq(ValuesOf[w.of])
  BY ValuesAssumption DEF IsValue
<1> SUFFICES ASSUME NEW id, NEW header
             PROVE  /\ BuiltMachine(w, id, header, TRUE).m # "Array"
                    /\ SameForm(BuiltMachine(w, id, header, TRUE), BuiltMachine(r, id, header, TRUE))
                    /\ MachinesTwin(BuiltMachine(w, id, header, TRUE), BuiltMachine(r, id, header, TRUE), w, r, e)
  BY TwinsBy
<1> DEFINE mw == BuiltMachine(w, id, header, TRUE)
           mr == BuiltMachine(r, id, header, TRUE)
           x == MachineFor(w.of, None, header, TRUE)
           y == MachineFor(r.of, None, header, TRUE)
           t == w.of
           u == r.of
<1>2. /\ mw.m = "Sequence" /\ mr.m = "Sequence" /\ mw.of = x /\ mr.of = y
      /\ mw.header = header /\ mr.header = header /\ mw.max = None /\ mr.max = None
  BY DEF BuiltMachine
<1>3. Doubles(x, y, t, u, e)
  BY DEF PairsTwin, TwinPair
<1>4. \A v : ViewOf(w, r, v) = Seen(t, u, v)
  BY DEF ViewOf, Seen
<1> HIDE DEF mw, mr, x, y, t, u
<1>5. SameForm(mw, mr) /\ mw.m # "Array"
  BY <1>2 DEF SameForm, SameShape, Innermost, LenType
<1>6. Doubles(mw.of, mr.of, t, u, e) /\ mw.header = mr.header /\ mw.max = mr.max
  BY <1>2, <1>3
<1>7. \A v \in ValuesOf[w] : TwinAt(mw, mr, v, Seen(t, u, v), e)
  BY <1>1, <1>2, <1>6, SequencesTwin DEF t
<1>8. MachinesTwin(mw, mr, w, r, e)
  BY <1>4, <1>7 DEF MachinesTwin
<1> QED
  BY <1>5, <1>8 DEF mw, mr

LEMMA TwinsMap ==
  ASSUME Recursion, ViewRecursion, NEW w \in Descs, NEW r, w.k = "map", r.k = "map", NEW e,
         PairsTwin(w.key, r.key, e), PairsTwin(w.val, r.val, e)
  PROVE  PairsTwin(w, r, e)
<1>1. \A v \in ValuesOf[w] : v \in Seq(ValuesOf[w.key] \X ValuesOf[w.val])
  BY ValuesAssumption DEF IsValue
<1> SUFFICES ASSUME NEW id, NEW header
             PROVE  /\ BuiltMachine(w, id, header, TRUE).m # "Array"
                    /\ SameForm(BuiltMachine(w, id, header, TRUE), BuiltMachine(r, id, header, TRUE))
                    /\ MachinesTwin(BuiltMachine(w, id, header, TRUE), BuiltMachine(r, id, header, TRUE), w, r, e)
  BY TwinsBy
<1> DEFINE mw == BuiltMachine(w, id, header, TRUE)
           mr == BuiltMachine(r, id, header, TRUE)
           K == "KeyNormalized"
           wk == w.key
           rk == r.key
           wv == w.val
           rv == r.val
<1>2. /\ mw.m = "Mapping" /\ mr.m = "Mapping"
      /\ mw.key = MachineFor(wk, None, header, TRUE) /\ mr.key = MachineFor(rk, None, header, TRUE)
      /\ mw.val = MachineFor(wv, None, header, TRUE) /\ mr.val = MachineFor(rv, None, header, TRUE)
  BY DEF BuiltMachine
<1>3. /\ Doubles(MachineFor(wk, None, header, TRUE), MachineFor(rk, None, header, TRUE), wk, rk, e)
      /\ Doubles(MachineFor(wv, None, header, TRUE), MachineFor(rv, None, header, TRUE), wv, rv, e)
  BY DEF PairsTwin, TwinPair
<1>4. \A v : ViewOf(w, r, v) = SeenPairs(wk, rk, wv, rv, v)
  BY DEF ViewOf, SeenPairs
<1> HIDE DEF mw, mr, wk, rk, wv, rv
<1>5. SameForm(mw, mr) /\ mw.m # "Array"
  BY <1>2 DEF SameForm, SameShape, Innermost, LenType
<1>6. Doubles(mw.key, mr.key, wk, rk, e) /\ Doubles(mw.val, mr.val, wv, rv, e)
  BY <1>2, <1>3
<1>7. /\ \A b, v : Serialized(mw, b, v, K, e) = SerializeMapping(mw, b, v, K, e)
      /\ \A b, v : Serialized(mr, b, v, K, e) = SerializeMapping(mr, b, v, K, e)
  BY <1>2 DEF Serialized
<1>8. ASSUME NEW v \in ValuesOf[w], NEW b, NEW c, Twin(b, c)
      PROVE  Twin(Serialized(mw, b, v, K, e), Serialized(mr, c, ViewOf(w, r, v), K, e))
  <2>1. v \in Seq(ValuesOf[wk] \X ValuesOf[wv])
    BY <1>1 DEF wk, wv
  <2>2. Twin(SerializeMapping(mw, b, v, K, e), SerializeMapping(mr, c, SeenPairs(wk, rk, wv, rv, v), K, e))
    BY <1>6, <1>8, <2>1, TwinMappings
  <2> QED
    BY <1>4, <1>7, <2>2
<1>9. MachinesTwin(mw, mr, w, r, e)
  BY <1>8 DEF MachinesTwin, TwinAt
<1> QED
  BY <1>5, <1>9 DEF mw, mr

LEMMA TwinsSeq ==
  ASSUME Recursion, ViewRecursion, NEW w \in Descs, NEW r, w.k = "seq", r.k = "seq", w.of \in Descs, w.max = r.max,
         NEW e, PairsTwin(w.of, r.of, e)
  PROVE  PairsTwin(w, r, e)
<1>1. \A v \in ValuesOf[w] : v \in Seq(ValuesOf[w.of])
  BY ValuesAssumption DEF IsValue
<1> SUFFICES ASSUME NEW id, NEW header
             PROVE  /\ BuiltMachine(w, id, header, TRUE).m # "Array"
                    /\ SameForm(BuiltMachine(w, id, header, TRUE), BuiltMachine(r, id, header, TRUE))
                    /\ MachinesTwin(BuiltMachine(w, id, header, TRUE), BuiltMachine(r, id, header, TRUE), w, r, e)
  BY TwinsBy
<1> DEFINE mw == BuiltMachine(w, id, header, TRUE)
           mr == BuiltMachine(r, id, header, TRUE)
           K == "KeyNormalized"
           x == MachineFor(w.of, None, header, TRUE)
           y == MachineFor(r.of, None, header, TRUE)
           t == w.of
           u == r.of
           max == w.max
<1>2. /\ mw = IF x.m = "Primitive" THEN [m |-> "PlainSequence", size |-> x.size, max |-> max]
              ELSE [m |-> "Sequence", of |-> x, max |-> max, header |-> header /\ x.m # "Char"]
      /\ mr = IF y.m = "Primitive" THEN [m |-> "PlainSequence", size |-> y.size, max |-> max]
              ELSE [m |-> "Sequence", of |-> y, max |-> max, header |-> header /\ y.m # "Char"]
  BY DEF BuiltMachine, SequenceMachineFor
<1>3. Doubles(x, y, t, u, e) /\ SameShape(x, y)
  BY DEF PairsTwin, TwinPair, SameForm
<1>4. \A v : ViewOf(w, r, v) = Seen(t, u, v)
  BY DEF ViewOf, Seen
<1>5. x.m = "Primitive" => x.size \in Widths
  BY PrimitiveMachine
<1>6. x.m = "Primitive" => \A v \in ValuesOf[w] : Seen(t, u, v) = v
  BY <1>1, NumbersSeen
<1> HIDE DEF mw, mr, x, y, t, u, max
<1>7. CASE x.m = "Primitive"
  <2>1. mw = mr /\ mw.m = "PlainSequence" /\ mw.size \in Widths
    BY <1>2, <1>3, <1>5, <1>7 DEF SameShape
  <2>2. SameForm(mw, mr) /\ mw.m # "Array"
    BY <2>1 DEF SameForm, SameShape
  <2>3. \A b, v : Serialized(mw, b, v, K, e) = SerializePlainSequence(mw, b, v)
    BY <2>1 DEF Serialized
  <2>4. ASSUME NEW v \in ValuesOf[w], NEW b, NEW c, Twin(b, c)
        PROVE  Twin(Serialized(mw, b, v, K, e), Serialized(mr, c, ViewOf(w, r, v), K, e))
    <3>1. Len(v) \in Nat /\ ViewOf(w, r, v) = v
      BY <1>1, <1>4, <1>6, <1>7
    <3>2. Twin(SerializePlainSequence(mw, b, v), SerializePlainSequence(mw, c, v))
      BY <2>1, <2>4, <3>1, TwinPlainSequences
    <3> QED
      BY <2>1, <2>3, <3>1, <3>2
  <2>5. MachinesTwin(mw, mr, w, r, e)
    BY <2>4 DEF MachinesTwin, TwinAt
  <2> QED
    BY <2>2, <2>5 DEF mw, mr
<1>8. CASE x.m # "Primitive"
  <2>1. /\ mw.m = "Sequence" /\ mr.m = "Sequence" /\ mw.of = x /\ mr.of = y /\ mw.header = mr.header
        /\ mw.max = mr.max
    BY <1>2, <1>3, <1>8 DEF SameShape
  <2>2. SameForm(mw, mr) /\ mw.m # "Array"
    BY <2>1 DEF SameForm, SameShape, Innermost, LenType
  <2>3. Doubles(mw.of, mr.of, t, u, e)
    BY <1>3, <2>1
  <2>4. \A v \in ValuesOf[w] : TwinAt(mw, mr, v, Seen(t, u, v), e)
    BY <1>1, <2>1, <2>3, SequencesTwin DEF t
  <2>5. MachinesTwin(mw, mr, w, r, e)
    BY <1>4, <2>4 DEF MachinesTwin
  <2> QED
    BY <2>2, <2>5 DEF mw, mr
<1> QED
  BY <1>7, <1>8

LEMMA TwinsArray ==
  ASSUME Recursion, ViewRecursion, NEW w \in Descs, NEW r, w.k = "array", r.k = "array", w.len = r.len,
         w.of \in Descs, NEW e, PairsTwin(w.of, r.of, e)
  PROVE  PairsTwin(w, r, e)
<1>1. w.len \in Nat /\ \A v \in ValuesOf[w] : v \in Seq(ValuesOf[w.of])
  <2>1. IsDescription(w)
    BY TypesAssumption
  <2>2. w.len \in Nat
    BY <2>1 DEF IsDescription
  <2> QED
    BY <2>2, ValuesAssumption DEF IsValue
<1> SUFFICES ASSUME NEW id, NEW header
             PROVE  TwinPair(MachineFor(w, id, header, TRUE), MachineFor(r, id, header, TRUE), w, r, e)
  BY DEF PairsTwin
<1> DEFINE mw == MachineFor(w, id, header, TRUE)
           mr == MachineFor(r, id, header, TRUE)
           sw == StripHeaders(mw)
           sr == StripHeaders(mr)
           K == "KeyNormalized"
           x == MachineFor(w.of, None, header, TRUE)
           y == MachineFor(r.of, None, header, TRUE)
           t == w.of
           u == r.of
           n == w.len
           hx == header /\ ~(Innermost(x) \in {"PlainArray", "Char"})
           hy == header /\ ~(Innermost(y) \in {"PlainArray", "Char"})
<1>2. /\ mw = IF x.m = "Primitive" THEN [m |-> "PlainArray", size |-> x.size, len |-> n]
              ELSE [m |-> "Array", of |-> StripHeaders(x), inner |-> Innermost(x), len |-> n, header |-> hx]
      /\ mr = IF y.m = "Primitive" THEN [m |-> "PlainArray", size |-> y.size, len |-> n]
              ELSE [m |-> "Array", of |-> StripHeaders(y), inner |-> Innermost(y), len |-> n, header |-> hy]
  <2>1. mw = ArrayMachineFor(w, header, TRUE) /\ mr = ArrayMachineFor(r, header, TRUE)
    <3>1. mw = BuiltMachine(w, id, header, TRUE) /\ mr = BuiltMachine(r, id, header, TRUE)
      BY DEF Recursion
    <3> HIDE DEF mw, mr, x, y, hx, hy, sw, sr
    <3> QED
      BY <3>1 DEF BuiltMachine
  <2>2. ArrayMachineFor(w, header, TRUE)
          = IF x.m = "Primitive" THEN [m |-> "PlainArray", size |-> x.size, len |-> n]
            ELSE [m |-> "Array", of |-> StripHeaders(x), inner |-> Innermost(x), len |-> n, header |-> hx]
    BY DEF ArrayMachineFor
  <2>3. ArrayMachineFor(r, header, TRUE)
          = IF y.m = "Primitive" THEN [m |-> "PlainArray", size |-> y.size, len |-> r.len]
            ELSE [m |-> "Array", of |-> StripHeaders(y), inner |-> Innermost(y), len |-> r.len, header |-> hy]
    BY DEF ArrayMachineFor
  <2> HIDE DEF mw, mr, x, y, hx, hy
  <2> QED
    BY <2>1, <2>2, <2>3
<1>3. SameShape(x, y) /\ Doubles(StripHeaders(x), StripHeaders(y), t, u, e)
  BY DEF PairsTwin, TwinPair, SameForm
<1>4. \A v : ViewOf(w, r, v) = Seen(t, u, v)
  BY DEF ViewOf, Seen
<1>5. x.m = "Primitive" => x.size \in Widths
  BY PrimitiveMachine
<1>6. x.m = "Primitive" => \A v \in ValuesOf[w] : Seen(t, u, v) = v
  BY <1>1, NumbersSeen
<1> HIDE DEF mw, mr, x, y
<1>7. CASE x.m = "Primitive"
  <2>1. mw = mr /\ mw.m = "PlainArray" /\ mw.size \in Widths /\ mw.len \in Nat
    BY <1>1, <1>2, <1>3, <1>5, <1>7 DEF SameShape
  <2>2. SameForm(mw, mr)
    BY <2>1 DEF SameForm, SameShape
  <2>3. \A b, v : Serialized(mw, b, v, K, e) = SerializePlainArray(mw, b, v)
    BY <2>1 DEF Serialized
  <2> HIDE DEF n, t, u
  <2>4. ASSUME NEW v \in ValuesOf[w], NEW b, NEW c, Twin(b, c)
        PROVE  Twin(Serialized(mw, b, v, K, e), Serialized(mr, c, ViewOf(w, r, v), K, e))
    <3>1. ViewOf(w, r, v) = v
      BY <1>4, <1>6, <1>7
    <3>2. Twin(SerializePlainArray(mw, b, v), SerializePlainArray(mw, c, v))
      BY <2>1, <2>4, TwinPlainArrays
    <3> QED
      BY <2>1, <2>3, <3>1, <3>2
  <2>5. MachinesTwin(mw, mr, w, r, e)
    BY <2>4 DEF MachinesTwin, TwinAt
  <2>6. Doubles(mw, mr, w, r, e)
    BY <2>5, DoublesBy
  <2>7. sw = mw /\ sr = mr
    BY <2>1 DEF StripHeaders
  <2> QED
    BY <2>2, <2>6, <2>7 DEF TwinPair, mw, mr
<1>8. CASE x.m # "Primitive"
  <2>1. y.m # "Primitive" /\ Innermost(x) = Innermost(y)
    BY <1>3, <1>8 DEF SameShape
  <2>2. hx = hy
    BY <2>1
  <2> HIDE DEF hx, hy, n, t, u
  <2>3. /\ mw.m = "Array" /\ mw.of = StripHeaders(x) /\ mw.len = n /\ mw.header = hx /\ mw.inner = Innermost(x)
        /\ mr.m = "Array" /\ mr.of = StripHeaders(y) /\ mr.len = n /\ mr.header = hy /\ mr.inner = Innermost(x)
    BY <1>2, <1>8, <2>1
  <2>4. /\ sw.m = "Array" /\ sw.of = StripHeaders(x) /\ sw.len = n /\ sw.header = FALSE
        /\ sr.m = "Array" /\ sr.of = StripHeaders(y) /\ sr.len = n /\ sr.header = FALSE
    BY <1>2, <1>8, <2>1 DEF StripHeaders
  <2>5. SameForm(mw, mr)
    BY <2>2, <2>3 DEF SameForm, SameShape, Innermost, LenType
  <2>6. ASSUME NEW p, NEW q, p.m = "Array", q.m = "Array", p.of = StripHeaders(x), q.of = StripHeaders(y),
               p.len = n, q.len = n, p.header = q.header
        PROVE  Doubles(p, q, w, r, e)
    <3>1. /\ \A b, v : Serialized(p, b, v, K, e) = SerializeArray(p, b, v, K, e)
          /\ \A b, v : Serialized(q, b, v, K, e) = SerializeArray(q, b, v, K, e)
      BY <2>6 DEF Serialized
    <3>2. ASSUME NEW v \in ValuesOf[w], NEW b, NEW c, Twin(b, c)
          PROVE  Twin(Serialized(p, b, v, K, e), Serialized(q, c, ViewOf(w, r, v), K, e))
      <4>1. v \in Seq(ValuesOf[t])
        BY <1>1 DEF t
      <4>2. Doubles(p.of, q.of, t, u, e) /\ p.len = q.len
        BY <1>3, <2>6
      <4>3. Twin(SerializeArray(p, b, v, K, e), SerializeArray(q, c, Seen(t, u, v), K, e))
        BY <2>6, <3>2, <4>1, <4>2, TwinArrays
      <4> QED
        BY <1>4, <3>1, <4>3
    <3>3. MachinesTwin(p, q, w, r, e)
      BY <3>2 DEF MachinesTwin, TwinAt
    <3> QED
      BY <3>3, DoublesBy
  <2> HIDE DEF sw, sr
  <2>7. Doubles(mw, mr, w, r, e)
    BY <2>2, <2>3, <2>6
  <2>8. Doubles(sw, sr, w, r, e)
    BY <2>4, <2>6
  <2> QED
    BY <2>5, <2>7, <2>8 DEF TwinPair, mw, mr, sw, sr
<1> QED
  BY <1>7, <1>8

\* What the keys of two versions are made of stands for one another.
PartsTwin(w, r, e) == \A q \in PartsInKey(w, r, e) : q \in Keyed /\ Twins(q[1], q[2], q[3])

LEMMA PartTwins ==
  ASSUME NEW w, NEW r, NEW e, PartsTwin(w, r, e), NEW x, NEW y, NEW f, <<x, y, f>> \in PartsInKey(w, r, e)
  PROVE  <<x, y, f>> \in Keyed /\ Twins(x, y, f) /\ PairsTwin(x, y, f)
<1> DEFINE q == <<x, y, f>>
<1>1. q \in Keyed /\ Twins(q[1], q[2], q[3])
  BY DEF PartsTwin
<1>2. q[1] = x /\ q[2] = y /\ q[3] = f
  OBVIOUS
<1> QED
  BY <1>1, <1>2 DEF Twins

LEMMA TwinsUnion ==
  ASSUME Recursion, ViewRecursion, NEW w, NEW r, <<w, r>> \in Readable[2], w.k = "union", NEW e, PartsTwin(w, r, e)
  PROVE  PairsTwin(w, r, e)
<1>0. 2 \in Versions
  BY DEF Versions
<1>1. /\ w \in Descs /\ r \in Descs /\ Alike(w, r, 2) /\ IsDescription(w)
      /\ \A x \in Parts(w) : x \in Descs
      /\ \A x \in Parts(r) : x \in Descs
  BY <1>0, PairFacts
<1>2. /\ r.k = "union" /\ w.ext = r.ext /\ w.defaultDisc = r.defaultDisc
      /\ DOMAIN w.cases = DOMAIN r.cases /\ (w.default = None <=> r.default = None)
  BY <1>1 DEF Alike
<1>3. \A v \in ValuesOf[w] : UnionHolds(w, v)
  BY <1>1, ValuesAssumption DEF UnionHolds, IsValue
<1>4. {None, w.defaultDisc} \cap DOMAIN w.cases = {} /\ w.disc.k \in {"prim", "char", "enum"}
  BY <1>1 DEF IsDescription
<1> SUFFICES ASSUME NEW id, NEW header
             PROVE  /\ BuiltMachine(w, id, header, TRUE).m # "Array"
                    /\ SameForm(BuiltMachine(w, id, header, TRUE), BuiltMachine(r, id, header, TRUE))
                    /\ MachinesTwin(BuiltMachine(w, id, header, TRUE), BuiltMachine(r, id, header, TRUE), w, r, e)
  BY TwinsBy
<1> DEFINE mw == BuiltMachine(w, id, header, TRUE)
           mr == BuiltMachine(r, id, header, TRUE)
           kind == "KeyNormalized"
           M(t) == MachineFor(t, None, TRUE, TRUE)
           cases(t) == [label \in DOMAIN t.cases |-> M(t.cases[label])]
           default(t) == IF t.default = None THEN None ELSE M(t.default)
           class == IF w.ext = "appendable" THEN "DelimitedUnion" ELSE "Union"
           inside == IF w.ext = "appendable" THEN "InKeylist" ELSE "Never"
           outside == IF w.ext = "appendable" THEN "InKeylist" ELSE e
<1>5. /\ mw = [m |-> class, disc |-> M(w.disc), cases |-> cases(w), default |-> default(w), defaultDisc |-> w.defaultDisc]
      /\ mr = [m |-> class, disc |-> M(r.disc), cases |-> cases(r), default |-> default(r), defaultDisc |-> r.defaultDisc]
  BY <1>2 DEF BuiltMachine, UnionMachineFor
<1> HIDE DEF mw, mr
<1>6. /\ mw.m = class /\ mw.disc = M(w.disc) /\ mw.cases = cases(w) /\ mw.default = default(w) /\ mw.defaultDisc = w.defaultDisc
      /\ mr.m = class /\ mr.disc = M(r.disc) /\ mr.cases = cases(r) /\ mr.default = default(r) /\ mr.defaultDisc = r.defaultDisc
  BY <1>5
<1>7. \A t \in Descs : M(t) # None
  BY NoneAssumption
<1>8. \A t, u, f : PairsTwin(t, u, f) => Doubles(M(t), M(u), t, u, f)
  BY DEF PairsTwin, TwinPair
<1>9. /\ <<w.disc, r.disc, outside>> \in PartsInKey(w, r, e)
      /\ \A label \in DOMAIN w.cases : <<w.cases[label], r.cases[label], inside>> \in PartsInKey(w, r, e)
      /\ w.default # None => <<w.default, r.default, inside>> \in PartsInKey(w, r, e)
  BY DEF PartsInKey
<1>10. /\ w.default # None => w.default \in Parts(w)
       /\ w.default # None => r.default \in Parts(r)
  BY <1>2 DEF Parts
<1> HIDE DEF M, inside, outside
<1>11. UnionKeys(mw, mr, w, r, outside, inside)
  <2>1. mw.defaultDisc = w.defaultDisc /\ mr.defaultDisc = w.defaultDisc
    BY <1>2, <1>6
  <2>2. DOMAIN mw.cases = DOMAIN w.cases /\ DOMAIN mr.cases = DOMAIN w.cases
    BY <1>2, <1>6
  <2>3. ASSUME NEW label \in DOMAIN w.cases
        PROVE  Doubles(mw.cases[label], mr.cases[label], w.cases[label], r.cases[label], inside)
    <3>1. mw.cases[label] = M(w.cases[label]) /\ mr.cases[label] = M(r.cases[label])
      BY <1>2, <1>6
    <3>2. PairsTwin(w.cases[label], r.cases[label], inside)
      BY <1>9, PartTwins
    <3> QED
      BY <1>8, <3>1, <3>2
  <2>4. /\ mw.default = None <=> w.default = None
        /\ mr.default = None <=> w.default = None
    BY <1>1, <1>2, <1>6, <1>7, <1>10
  <2>5. w.default # None => Doubles(mw.default, mr.default, w.default, r.default, inside)
    <3>1. w.default # None => PairsTwin(w.default, r.default, inside)
      BY <1>9, PartTwins
    <3> QED
      BY <1>2, <1>6, <1>8, <3>1
  <2>6. \A v : View(w.disc, r.disc, v) = v
    BY <1>4 DEF ViewRecursion, ViewOf
  <2>7. Doubles(mw.disc, mr.disc, w.disc, r.disc, outside)
    <3>1. PairsTwin(w.disc, r.disc, outside)
      BY <1>9, PartTwins
    <3> QED
      BY <1>6, <1>8, <3>1
  <2> QED
    BY <1>4, <2>1, <2>2, <2>3, <2>4, <2>5, <2>6, <2>7 DEF UnionKeys
<1>12. SameForm(mw, mr) /\ mw.m # "Array"
  BY <1>6 DEF SameForm, SameShape, Innermost, LenType
<1>13. ASSUME NEW v \in ValuesOf[w], NEW b, NEW c, Twin(b, c)
       PROVE  Twin(Serialized(mw, b, v, kind, e), Serialized(mr, c, ViewOf(w, r, v), kind, e))
  <2> DEFINE u == [d |-> LabelOf(w, v), v |-> UnionView(w, r, v)]
  <2>1. UnionHolds(w, v) /\ ViewOf(w, r, v) = u
    BY <1>3 DEF ViewOf
  <2> HIDE DEF u
  <2>2. u = [d |-> LabelOf(w, v), v |-> UnionView(w, r, v)]
    BY DEF u
  <2>3. CASE w.ext = "appendable"
    <3>1. /\ Serialized(mw, b, v, kind, e) = SerializeDelimitedUnion(mw, b, v, kind)
          /\ Serialized(mr, c, u, kind, e) = SerializeDelimitedUnion(mr, c, u, kind)
      BY <1>6, <2>3 DEF Serialized
    <3>2. UnionKeys(mw, mr, w, r, "InKeylist", "InKeylist")
      BY <1>11, <2>3 DEF inside, outside
    <3>3. Twin(SerializeDelimitedUnion(mw, b, v, kind), SerializeDelimitedUnion(mr, c, u, kind))
      BY <1>13, <2>1, <2>2, <3>2, TwinDelimitedUnions
    <3> QED
      BY <2>1, <3>1, <3>3
  <2>4. CASE w.ext # "appendable"
    <3>1. /\ Serialized(mw, b, v, kind, e) = SerializeUnion(mw, b, v, kind, e, "Never")
          /\ Serialized(mr, c, u, kind, e) = SerializeUnion(mr, c, u, kind, e, "Never")
      BY <1>6, <2>4 DEF Serialized
    <3>2. UnionKeys(mw, mr, w, r, e, "Never")
      BY <1>11, <2>4 DEF inside, outside
    <3>3. Twin(SerializeUnion(mw, b, v, kind, e, "Never"), SerializeUnion(mr, c, u, kind, e, "Never"))
      BY <1>13, <2>1, <2>2, <3>2, TwinUnions
    <3> QED
      BY <2>1, <3>1, <3>3
  <2> QED
    BY <2>3, <2>4
<1>14. MachinesTwin(mw, mr, w, r, e)
  BY <1>13 DEF MachinesTwin, TwinAt
<1> QED
  BY <1>12, <1>14 DEF mw, mr

\* One pair of members that are in the key.
LEMMA KeyPart ==
  ASSUME NEW w, w.k = "struct", NEW r, NEW e, PartsTwin(w, r, e), NEW x \in KeyMembers(w, e), NEW y \in KeyMembers(r, e),
         x.id = y.id
  PROVE  LET f == "InKeylistOrKeyless"
         IN  /\ <<InMember(w, x), InMember(r, y), f>> \in Keyed
             /\ Twins(InMember(w, x), InMember(r, y), f) /\ PairsTwin(InMember(w, x), InMember(r, y), f)
<1> DEFINE f == "InKeylistOrKeyless"
           p == <<x, y>>
           P == {q \in KeyMembers(w, e) \X KeyMembers(r, e) : q[1].id = q[2].id}
<1>1. p[1] = x /\ p[2] = y
  OBVIOUS
<1>2. p \in P
  BY <1>1
<1>3. PartsInKey(w, r, e) = {<<InMember(w, q[1]), InMember(r, q[2]), f>> : q \in P}
  BY DEF PartsInKey
<1> HIDE DEF p, P
<1>4. <<InMember(w, x), InMember(r, y), f>> \in PartsInKey(w, r, e)
  BY <1>1, <1>2, <1>3
<1> HIDE DEF f
<1>5. <<InMember(w, x), InMember(r, y), f>> \in Keyed /\ Twins(InMember(w, x), InMember(r, y), f)
      /\ PairsTwin(InMember(w, x), InMember(r, y), f)
  BY <1>4, PartTwins
<1> QED
  BY <1>5 DEF f

LEMMA TwinsStruct ==
  ASSUME Recursion, ViewRecursion, NEW w, NEW r, <<w, r>> \in Readable[2], w.k = "struct", w.ext # "mutable",
         NEW e, SameKey(w, r, e), PartsTwin(w, r, e)
  PROVE  PairsTwin(w, r, e)
<1>0. 2 \in Versions
  BY DEF Versions
<1>1. w \in Descs /\ r \in Descs /\ Alike(w, r, 2) /\ IsDescription(w) /\ IsDescription(r)
  BY <1>0, PairFacts
<1>2. r.k = "struct" /\ AlikeStructs(w, r, 2)
  BY <1>1 DEF Alike
<1>3. w.ext = r.ext /\ \A i \in DOMAIN w.members \cap DOMAIN r.members : w.members[i].id = r.members[i].id
  BY <1>2 DEF AlikeStructs
<1> SUFFICES ASSUME NEW id, NEW header
             PROVE  /\ BuiltMachine(w, id, header, TRUE).m # "Array"
                    /\ SameForm(BuiltMachine(w, id, header, TRUE), BuiltMachine(r, id, header, TRUE))
                    /\ MachinesTwin(BuiltMachine(w, id, header, TRUE), BuiltMachine(r, id, header, TRUE), w, r, e)
  BY TwinsBy
<1> DEFINE mw == BuiltMachine(w, id, header, TRUE)
           mr == BuiltMachine(r, id, header, TRUE)
           kind == "KeyNormalized"
           f == "InKeylistOrKeyless"
           class == IF w.ext = "appendable" THEN "Delimited" ELSE "Struct"
           N == Len(w.members)
           K == Len(r.members)
<1>4. /\ mw = [m |-> class, keys |-> w.keys, members |-> [i \in DOMAIN w.members |-> PlainMember(w.members[i], TRUE)]]
      /\ mr = [m |-> class, keys |-> r.keys, members |-> [i \in DOMAIN r.members |-> PlainMember(r.members[i], TRUE)]]
  BY <1>2, <1>3 DEF BuiltMachine, StructMachineFor
<1> HIDE DEF mw, mr
<1>5. /\ mw.m = class /\ mw.keys = w.keys /\ mw.members = [i \in DOMAIN w.members |-> PlainMember(w.members[i], TRUE)]
      /\ mr.m = class /\ mr.keys = r.keys /\ mr.members = [i \in DOMAIN r.members |-> PlainMember(r.members[i], TRUE)]
  BY <1>4
<1>6. PlainOnes(mw, w, TRUE)
  BY <1>1, <1>5, PlainMembers
<1>7. PlainOnes(mr, r, TRUE)
  BY <1>1, <1>2, <1>5, PlainMembers
<1>8. /\ DOMAIN w.members = 1 .. N /\ DOMAIN r.members = 1 .. K /\ N \in Nat /\ K \in Nat
      /\ \A i \in 1 .. N : mw.members[i].machine = MachineFor(w.members[i].type, w.members[i].id, TRUE, TRUE)
      /\ \A i \in 1 .. K : mr.members[i].machine = MachineFor(r.members[i].type, r.members[i].id, TRUE, TRUE)
  BY <1>6, <1>7 DEF PlainOnes
<1> HIDE DEF class, N, K
<1>9. /\ \A i \in 1 .. N : w.members[i] \in KeyMembers(w, e) <=> Picked(w, i, e)
      /\ \A i \in 1 .. K : r.members[i] \in KeyMembers(r, e) <=> Picked(r, i, e)
  BY <1>8 DEF KeyMembers, Picked, ToSet
<1>10. {i \in 1 .. N : Picked(w, i, e)} = {i \in 1 .. K : Picked(r, i, e)}
  <2>1. {i \in 1 .. N : w.members[i] \in KeyMembers(w, e)} = {i \in 1 .. K : r.members[i] \in KeyMembers(r, e)}
    BY <1>8 DEF SameKey
  <2> QED
    BY <1>9, <2>1
<1>11. ASSUME NEW i \in 1 .. N, i <= K, Picked(w, i, e)
       PROVE  /\ w.members[i].id = r.members[i].id
              /\ Doubles(mw.members[i].machine, mr.members[i].machine, w.members[i].type, r.members[i].type, f)
  <2> DEFINE x == w.members[i]
             y == r.members[i]
  <2>1. i \in 1 .. K /\ x.id = y.id
    BY <1>3, <1>8, <1>11
  <2>2. Picked(r, i, e)
    BY <1>10, <1>11
  <2>3. x \in KeyMembers(w, e) /\ y \in KeyMembers(r, e)
    BY <1>9, <1>11, <2>1, <2>2
  <2>4. mw.members[i].machine = MachineFor(x.type, x.id, TRUE, TRUE) /\ mr.members[i].machine = MachineFor(y.type, y.id, TRUE, TRUE)
    BY <1>8, <2>1
  <2> HIDE DEF x, y, f
  <2>5. InMember(w, x) = x.type /\ InMember(r, y) = y.type
    BY <1>3 DEF InMember
  <2>6. PairsTwin(x.type, y.type, f)
    BY <2>1, <2>3, <2>5, KeyPart DEF f
  <2>7. Doubles(MachineFor(x.type, x.id, TRUE, TRUE), MachineFor(y.type, x.id, TRUE, TRUE), x.type, y.type, f)
    BY <2>6 DEF PairsTwin, TwinPair
  <2>8. Doubles(mw.members[i].machine, mr.members[i].machine, x.type, y.type, f)
    BY <2>1, <2>4, <2>7
  <2> QED
    BY <2>1, <2>8 DEF x, y
<1>12. StructKeys(mw, mr, w, r, e)
  BY <1>5, <1>6, <1>7, <1>10, <1>11 DEF StructKeys, N, K
<1>13. SameForm(mw, mr) /\ mw.m # "Array"
  BY <1>5 DEF SameForm, SameShape, Innermost, LenType, class
<1>14. ASSUME NEW v \in ValuesOf[w], NEW b, NEW c, Twin(b, c)
       PROVE  Twin(Serialized(mw, b, v, kind, e), Serialized(mr, c, ViewOf(w, r, v), kind, e))
  <2> DEFINE u == [name \in Names(r) |-> MemberView(w, MemberNamed(r, name), v)]
  <2>1. ViewOf(w, r, v) = u
    BY DEF ViewOf
  <2>2. StructValue(w, v)
    <3>1. IsValue(w, v)
      BY <1>1, ValuesAssumption
    <3>2. \A i \in 1 .. N : w.members[i] \in ToSet(w.members)
      BY <1>8 DEF ToSet
    <3> QED
      BY <3>1, <3>2 DEF IsValue, StructValue, N
  <2> HIDE DEF u
  <2>3. u = [name \in Names(r) |-> MemberView(w, MemberNamed(r, name), v)]
    BY DEF u
  <2>4. CASE w.ext = "appendable"
    <3>1. /\ Serialized(mw, b, v, kind, e) = SerializeDelimited(mw, b, v, kind, e)
          /\ Serialized(mr, c, u, kind, e) = SerializeDelimited(mr, c, u, kind, e)
      BY <1>5, <2>4 DEF Serialized, class
    <3>2. Twin(SerializeDelimited(mw, b, v, kind, e), SerializeDelimited(mr, c, u, kind, e))
      BY <1>12, <1>14, <2>2, <2>3, TwinDelimiteds
    <3> QED
      BY <2>1, <3>1, <3>2
  <2>5. CASE w.ext # "appendable"
    <3>1. /\ Serialized(mw, b, v, kind, e) = SerializeMembers(mw, b, v, kind, e)
          /\ Serialized(mr, c, u, kind, e) = SerializeMembers(mr, c, u, kind, e)
      BY <1>5, <2>5 DEF Serialized, class
    <3>2. Twin(SerializeMembers(mw, b, v, kind, e), SerializeMembers(mr, c, u, kind, e))
      BY <1>12, <1>14, <2>2, <2>3, TwinMembers
    <3> QED
      BY <2>1, <3>1, <3>2
  <2> QED
    BY <2>4, <2>5
<1>15. MachinesTwin(mw, mr, w, r, e)
  BY <1>14 DEF MachinesTwin, TwinAt
<1> QED
  BY <1>13, <1>15 DEF mw, mr

\* A member of a mutable struct, seen by the other version.
SeenAlike(x, y, p, f) ==
  LET q == View(x.type, y.type, p)
  IN  /\ x.type.k = "opt" <=> y.type.k = "opt"
      /\ x.type.k = "opt" => (p = None <=> q = None)
      /\ ~(x.type.k = "opt" /\ p = None) => p \in ValuesOf[Inner(x.type)] /\ q = View(Inner(x.type), Inner(y.type), p)
      /\ PairsTwin(Inner(x.type), Inner(y.type), f)

LEMMA MemberAlike ==
  ASSUME Recursion, ViewRecursion, NEW w, NEW r, <<w, r>> \in Readable[2], w.k = "struct", w.ext = "mutable",
         NEW e, PartsTwin(w, r, e), NEW x \in KeyMembers(w, e), NEW y \in KeyMembers(r, e), x.id = y.id,
         NEW v \in ValuesOf[w]
  PROVE  SeenAlike(x, y, v[x.name], "InKeylistOrKeyless")
<1> DEFINE f == "InKeylistOrKeyless"
           t == x.type
           u == y.type
           p == v[x.name]
           q == View(t, u, p)
<1>0. 2 \in Versions
  BY DEF Versions
<1>1. /\ w \in Descs /\ r \in Descs /\ Alike(w, r, 2) /\ IsDescription(w)
      /\ \A z \in Parts(w) : z \in Descs
      /\ \A z \in PartsReadAs(w, r) : z \in Readable[2]
  BY <1>0, PairFacts
<1>2. r.k = "struct" /\ r.ext = "mutable"
  BY <1>1 DEF Alike, AlikeStructs
<1>3. x \in ToSet(w.members) /\ y \in ToSet(r.members)
  BY DEF KeyMembers
<1>4. t \in Descs /\ p \in ValuesOf[t]
  <2>1. t \in Parts(w)
    BY <1>3 DEF Parts
  <2>2. IsValue(w, v)
    BY <1>1, ValuesAssumption
  <2>3. p \in ValuesOf[t]
    BY <1>3, <2>2 DEF IsValue
  <2> QED
    BY <1>1, <2>1, <2>3
<1>5. <<t, u>> \in Readable[2]
  <2> DEFINE z == <<x, y>>
             P == {s \in ToSet(w.members) \X ToSet(r.members) : s[1].id = s[2].id}
  <2>1. z \in P /\ z[1].type = t /\ z[2].type = u
    BY <1>3
  <2>2. PartsReadAs(w, r) = {<<s[1].type, s[2].type>> : s \in P}
    BY DEF PartsReadAs
  <2> HIDE DEF z, P, t, u
  <2>3. <<t, u>> \in PartsReadAs(w, r)
    BY <2>1, <2>2
  <2> QED
    BY <1>1, <2>3
<1>6. t.k = u.k
  <2> HIDE DEF t, u
  <2>1. Alike(t, u, 2)
    BY <1>0, <1>5, PairFacts
  <2> QED
    BY <2>1 DEF Alike
<1>7. InMember(w, x) = Inner(t) /\ InMember(r, y) = Inner(u)
  BY <1>2, <1>6 DEF InMember, Inner
<1>8. Twins(Inner(t), Inner(u), f) /\ PairsTwin(Inner(t), Inner(u), f)
  <2>1. /\ Twins(InMember(w, x), InMember(r, y), f)
        /\ PairsTwin(InMember(w, x), InMember(r, y), f)
    BY KeyPart
  <2> HIDE DEF t, u, f
  <2> QED
    BY <1>7, <2>1
<1> HIDE DEF t, u, f, p
<1>9. t.k = "opt" => p \in {None} \cup ValuesOf[t.of] /\ q = IF p = None THEN None ELSE View(t.of, u.of, p)
  <2>1. IsValue(t, p)
    BY <1>4, ValuesAssumption
  <2>2. q = ViewOf(t, u, p)
    BY DEF ViewRecursion
  <2>3. t.k = "opt" => q = IF p = None THEN None ELSE View(t.of, u.of, p)
    BY <2>2 DEF ViewOf
  <2> QED
    BY <2>1, <2>3 DEF IsValue
<1>10. t.k = "opt" => (p = None <=> q = None)
  <2>1. \A z \in ValuesOf[Inner(t)] : z # None => View(Inner(t), Inner(u), z) # None
    BY <1>8 DEF Twins, SomeSeen
  <2>2. t.k = "opt" => Inner(t) = t.of /\ Inner(u) = u.of
    BY <1>6 DEF Inner
  <2> QED
    BY <1>9, <2>1, <2>2
<1>11. ~(t.k = "opt" /\ p = None) => p \in ValuesOf[Inner(t)] /\ q = View(Inner(t), Inner(u), p)
  BY <1>4, <1>6, <1>9 DEF Inner
<1> QED
  BY <1>6, <1>8, <1>10, <1>11 DEF SeenAlike, t, u, f, p

\* Whose mark is in one key is in the other.
LEMMA KeyPartner ==
  ASSUME NEW w, w.k = "struct", NEW r, NEW e, SameKey(w, r, e)
  PROVE  /\ \A x \in KeyMembers(w, e) : \E y \in KeyMembers(r, e) : y.id = x.id /\ y.mu = x.mu
         /\ \A y \in KeyMembers(r, e) : \E x \in KeyMembers(w, e) : y.id = x.id /\ y.mu = x.mu
<1>1. \A s, t : Marks(s) = Marks(t) => \A x \in s : \E y \in t : y.id = x.id /\ y.mu = x.mu
  <2> SUFFICES ASSUME NEW s, NEW t, Marks(s) = Marks(t), NEW x \in s PROVE \E y \in t : y.id = x.id /\ y.mu = x.mu
    OBVIOUS
  <2>1. <<x.id, x.mu>> \in Marks(t)
    BY DEF Marks
  <2>2. PICK y \in t : <<x.id, x.mu>> = <<y.id, y.mu>>
    BY <2>1 DEF Marks
  <2> QED
    BY <2>2
<1>2. Marks(KeyMembers(w, e)) = Marks(KeyMembers(r, e))
  BY DEF SameKey
<1> QED
  BY <1>1, <1>2

\* The machine of a mutable struct and the struct: member by member.
Matched(m, t, N) ==
  /\ Distinct(t.members) /\ Len(m.members) = N /\ DOMAIN m.members = 1 .. N /\ N \in Nat /\ DOMAIN t.members = 1 .. N
  /\ ToSet(m.members) = {m.members[i] : i \in 1 .. N} /\ Apart(m.members, N) /\ m.keys = t.keys
  /\ \A i \in 1 .. N : MadeFor(m.members[i], t.members[i], TRUE) /\ t.members[i] \in ToSet(t.members)

LEMMA MutableMatched ==
  ASSUME Recursion, NEW t \in Descs, t.k = "struct", NEW m, m.keys = t.keys, NEW N, N = Len(t.members),
         m.members = [i \in DOMAIN t.members |-> MutableMember(t.members[i], TRUE)]
  PROVE  Matched(m, t, N)
<1>1. IsDescription(t) /\ \A x \in Parts(t) : x \in Descs /\ IsDescription(x)
  BY TypesAssumption
<1>2. \A i \in DOMAIN t.members : t.members[i] \in ToSet(t.members) /\ IsDescription(t.members[i].type)
  BY <1>1 DEF ToSet, Parts
<1>3. MutableOnes(m, t, TRUE)
  BY <1>1, <1>2, MutableMachines
<1>4. /\ Distinct(t.members) /\ Len(m.members) = N /\ DOMAIN m.members = 1 .. N /\ N \in Nat /\ DOMAIN t.members = 1 .. N
      /\ \A i \in 1 .. N : MadeFor(m.members[i], t.members[i], TRUE)
  BY <1>3 DEF MutableOnes
<1>5. \A i \in 1 .. N : t.members[i].id \in Nat
  BY <1>1, <1>4 DEF IsDescription
<1>6. ToSet(m.members) = {m.members[i] : i \in 1 .. N}
  BY <1>4 DEF ToSet
<1>7. \A i \in 1 .. N : m.members[i].id = t.members[i].id
  BY <1>4 DEF MadeFor, MemberOf
<1>8. \A i, j \in 1 .. N : i # j => m.members[i].id # m.members[j].id
  BY <1>4, <1>7 DEF Distinct
<1>9. m.members \in [1 .. N -> ToSet(m.members)]
  <2>1. m.members = [i \in 1 .. N |-> m.members[i]]
    BY <1>4
  <2> QED
    BY <1>6, <2>1
<1> QED
  BY <1>2, <1>4, <1>5, <1>6, <1>7, <1>8, <1>9 DEF Matched, Apart

LEMMA TwinsMutable ==
  ASSUME Recursion, ViewRecursion, NEW w, NEW r, <<w, r>> \in Readable[2], w.k = "struct", w.ext = "mutable",
         NEW e, SameKey(w, r, e), PartsTwin(w, r, e)
  PROVE  PairsTwin(w, r, e)
<1>0. 2 \in Versions
  BY DEF Versions
<1>1. w \in Descs /\ r \in Descs /\ Alike(w, r, 2)
  BY <1>0, PairFacts
<1>2. r.k = "struct" /\ r.ext = "mutable"
  BY <1>1 DEF Alike, AlikeStructs
<1> SUFFICES ASSUME NEW id, NEW header
             PROVE  /\ BuiltMachine(w, id, header, TRUE).m # "Array"
                    /\ SameForm(BuiltMachine(w, id, header, TRUE), BuiltMachine(r, id, header, TRUE))
                    /\ MachinesTwin(BuiltMachine(w, id, header, TRUE), BuiltMachine(r, id, header, TRUE), w, r, e)
  BY TwinsBy
<1> DEFINE mw == BuiltMachine(w, id, header, TRUE)
           mr == BuiltMachine(r, id, header, TRUE)
           kind == "KeyNormalized"
           f == "InKeylistOrKeyless"
           N == Len(w.members)
           K == Len(r.members)
<1>3. /\ mw = [m |-> "Mutable", v2 |-> TRUE, keys |-> w.keys,
               members |-> [i \in DOMAIN w.members |-> MutableMember(w.members[i], TRUE)]]
      /\ mr = [m |-> "Mutable", v2 |-> TRUE, keys |-> r.keys,
               members |-> [i \in DOMAIN r.members |-> MutableMember(r.members[i], TRUE)]]
  BY <1>2 DEF BuiltMachine, StructMachineFor
<1> HIDE DEF mw, mr
<1>4. /\ mw.m = "Mutable" /\ mw.v2 /\ mw.keys = w.keys
      /\ mw.members = [i \in DOMAIN w.members |-> MutableMember(w.members[i], TRUE)]
      /\ mr.m = "Mutable" /\ mr.v2 /\ mr.keys = r.keys
      /\ mr.members = [i \in DOMAIN r.members |-> MutableMember(r.members[i], TRUE)]
  BY <1>3
<1>5. Matched(mw, w, N) /\ Matched(mr, r, K)
  BY <1>1, <1>2, <1>4, MutableMatched
<1> HIDE DEF N, K
<1>6. SameForm(mw, mr) /\ mw.m # "Array"
  BY <1>4 DEF SameForm, SameShape, Innermost, LenType
<1>7. ASSUME NEW v \in ValuesOf[w], NEW u, u = [name \in Names(r) |-> MemberView(w, MemberNamed(r, name), v)]
      PROVE  MutableKeys(mw, mr, v, u, e)
  <2>1. /\ \A x \in ToSet(mw.members) : \E i \in 1 .. N : x = mw.members[i]
        /\ \A y \in ToSet(mr.members) : \E j \in 1 .. K : y = mr.members[j]
        /\ \A x \in KeyMembers(w, e) : \E i \in 1 .. N : x = w.members[i]
        /\ \A y \in KeyMembers(r, e) : \E j \in 1 .. K : y = r.members[j]
    BY <1>5 DEF Matched, KeyMembers, ToSet
  <2>2. ASSUME NEW i \in 1 .. N
        PROVE  /\ mw.members[i] \in ToSet(mw.members) /\ MadeFor(mw.members[i], w.members[i], TRUE)
               /\ SentIn(mw, mw.members[i], v, e)
                    <=> w.members[i] \in KeyMembers(w, e) /\ Goes(w.members[i], v)
    BY <1>5 DEF Matched, KeyMembers, SentIn, Goes, MadeFor, MemberOf
  <2>3. ASSUME NEW j \in 1 .. K
        PROVE  /\ mr.members[j] \in ToSet(mr.members) /\ MadeFor(mr.members[j], r.members[j], TRUE)
               /\ SentIn(mr, mr.members[j], u, e)
                    <=> r.members[j] \in KeyMembers(r, e) /\ Goes(r.members[j], u)
    BY <1>5 DEF Matched, KeyMembers, SentIn, Goes, MadeFor, MemberOf
  <2>4. ASSUME NEW i \in 1 .. N, NEW j \in 1 .. K, w.members[i].id = r.members[j].id
        PROVE  u[r.members[j].name] = View(w.members[i].type, r.members[j].type, v[w.members[i].name])
    <3>1. Met(w, r, v) /\ N = Len(w.members) /\ K = Len(r.members)
      BY <1>5, MembersMet DEF Matched, N, K
    <3>2. /\ r.members[j].name \in Names(r) /\ MemberNamed(r, r.members[j].name) = r.members[j]
          /\ MemberView(w, r.members[j], v) = View(w.members[i].type, r.members[j].type, v[w.members[i].name])
      BY <2>4, <3>1 DEF Met
    <3> QED
      BY <1>7, <3>2
  <2>5. ASSUME NEW i \in 1 .. N, NEW j \in 1 .. K, w.members[i].id = r.members[j].id,
               w.members[i] \in KeyMembers(w, e), r.members[j] \in KeyMembers(r, e)
        PROVE  /\ Goes(w.members[i], v) <=> Goes(r.members[j], u)
               /\ Goes(w.members[i], v) => MemberPair(mw.members[i], mr.members[j], v, u)
    <3> DEFINE x == w.members[i]
               y == r.members[j]
               s == mw.members[i]
               t == mr.members[j]
               p == v[x.name]
               d == IF x.type.k = "opt" THEN None ELSE x.id
    <3>1. SeenAlike(x, y, p, f)
      BY <1>7, <2>5, MemberAlike
    <3>2. MadeFor(s, x, TRUE) /\ MadeFor(t, y, TRUE) /\ x.id = y.id
      BY <2>2, <2>3, <2>5
    <3>3. u[y.name] = View(x.type, y.type, p)
      BY <2>4, <2>5
    <3>4. x.mu = y.mu
      <4>1. PICK z \in KeyMembers(r, e) : z.id = x.id /\ z.mu = x.mu
        BY <2>5, KeyPartner
      <4>2. PICK k \in 1 .. K : z = r.members[k]
        BY <2>1
      <4>3. k = j
        BY <1>5, <2>5, <4>1, <4>2 DEF Matched, Distinct
      <4> QED
        BY <4>1, <4>2, <4>3
    <3> HIDE DEF x, y, s, t, f
    <3>5. /\ x.type.k = "opt" <=> y.type.k = "opt"
          /\ x.type.k = "opt" => (p = None <=> u[y.name] = None)
          /\ ~(x.type.k = "opt" /\ p = None) =>
               p \in ValuesOf[Inner(x.type)] /\ u[y.name] = View(Inner(x.type), Inner(y.type), p)
          /\ PairsTwin(Inner(x.type), Inner(y.type), f)
      BY <3>1, <3>3 DEF SeenAlike
    <3>6. Goes(x, v) <=> Goes(y, u)
      BY <3>5 DEF Goes
    <3>7. /\ s.name = x.name /\ t.name = y.name /\ s.id = t.id /\ s.mu = t.mu
          /\ s.machine = MachineFor(Inner(x.type), d, TRUE, TRUE) /\ s.lentype = LenType(s.machine)
          /\ t.machine = MachineFor(Inner(y.type), d, TRUE, TRUE) /\ t.lentype = LenType(t.machine)
      BY <3>2, <3>4, <3>5 DEF MadeFor, MemberOf
    <3> HIDE DEF d
    <3>8. SameForm(s.machine, t.machine) /\ Doubles(s.machine, t.machine, Inner(x.type), Inner(y.type), f)
      BY <3>5, <3>7 DEF PairsTwin, TwinPair
    <3>9. Goes(x, v) => MemberPair(s, t, v, u)
      <4> SUFFICES ASSUME Goes(x, v) PROVE MemberPair(s, t, v, u)
        OBVIOUS
      <4>1. p \in ValuesOf[Inner(x.type)] /\ u[y.name] = View(Inner(x.type), Inner(y.type), p)
        BY <3>5 DEF Goes
      <4>2. s.lentype = t.lentype
        BY <3>7, <3>8 DEF SameForm
      <4>3. ASSUME NEW b, NEW c, Twin(b, c)
            PROVE  Twin(Serialize(s.machine, b, v[s.name], kind, f), Serialize(t.machine, c, u[t.name], kind, f))
        BY <3>7, <3>8, <4>1, <4>3 DEF Doubles
      <4> QED
        BY <3>7, <4>2, <4>3 DEF MemberPair, f
    <3> QED
      BY <3>6, <3>9 DEF x, y, s, t
  <2>6. ASSUME NEW i \in 1 .. N, w.members[i] \in KeyMembers(w, e)
        PROVE  \E j \in 1 .. K : r.members[j] \in KeyMembers(r, e) /\ r.members[j].id = w.members[i].id
    BY <2>1, <2>6, KeyPartner
  <2>7. ASSUME NEW j \in 1 .. K, r.members[j] \in KeyMembers(r, e)
        PROVE  \E i \in 1 .. N : w.members[i] \in KeyMembers(w, e) /\ w.members[i].id = r.members[j].id
    BY <2>1, <2>7, KeyPartner
  <2>8. /\ \A i \in 1 .. N : mw.members[i].id = w.members[i].id
        /\ \A j \in 1 .. K : mr.members[j].id = r.members[j].id
    BY <2>2, <2>3 DEF MadeFor, MemberOf
  <2>9. ASSUME NEW x \in ToSet(mw.members), SentIn(mw, x, v, e)
        PROVE  \E y \in ToSet(mr.members) : y.id = x.id /\ SentIn(mr, y, u, e)
    <3>1. PICK i \in 1 .. N : x = mw.members[i]
      BY <2>1
    <3>2. w.members[i] \in KeyMembers(w, e) /\ Goes(w.members[i], v)
      BY <2>2, <2>9, <3>1
    <3>3. PICK j \in 1 .. K : r.members[j] \in KeyMembers(r, e) /\ r.members[j].id = w.members[i].id
      BY <2>6, <3>2
    <3>4. mr.members[j] \in ToSet(mr.members) /\ SentIn(mr, mr.members[j], u, e)
      BY <2>3, <2>5, <3>2, <3>3
    <3> QED
      BY <2>8, <3>1, <3>3, <3>4
  <2>10. ASSUME NEW y \in ToSet(mr.members), SentIn(mr, y, u, e)
         PROVE  \E x \in ToSet(mw.members) : x.id = y.id /\ SentIn(mw, x, v, e)
    <3>1. PICK j \in 1 .. K : y = mr.members[j]
      BY <2>1
    <3>2. r.members[j] \in KeyMembers(r, e) /\ Goes(r.members[j], u)
      BY <2>3, <2>10, <3>1
    <3>3. PICK i \in 1 .. N : w.members[i] \in KeyMembers(w, e) /\ w.members[i].id = r.members[j].id
      BY <2>7, <3>2
    <3>4. mw.members[i] \in ToSet(mw.members) /\ SentIn(mw, mw.members[i], v, e)
      BY <2>2, <2>5, <3>2, <3>3
    <3> QED
      BY <2>8, <3>1, <3>3, <3>4
  <2>11. ASSUME NEW x \in ToSet(mw.members), NEW y \in ToSet(mr.members), x.id = y.id,
                SentIn(mw, x, v, e), SentIn(mr, y, u, e)
         PROVE  MemberPair(x, y, v, u)
    <3>1. PICK i \in 1 .. N : x = mw.members[i]
      BY <2>1
    <3>2. PICK j \in 1 .. K : y = mr.members[j]
      BY <2>1
    <3>3. /\ w.members[i] \in KeyMembers(w, e) /\ Goes(w.members[i], v) /\ r.members[j] \in KeyMembers(r, e)
          /\ w.members[i].id = r.members[j].id
      BY <2>2, <2>3, <2>8, <2>11, <3>1, <3>2
    <3> QED
      BY <2>5, <3>1, <3>2, <3>3
  <2>12. /\ Len(mw.members) \in Nat /\ Apart(mw.members, Len(mw.members))
         /\ Len(mr.members) \in Nat /\ Apart(mr.members, Len(mr.members))
    BY <1>5 DEF Matched
  <2> QED
    BY <1>4, <2>9, <2>10, <2>11, <2>12 DEF MutableKeys
<1>8. ASSUME NEW v \in ValuesOf[w], NEW b, NEW c, Twin(b, c)
      PROVE  Twin(Serialized(mw, b, v, kind, e), Serialized(mr, c, ViewOf(w, r, v), kind, e))
  <2> DEFINE u == [name \in Names(r) |-> MemberView(w, MemberNamed(r, name), v)]
  <2>1. ViewOf(w, r, v) = u
    BY DEF ViewOf
  <2>2. MutableKeys(mw, mr, v, u, e)
    BY <1>7
  <2> HIDE DEF u
  <2>3. /\ Serialized(mw, b, v, kind, e) = SerializeMutable(mw, b, v, kind, e)
        /\ Serialized(mr, c, u, kind, e) = SerializeMutable(mr, c, u, kind, e)
    BY <1>4 DEF Serialized
  <2>4. Twin(SerializeMutable(mw, b, v, kind, e), SerializeMutable(mr, c, u, kind, e))
    BY <1>8, <2>2, TwinMutables
  <2> QED
    BY <2>1, <2>3, <2>4
<1>9. MachinesTwin(mw, mr, w, r, e)
  BY <1>8 DEF MachinesTwin, TwinAt
<1> QED
  BY <1>6, <1>9 DEF mw, mr

\* No value but None is seen as None.
LEMMA NoneAlone ==
  ASSUME ViewRecursion
  PROVE  \A p \in Readable[2] : SomeSeen(p[1], p[2])
<1>0. 2 \in Versions
  BY DEF Versions
<1> DEFINE Seen2(n) == \A p \in Readable[2] : Depth[p[1]] < n => SomeSeen(p[1], p[2])
           T == {n \in Nat : Seen2(n)}
<1>1. ASSUME NEW p \in Readable[2] PROVE Depth[p[1]] \in Nat
  <2>1. p[1] \in Descs
    BY <1>0, ReadableAssumption
  <2> QED
    BY <2>1, TypesAssumption
<1>2. ASSUME NEW p \in Readable[2], Seen2(Depth[p[1]]) PROVE SomeSeen(p[1], p[2])
  <2> DEFINE w == p[1]
             r == p[2]
  <2>1. w \in Descs /\ Alike(w, r, 2) /\ \A q \in PartsReadAs(w, r) : q \in Readable[2]
    BY <1>0, ReadableAssumption
  <2>2. CASE w.k # "opt"
    BY <1>0, <2>2, NoneAssumption DEF SomeSeen
  <2>3. CASE w.k = "opt"
    <3> DEFINE q == <<w.of, r.of>>
    <3> HIDE DEF w, r
    <3>1. q \in PartsReadAs(w, r) /\ q[1] = w.of /\ q[2] = r.of
      BY <2>3 DEF PartsReadAs
    <3>2. w.of \in Parts(w)
      BY <2>3 DEF Parts
    <3>3. Depth[w.of] < Depth[w]
      BY <2>1, <3>2, TypesAssumption
    <3>4. q \in Readable[2] /\ Depth[q[1]] < Depth[w]
      BY <2>1, <3>1, <3>3
    <3> HIDE DEF q
    <3>5. SomeSeen(w.of, r.of)
      BY <1>2, <3>1, <3>4 DEF w
    <3>6. \A v \in ValuesOf[w] : v \in {None} \cup ValuesOf[w.of]
      BY <2>1, <2>3, ValuesAssumption DEF IsValue
    <3>7. \A v : View(w, r, v) = IF v = None THEN None ELSE View(w.of, r.of, v)
      BY <2>3 DEF ViewRecursion, ViewOf
    <3>8. SomeSeen(w, r)
      BY <3>5, <3>6, <3>7 DEF SomeSeen
    <3> QED
      BY <3>8 DEF w, r
  <2> QED
    BY <2>2, <2>3
<1>3. 0 \in T
  <2>1. \A p \in Readable[2] : ~(Depth[p[1]] < 0)
    BY <1>1
  <2> QED
    BY <2>1
<1>4. \A n \in T : n + 1 \in T
  <2> SUFFICES ASSUME NEW n \in Nat, Seen2(n), NEW p \in Readable[2], Depth[p[1]] < n + 1
               PROVE  SomeSeen(p[1], p[2])
    OBVIOUS
  <2>1. \A q \in Readable[2] : Depth[q[1]] < Depth[p[1]] => Depth[q[1]] < n
    BY <1>1
  <2>2. Seen2(Depth[p[1]])
    BY <2>1
  <2> HIDE DEF Seen2
  <2> QED
    BY <1>2, <2>2
<1> HIDE DEF T
<1>5. T = Nat
  BY <1>3, <1>4, SetInduction DEF T
<1>6. ASSUME NEW p \in Readable[2] PROVE SomeSeen(p[1], p[2])
  <2>1. Depth[p[1]] \in Nat
    BY <1>1
  <2>2. Depth[p[1]] + 1 \in T /\ Depth[p[1]] < Depth[p[1]] + 1
    BY <1>5, <2>1
  <2> QED
    BY <2>2 DEF T
<1> QED
  BY <1>6

\* A type and its other version stand for one another in a key when their parts do.
LEMMA PairTwins ==
  ASSUME Recursion, ViewRecursion, NEW w, NEW r, <<w, r>> \in Readable[2], NEW e, SameKey(w, r, e), PartsTwin(w, r, e)
  PROVE  Twins(w, r, e)
<1>0. 2 \in Versions
  BY DEF Versions
<1>1. /\ w \in Descs /\ r \in Descs /\ Alike(w, r, 2) /\ IsDescription(w)
      /\ \A x \in Parts(w) : x \in Descs
  BY <1>0, PairFacts
<1>2. r.k = w.k /\ (w.k = "array" => w.len = r.len) /\ (w.k = "seq" => w.max = r.max)
  BY <1>1 DEF Alike, SameKey
<1>3. SomeSeen(w, r)
  <2> DEFINE p == <<w, r>>
  <2>1. p[1] = w /\ p[2] = r
    OBVIOUS
  <2>2. SomeSeen(p[1], p[2])
    BY NoneAlone
  <2> QED
    BY <2>1, <2>2
<1>4. CASE w.k = "opt"
  <2>1. PairsTwin(w, r, e)
    BY <1>1, <1>2, <1>4, TwinsOptional
  <2> QED
    BY <1>3, <2>1 DEF Twins
<1>5. CASE w.k \in {"list", "seq", "array"}
  <2>1. <<w.of, r.of, e>> \in PartsInKey(w, r, e)
    BY <1>5 DEF PartsInKey
  <2>2. PairsTwin(w.of, r.of, e)
    BY <2>1, PartTwins
  <2>3. w.of \in Descs
    BY <1>1, <1>5 DEF Parts
  <2>4. w.k = "list" => PairsTwin(w, r, e)
    BY <1>1, <1>2, <2>2, TwinsList
  <2>5. w.k = "seq" => PairsTwin(w, r, e)
    BY <1>1, <1>2, <2>2, <2>3, TwinsSeq
  <2>6. w.k = "array" => PairsTwin(w, r, e)
    BY <1>1, <1>2, <2>2, <2>3, TwinsArray
  <2> QED
    BY <1>3, <1>5, <2>4, <2>5, <2>6 DEF Twins
<1>6. CASE w.k = "map"
  <2>1. <<w.key, r.key, e>> \in PartsInKey(w, r, e) /\ <<w.val, r.val, e>> \in PartsInKey(w, r, e)
    BY <1>6 DEF PartsInKey
  <2>2. PairsTwin(w.key, r.key, e) /\ PairsTwin(w.val, r.val, e)
    BY <2>1, PartTwins
  <2> QED
    BY <1>1, <1>2, <1>3, <1>6, <2>2, TwinsMap DEF Twins
<1>7. CASE w.k = "struct"
  <2>1. PairsTwin(w, r, e)
    BY <1>7, TwinsMutable, TwinsStruct
  <2> QED
    BY <1>3, <1>7, <2>1 DEF Twins
<1>8. CASE w.k = "union"
  BY <1>3, <1>8, TwinsUnion DEF Twins
<1>9. CASE w.k \in {"prim", "char", "string", "bytes", "enum", "bitmask"}
  BY <1>1, <1>3, <1>9, TwinsSimple DEF Twins
<1> QED
  BY <1>1, <1>4, <1>5, <1>6, <1>7, <1>8, <1>9 DEF IsDescription

\* What keys are made of is less deep the further in it is.
LEMMA PartsInKeyDeeper ==
  ASSUME NEW q \in Keyed, NEW z \in PartsInKey(q[1], q[2], q[3])
  PROVE  z \in Keyed /\ Depth[z[1]] \in Nat /\ Depth[q[1]] \in Nat /\ Depth[z[1]] < Depth[q[1]]
<1> DEFINE w == q[1]
           r == q[2]
           e == q[3]
<1>0. 2 \in Versions /\ <<w, r>> \in Readable[2] /\ PartsInKey(w, r, e) \subseteq Keyed
  BY KeyedAssumption DEF Versions
<1> HIDE DEF w, r, e
<1>1. \A t \in Descs : Depth[t] \in Nat /\ \A x \in Parts(t) : x \in Descs /\ Depth[x] < Depth[t]
  BY TypesAssumption
<1>2. w \in Descs
  BY <1>0, PairFacts
<1>3. z \in PartsInKey(w, r, e)
  BY DEF w, r, e
<1>4. z[1] \in Parts(w) \/ \E t \in Parts(w) : z[1] \in Parts(t)
  <2>1. CASE w.k = "opt"
    BY <1>3, <2>1 DEF PartsInKey, Parts
  <2>2. CASE w.k \in {"list", "seq", "array"}
    BY <1>3, <2>2 DEF PartsInKey, Parts
  <2>3. CASE w.k = "map"
    BY <1>3, <2>3 DEF PartsInKey, Parts
  <2>4. CASE w.k = "struct"
    <3>1. PICK p \in KeyMembers(w, e) \X KeyMembers(r, e) :
            z = <<InMember(w, p[1]), InMember(r, p[2]), "InKeylistOrKeyless">>
      BY <1>3, <2>4 DEF PartsInKey
    <3>2. z[1] = InMember(w, p[1]) /\ p[1].type \in Parts(w)
      BY <2>4, <3>1 DEF KeyMembers, Parts
    <3>3. z[1] = p[1].type \/ (p[1].type.k = "opt" /\ z[1] = p[1].type.of)
      BY <3>2 DEF InMember
    <3>4. p[1].type.k = "opt" => p[1].type.of \in Parts(p[1].type)
      BY DEF Parts
    <3> QED
      BY <3>2, <3>3, <3>4
  <2>5. CASE w.k = "union"
    <3> DEFINE inside == IF w.ext = "appendable" THEN "InKeylist" ELSE "Never"
               outside == IF w.ext = "appendable" THEN "InKeylist" ELSE e
    <3>1. \/ z = <<w.disc, r.disc, outside>>
          \/ \E label \in DOMAIN w.cases : z = <<w.cases[label], r.cases[label], inside>>
          \/ w.default # None /\ z = <<w.default, r.default, inside>>
      BY <1>3, <2>5 DEF PartsInKey
    <3> HIDE DEF inside, outside
    <3>2. z[1] = w.disc \/ (\E label \in DOMAIN w.cases : z[1] = w.cases[label]) \/ (w.default # None /\ z[1] = w.default)
      BY <3>1
    <3>3. z[1] \in Parts(w)
      BY <2>5, <3>2 DEF Parts
    <3> QED
      BY <3>3
  <2> QED
    BY <1>3, <2>1, <2>2, <2>3, <2>4, <2>5 DEF PartsInKey
<1>5. z[1] \in Descs /\ Depth[z[1]] < Depth[w]
  BY <1>1, <1>2, <1>4
<1> QED
  BY <1>0, <1>1, <1>2, <1>3, <1>5 DEF w

KeysShallow(n) == \A q \in Keyed : Depth[q[1]] < n => Twins(q[1], q[2], q[3])

\* The keys of two versions are written alike.
LEMMA AllTwins ==
  ASSUME Recursion, ViewRecursion
  PROVE  \A q \in Keyed : Twins(q[1], q[2], q[3])
<1> DEFINE T == {n \in Nat : KeysShallow(n)}
<1>1. ASSUME NEW q \in Keyed, KeysShallow(Depth[q[1]])
      PROVE  Twins(q[1], q[2], q[3])
  <2>1. <<q[1], q[2]>> \in Readable[2] /\ SameKey(q[1], q[2], q[3])
    BY KeyedAssumption
  <2>2. \A z \in PartsInKey(q[1], q[2], q[3]) : z \in Keyed /\ Depth[z[1]] < Depth[q[1]]
    BY PartsInKeyDeeper
  <2>3. PartsTwin(q[1], q[2], q[3])
    BY <1>1, <2>2 DEF PartsTwin, KeysShallow
  <2> QED
    BY <2>1, <2>3, PairTwins
<1>2. \A q \in Keyed : Depth[q[1]] \in Nat
  <2> SUFFICES ASSUME NEW q \in Keyed PROVE Depth[q[1]] \in Nat
    OBVIOUS
  <2>1. 2 \in Versions /\ <<q[1], q[2]>> \in Readable[2]
    BY KeyedAssumption DEF Versions
  <2>2. q[1] \in Descs
    BY <2>1, PairFacts
  <2> QED
    BY <2>2, TypesAssumption
<1>3. 0 \in T
  <2>1. \A q \in Keyed : ~(Depth[q[1]] < 0)
    BY <1>2
  <2> QED
    BY <2>1 DEF KeysShallow
<1>4. \A n \in T : n + 1 \in T
  <2> SUFFICES ASSUME NEW n \in Nat, KeysShallow(n) PROVE KeysShallow(n + 1)
    OBVIOUS
  <2> SUFFICES ASSUME NEW q \in Keyed, Depth[q[1]] < n + 1 PROVE Twins(q[1], q[2], q[3])
    BY DEF KeysShallow
  <2>1. \A z \in Keyed : Depth[z[1]] < Depth[q[1]] => Depth[z[1]] < n
    BY <1>2
  <2>2. KeysShallow(Depth[q[1]])
    BY <2>1 DEF KeysShallow
  <2> QED
    BY <1>1, <2>2
<1> HIDE DEF T
<1>5. T = Nat
  BY <1>3, <1>4, SetInduction DEF T
<1>6. ASSUME NEW q \in Keyed PROVE Twins(q[1], q[2], q[3])
  <2>1. Depth[q[1]] \in Nat
    BY <1>2
  <2>2. Depth[q[1]] + 1 \in T /\ Depth[q[1]] < Depth[q[1]] + 1
    BY <1>5, <2>1
  <2> QED
    BY <2>2 DEF T, KeysShallow
<1> QED
  BY <1>6

\* A buffer that was used before and a new one start a key alike.
LEMMA TwinPrepared ==
  ASSUME NEW b, IsBufferRecord(b), b.size \in Nat \ {0}, NEW endian
  PROVE  Twin(Prepare(b, 2, endian), Prepare(NewBuffer, 2, endian))
<1>1. ASSUME NEW x, IsBufferRecord(x), x.size \in Nat \ {0}
      PROVE  LET c == Prepare(x, 2, endian)
             IN  /\ Plain(c) /\ Room(c) /\ c.pos = 0 /\ c.offset = 0 /\ c.alignMax = 4
                 /\ c.endian = endian /\ c.cells = NoCells /\ c.error = "none"
  <2> DEFINE x1 == Seek(x, 0)
             x2 == ZeroOut(x1)
             x3 == SetAlignOffset(x2, 0)
             x4 == SetEndianness(x3, endian)
             c == Prepare(x, 2, endian)
  <2>1. c = [x4 EXCEPT !.alignMax = 4, !.error = "none"]
    BY DEF Prepare
  <2>2. IsBufferRecord(x1) /\ x1.pos = 0 /\ x1.size = x.size
    BY <1>1 DEF Seek, IsBufferRecord
  <2> HIDE DEF c, x1
  <2>3. IsBufferRecord(x2) /\ x2.pos = 0 /\ x2.size = x.size /\ x2.cells = NoCells
    BY <2>2 DEF ZeroOut, IsBufferRecord
  <2> HIDE DEF x2
  <2>4. IsBufferRecord(x3) /\ x3.pos = 0 /\ x3.size = x.size /\ x3.cells = NoCells /\ x3.offset = 0
    BY <2>3 DEF SetAlignOffset, IsBufferRecord
  <2> HIDE DEF x3
  <2>5. /\ IsBufferRecord(x4) /\ x4.pos = 0 /\ x4.size = x.size /\ x4.cells = NoCells /\ x4.offset = 0
        /\ x4.endian = endian
    BY <2>4 DEF SetEndianness, IsBufferRecord
  <2> HIDE DEF x4
  <2>6. /\ IsBufferRecord(c) /\ c.pos = 0 /\ c.size = x.size /\ c.offset = 0 /\ c.alignMax = 4
        /\ c.endian = endian /\ c.cells = NoCells /\ c.error = "none"
    BY <2>1, <2>5 DEF IsBufferRecord
  <2>7. Plain(c) /\ Room(c)
    BY <1>1, <2>6 DEF Plain, Room
  <2> QED
    BY <2>6, <2>7 DEF c
<1>2. IsBufferRecord(NewBuffer) /\ NewBuffer.size \in Nat \ {0}
  BY InitialSizeAssumption DEF IsBufferRecord, NewBuffer
<1> DEFINE c == Prepare(b, 2, endian)
           d == Prepare(NewBuffer, 2, endian)
<1>3. /\ Plain(c) /\ Room(c) /\ c.pos = 0 /\ c.offset = 0 /\ c.alignMax = 4
      /\ c.endian = endian /\ c.cells = NoCells /\ c.error = "none"
  BY <1>1
<1>4. /\ Plain(d) /\ Room(d) /\ d.pos = 0 /\ d.offset = 0 /\ d.alignMax = 4
      /\ d.endian = endian /\ d.cells = NoCells /\ d.error = "none"
  BY <1>1, <1>2
<1> HIDE DEF c, d
<1>5. Twin(c, d)
  BY <1>3, <1>4 DEF Twin, Near
<1> QED
  BY <1>5 DEF c, d

LEMMA TwinSent ==
  ASSUME NEW b, NEW c, Twin(b, c)
  PROVE  AsBytes(b) = AsBytes(c)
BY DEF Twin, Near, Plain, Room, AsBytes, AtMost

\* One instance, two versions.
LEMMA KeysEqual ==
  ASSUME Recursion, ViewRecursion, NEW t \in Types, NEW r \in Types, <<t, r>> \in Evolved, NEW v \in ValuesOf[Desc[t]],
         NEW b \in Buffers
  PROVE  LET a == SerializeInto(b, t, 2, "Little", "KeyNormalized", FALSE, v)
             other == SerializeInto(NewBuffer, r, 2, "Little", "KeyNormalized", FALSE, View(Desc[t], Desc[r], v))
         IN  AsBytes(other) = AsBytes(a) /\ other.error = a.error
<1> DEFINE w == Desc[t]
           y == Desc[r]
           q == <<w, y, "InKeylist">>
           mw == MachineFor(w, None, TRUE, TRUE)
           mr == MachineFor(y, None, TRUE, TRUE)
           c == Prepare(b, 2, "Little")
           d == Prepare(NewBuffer, 2, "Little")
           u == View(w, y, v)
           kind == "KeyNormalized"
<1>1. q \in Keyed
  BY KeyedAssumption
<1>2. q[1] = w /\ q[2] = y /\ q[3] = "InKeylist"
  OBVIOUS
<1> HIDE DEF q
<1>3. Twins(w, y, "InKeylist")
  BY <1>1, <1>2, AllTwins
<1>4. Doubles(mw, mr, w, y, "InKeylist")
  BY <1>3 DEF Twins, PairsTwin, TwinPair
<1>5. Twin(c, d)
  BY BuffersAssumption, TwinPrepared
<1>6. /\ SerializeInto(b, t, 2, "Little", kind, FALSE, v) = Serialize(mw, c, v, kind, "InKeylist")
      /\ SerializeInto(NewBuffer, r, 2, "Little", kind, FALSE, u) = Serialize(mr, d, u, kind, "InKeylist")
  BY DEF SerializeInto, MachineOf
<1> HIDE DEF mw, mr, c, d, w, y
<1>7. Twin(Serialize(mw, c, v, kind, "InKeylist"), Serialize(mr, d, u, kind, "InKeylist"))
  BY <1>4, <1>5 DEF Doubles, w
<1>8. /\ AsBytes(Serialize(mw, c, v, kind, "InKeylist")) = AsBytes(Serialize(mr, d, u, kind, "InKeylist"))
      /\ Serialize(mw, c, v, kind, "InKeylist").error = Serialize(mr, d, u, kind, "InKeylist").error
  BY <1>7, TwinSent DEF Twin, Near
<1> QED
  BY <1>6, <1>8 DEF w, y

\* Two versions of a type make the same normalized key of one instance, bytes
\* that are hashed and compared, whatever members outside the key they gained,
\* lost or list in another order, and whatever the buffer held before; and where
\* one raises an error, so does the other
\* (IDL.serialize_key_normalized and the machines under it).
THEOREM NormalizedKeysCommon ==
  ASSUME Recursion, ViewRecursion
  PROVE  Spec => []NormalizedKeyIsCommon
<1>1. Init => NormalizedKeyIsCommon
  BY DEF Init, NormalizedKeyIsCommon
<1>2. ASSUME NormalizedKeyIsCommon, [Next]_vars PROVE NormalizedKeyIsCommon'
  <2>1. CASE UNCHANGED wire
    BY <1>2, <2>1 DEF NormalizedKeyIsCommon
  <2>2. ASSUME NEW t \in Types, NEW version \in Versions, NEW e \in Endians, NEW b \in Buffers,
               NEW v \in Samples[t], SerializeSample(t, v, version, e, b)
        PROVE  NormalizedKeyIsCommon'
    <3>1. wire'.kind = "DataSample"
      BY <2>2 DEF SerializeSample, Message
    <3> QED
      BY <3>1 DEF NormalizedKeyIsCommon
  <2>3. ASSUME NEW t \in Types, NEW version \in Versions, NEW kind \in KeyKinds, NEW header \in BOOLEAN,
               NEW e \in Endians, NEW b \in Buffers, NEW v \in Samples[t],
               SerializeKey(t, v, version, kind, header, e, b)
        PROVE  NormalizedKeyIsCommon'
    <3> DEFINE a == SerializeInto(b, t, version, e, kind, header, v)
    <3>1. wire' = Message(t, version, kind, header, v, a) /\ (IF header THEN kind = "KeyDefinitionOrder" ELSE e = "Little")
      BY <2>3 DEF SerializeKey
    <3> HIDE DEF a
    <3>2. /\ wire'.type = t /\ wire'.version = version /\ wire'.kind = kind /\ wire'.value = v
          /\ wire'.bytes = AsBytes(a) /\ wire'.error = a.error
      BY <3>1 DEF Message
    <3>3. v \in ValuesOf[Desc[t]]
      BY TypesAssumption
    <3> DEFINE other(r) == SerializeInto(NewBuffer, r, 2, "Little", "KeyNormalized", FALSE, View(Desc[t], Desc[r], v))
    <3>4. SUFFICES ASSUME kind = "KeyNormalized", version = 2
                   PROVE  \A r \in {x \in Types : <<t, x>> \in Evolved} :
                            AsBytes(other(r)) = AsBytes(a) /\ other(r).error = a.error
      BY <3>2 DEF NormalizedKeyIsCommon
    <3>5. a = SerializeInto(b, t, 2, "Little", "KeyNormalized", FALSE, v)
      BY <3>1, <3>4 DEF a
    <3> QED
      BY <3>3, <3>5, KeysEqual
  <2>4. ASSUME NEW r \in Types, DeserializeSample(r) \/ DeserializeKey(r)
        PROVE  UNCHANGED wire
    BY <2>4 DEF DeserializeSample, DeserializeKey
  <2>5. CASE UNCHANGED vars
    BY <2>1, <2>5 DEF vars
  <2> QED
    BY <1>2, <2>1, <2>2, <2>3, <2>4, <2>5 DEF Next
<1> QED
  BY <1>1, <1>2, PTL DEF Spec
=============================================================================
