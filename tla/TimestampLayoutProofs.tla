----------------------- MODULE TimestampLayoutProofs -----------------------
(***************************************************************************)
(* The order of timestamps is the order of indices, and the cursor after a *)
(* floor is the first index above it, for every layout.  The loop that     *)
(* cuts a batch into ranges, one millisecond a turn, yields the ranges of  *)
(* SplitRanges (SplitLoop), so that the timestamps of a timeline ascend    *)
(* and skip none of their generator, whichever generators serve it.        *)
(***************************************************************************)
EXTENDS TimestampLayout, TLAPS

LEMMA DivMod ==
    ASSUME NEW a \in Nat, NEW b \in Nat \ {0}
    PROVE  /\ a \div b \in Nat /\ a % b \in 0..(b - 1)
           /\ a = (a \div b) * b + (a % b)
OBVIOUS

LEMMA TimesMonotone ==
    ASSUME NEW a \in Nat, NEW b \in Nat, NEW c \in Nat, a <= b
    PROVE  a * c <= b * c /\ a * c \in Nat
OBVIOUS

\* Digits: a larger high part wins whatever the low parts are.
LEMMA HighPartWins ==
    ASSUME NEW a \in Nat, NEW b \in Nat, NEW c \in Nat \ {0},
           NEW x \in 0..(c - 1), NEW y \in 0..(c - 1), a < b
    PROVE  a * c + x < b * c + y
<1>1. (a + 1) * c <= b * c
    BY TimesMonotone
<1>2. (a + 1) * c = a * c + c
    OBVIOUS
<1>3. a * c \in Nat /\ b * c \in Nat
    OBVIOUS
<1>. QED  BY <1>1, <1>2, <1>3

LEMMA DigitsUnique ==
    ASSUME NEW a \in Nat, NEW c \in Nat \ {0}, NEW x \in 0..(c - 1)
    PROVE  (a * c + x) \div c = a /\ (a * c + x) % c = x
<1>. DEFINE n == a * c + x
<1>1. n \in Nat
    OBVIOUS
<1>2. /\ n \div c \in Nat /\ n % c \in 0..(c - 1) /\ n = (n \div c) * c + (n % c)
    BY <1>1, DivMod
<1>. HIDE DEF n
<1>3. ~(n \div c < a) /\ ~(a < n \div c)
  <2>1. n = a * c + x
    BY DEF n
  <2>2. ASSUME n \div c < a PROVE FALSE
    <3>1. (n \div c) * c + (n % c) < a * c + x
        BY <1>2, <2>2, HighPartWins
    <3>. QED  BY <1>1, <1>2, <2>1, <3>1
  <2>3. ASSUME a < n \div c PROVE FALSE
    <3>1. a * c + x < (n \div c) * c + (n % c)
        BY <1>2, <2>3, HighPartWins
    <3>. QED  BY <1>1, <1>2, <2>1, <3>1
  <2>. QED  BY <2>2, <2>3
<1>4. n \div c = a
  <2>1. \A u, v \in Nat : ~(u < v) /\ ~(v < u) => u = v
    OBVIOUS
  <2>. QED  BY <1>2, <1>3, <2>1
<1>5. n % c = x
  <2>1. a * c \in Nat
    OBVIOUS
  <2>. QED  BY <1>2, <1>4, <2>1 DEF n
<1>. QED  BY <1>4, <1>5 DEF n

SequenceValues == 0..(SeqCap - 1)

LEMMA Logical ==
    ASSUME NEW g \in Generators, NEW s \in SequenceValues
    PROVE  /\ g * SeqCap + s \in 0..(GenCap * SeqCap - 1)
           /\ GenCap * SeqCap \in Nat \ {0}
<1>1. GenCap \in Nat \ {0} /\ SeqCap \in Nat \ {0} /\ g \in Nat /\ g < GenCap /\ 0 \in 0..(SeqCap - 1)
    BY LayoutAssumption DEF Generators
<1>2. g * SeqCap + s < GenCap * SeqCap + 0
    BY <1>1, HighPartWins DEF SequenceValues
<1>3. g * SeqCap \in Nat /\ GenCap * SeqCap \in Nat
    BY <1>1
<1>. QED  BY <1>1, <1>2, <1>3 DEF SequenceValues

LEMMA EncodeFlat ==
    ASSUME NEW h \in Nat, NEW g \in Generators, NEW s \in SequenceValues
    PROVE  Encode(h, g, s) = h * (GenCap * SeqCap) + (g * SeqCap + s)
<1>1. GenCap \in Nat /\ SeqCap \in Nat /\ g \in Nat /\ s \in Nat
    BY LayoutAssumption DEF Generators, SequenceValues
<1>2. (h * GenCap + g) * SeqCap = (h * GenCap) * SeqCap + g * SeqCap
    BY <1>1
<1>3. (h * GenCap) * SeqCap = h * (GenCap * SeqCap)
    BY <1>1
<1>4. h * (GenCap * SeqCap) \in Nat /\ g * SeqCap \in Nat
    BY <1>1
<1>. QED  BY <1>1, <1>2, <1>3, <1>4 DEF Encode

\* decode undoes encode: no field of a timestamp leaks into another one
\* (TimestampLayout::encode and TimestampLayout::decode).
THEOREM DecodeEncode ==
    ASSUME NEW h \in Nat, NEW g \in Generators, NEW s \in SequenceValues
    PROVE  Decode(Encode(h, g, s)) = [physical_ms |-> h, generator_id |-> g, sequence |-> s]
<1>1. GenCap \in Nat \ {0} /\ SeqCap \in Nat \ {0} /\ h * GenCap + g \in Nat
      /\ g \in 0..(GenCap - 1)
    BY LayoutAssumption DEF Generators
<1>2. Encode(h, g, s) \div SeqCap = h * GenCap + g /\ Encode(h, g, s) % SeqCap = s
    BY <1>1, DigitsUnique DEF Encode, SequenceValues
<1>3. (h * GenCap + g) % GenCap = g
    BY <1>1, DigitsUnique
<1>4. Encode(h, g, s) \div (GenCap * SeqCap) = h
    BY EncodeFlat, Logical, DigitsUnique
<1>. QED  BY <1>2, <1>3, <1>4 DEF Decode

LEMMA EncodeDecode ==
    ASSUME NEW t \in Nat
    PROVE  LET d == Decode(t) IN
           /\ d.physical_ms \in Nat /\ d.generator_id \in Generators /\ d.sequence \in SequenceValues
           /\ t = Encode(d.physical_ms, d.generator_id, d.sequence)
<1>. DEFINE u == t \div SeqCap
            h == u \div GenCap
            g == u % GenCap
            s == t % SeqCap
<1>1. GenCap \in Nat \ {0} /\ SeqCap \in Nat \ {0}
    BY LayoutAssumption
<1>2. u \in Nat /\ s \in 0..(SeqCap - 1) /\ t = u * SeqCap + s
    BY <1>1, DivMod
<1>. HIDE DEF u, s
<1>3. h \in Nat /\ g \in 0..(GenCap - 1) /\ u = h * GenCap + g
    BY <1>1, <1>2, DivMod
<1>. HIDE DEF h, g
<1>4. g \in Generators /\ s \in SequenceValues /\ t = Encode(h, g, s)
    BY <1>2, <1>3 DEF Encode, Generators, SequenceValues
<1>5. Decode(t) = [physical_ms |-> h, generator_id |-> g, sequence |-> s]
    BY <1>3, <1>4, DecodeEncode
<1>. QED  BY <1>3, <1>4, <1>5

\* A later millisecond, or a later generator within it, has the later timestamp.
LEMMA EncodeOrder ==
    ASSUME NEW h \in Nat, NEW g \in Generators, NEW s \in SequenceValues,
           NEW k \in Nat, NEW f \in Generators, NEW r \in SequenceValues,
           h < k \/ (h = k /\ g < f)
    PROVE  Encode(h, g, s) < Encode(k, f, r)
<1>1. GenCap \in Nat \ {0} /\ SeqCap \in Nat \ {0} /\ g \in 0..(GenCap - 1) /\ f \in 0..(GenCap - 1)
    BY LayoutAssumption DEF Generators
<1>2. h * GenCap + g \in Nat /\ k * GenCap + f \in Nat
    BY <1>1
<1>3. h * GenCap + g < k * GenCap + f
  <2>1. CASE h < k
    BY <1>1, <2>1, HighPartWins
  <2>2. CASE h = k /\ g < f
    <3>1. h * GenCap \in Nat
        BY <1>1
    <3>. QED  BY <1>1, <2>2, <3>1
  <2>. QED  BY <2>1, <2>2
<1>. QED  BY <1>1, <1>2, <1>3, HighPartWins DEF Encode, SequenceValues

LEMMA IndexParts ==
    ASSUME NEW h \in Nat, NEW s \in SequenceValues, NEW g \in Generators
    PROVE  h * SeqCap + s \in Nat /\ IndexTso(h * SeqCap + s, g) = Encode(h, g, s)
<1>1. SeqCap \in Nat \ {0}
    BY LayoutAssumption
<1>2. h * SeqCap \in Nat
    BY <1>1
<1>3. (h * SeqCap + s) \div SeqCap = h /\ (h * SeqCap + s) % SeqCap = s
    BY <1>1, DigitsUnique DEF SequenceValues
<1>4. h * SeqCap + s \in Nat
    BY <1>1, <1>2 DEF SequenceValues
<1>. QED  BY <1>3, <1>4 DEF IndexTso

LEMMA IndexSplit ==
    ASSUME NEW i \in Nat
    PROVE  /\ i \div SeqCap \in Nat /\ i % SeqCap \in SequenceValues
           /\ i = (i \div SeqCap) * SeqCap + (i % SeqCap)
BY LayoutAssumption, DivMod DEF SequenceValues

\* The timestamps of one generator are ordered as their indices, so a cursor, a
\* bound and a floor of one generator may be compared as indices: what module
\* GeneratorLease does, and allocate_after's comparison of encoded values.
THEOREM IndexOrder ==
    ASSUME NEW i \in Nat, NEW j \in Nat, NEW g \in Generators, i < j
    PROVE  IndexTso(i, g) < IndexTso(j, g)
<1>. DEFINE a == i \div SeqCap
            x == i % SeqCap
            b == j \div SeqCap
            y == j % SeqCap
<1>1. /\ a \in Nat /\ x \in SequenceValues /\ i = a * SeqCap + x
      /\ b \in Nat /\ y \in SequenceValues /\ j = b * SeqCap + y
    BY IndexSplit
<1>2. IndexTso(i, g) = Encode(a, g, x) /\ IndexTso(j, g) = Encode(b, g, y)
    BY DEF IndexTso
<1>. HIDE DEF a, x, b, y
<1>3. SeqCap \in Nat \ {0}
    BY LayoutAssumption
<1>4. ~(b < a)
  <2>. SUFFICES ASSUME b < a PROVE FALSE
    OBVIOUS
  <2>1. b * SeqCap + y < a * SeqCap + x
    BY <1>1, <1>3, HighPartWins DEF SequenceValues
  <2>. QED  BY <1>1, <2>1
<1>5. CASE a < b
    BY <1>1, <1>2, <1>5, EncodeOrder
<1>6. CASE a = b
  <2>1. x < y
    <3>1. a * SeqCap \in Nat
        BY <1>1, <1>3
    <3>. QED  BY <1>1, <1>6, <3>1 DEF SequenceValues
  <2>2. (a * GenCap + g) * SeqCap \in Nat
    BY <1>1, LayoutAssumption DEF Generators
  <2>. QED  BY <1>1, <1>2, <1>6, <2>1, <2>2 DEF Encode, SequenceValues
<1>. QED  BY <1>1, <1>4, <1>5, <1>6

LEMMA CursorCases ==
    ASSUME NEW t \in Nat, NEW g \in Generators
    PROVE  LET d == Decode(t)
               i == CursorIndex(NextCursorAfter(t, g)) IN
           /\ g > d.generator_id => i = d.physical_ms * SeqCap + 0
           /\ g = d.generator_id => i = d.physical_ms * SeqCap + d.sequence + 1
           /\ g < d.generator_id => i = (d.physical_ms + 1) * SeqCap + 0
<1>. DEFINE d == Decode(t)
<1>1. d.physical_ms \in Nat /\ d.generator_id \in Nat /\ d.sequence \in 0..(SeqCap - 1) /\ g \in Nat
    BY EncodeDecode, LayoutAssumption DEF Generators, SequenceValues
<1>2. SeqCap \in Nat \ {0} /\ (d.physical_ms + 1) * SeqCap = d.physical_ms * SeqCap + SeqCap
      /\ d.physical_ms * SeqCap \in Nat
    BY <1>1, LayoutAssumption
<1>. HIDE DEF d
<1>. QED  BY <1>1, <1>2 DEF NextCursorAfter, CursorIndex, d

\* The cursor after a floor lies above it, whichever generators issued the floor
\* and goes on (next_cursor_after_with_layout).
THEOREM CursorAbove ==
    ASSUME NEW t \in Nat, NEW g \in Generators
    PROVE  /\ CursorIndex(NextCursorAfter(t, g)) \in Nat
           /\ IndexTso(CursorIndex(NextCursorAfter(t, g)), g) > t
<1>. DEFINE d == Decode(t)
            i == CursorIndex(NextCursorAfter(t, g))
            h == d.physical_ms
            f == d.generator_id
            s == d.sequence
<1>1. h \in Nat /\ f \in Generators /\ s \in SequenceValues /\ t = Encode(h, f, s)
    BY EncodeDecode
<1>2. /\ g > f => i = h * SeqCap + 0
      /\ g = f => i = h * SeqCap + s + 1
      /\ g < f => i = (h + 1) * SeqCap + 0
    BY CursorCases
<1>3. 0 \in SequenceValues /\ f \in Nat /\ g \in Nat /\ SeqCap \in Nat \ {0} /\ s \in Nat
    BY <1>1, LayoutAssumption DEF SequenceValues, Generators
<1>. HIDE DEF i, h, f, s, d
<1>4. CASE g > f
  <2>1. i \in Nat /\ IndexTso(i, g) = Encode(h, g, 0)
    BY <1>1, <1>2, <1>3, <1>4, IndexParts
  <2>2. Encode(h, f, s) < Encode(h, g, 0)
    BY <1>1, <1>3, <1>4, EncodeOrder
  <2>. QED  BY <1>1, <2>1, <2>2 DEF i
<1>5. CASE g = f
  <2>1. h * SeqCap + s \in Nat /\ IndexTso(h * SeqCap + s, g) = t
    BY <1>1, <1>5, IndexParts
  <2>2. i = (h * SeqCap + s) + 1
    BY <1>2, <1>5
  <2>3. i \in Nat /\ h * SeqCap + s < i
    BY <2>1, <2>2
  <2>. QED  BY <2>1, <2>3, IndexOrder DEF i
<1>6. CASE g < f
  <2>1. i \in Nat /\ IndexTso(i, g) = Encode(h + 1, g, 0)
    BY <1>1, <1>2, <1>3, <1>6, IndexParts
  <2>2. Encode(h, f, s) < Encode(h + 1, g, 0)
    BY <1>1, <1>3, EncodeOrder
  <2>. QED  BY <1>1, <2>1, <2>2 DEF i
<1>. QED  BY <1>3, <1>4, <1>5, <1>6

\* And it is the first such index: no timestamp of the generator that lies above
\* the floor is passed over.
THEOREM CursorLeast ==
    ASSUME NEW t \in Nat, NEW g \in Generators, NEW j \in Nat,
           j < CursorIndex(NextCursorAfter(t, g))
    PROVE  IndexTso(j, g) <= t
<1>. DEFINE d == Decode(t)
            i == CursorIndex(NextCursorAfter(t, g))
            h == d.physical_ms
            f == d.generator_id
            s == d.sequence
            q == j \div SeqCap
            r == j % SeqCap
<1>1. h \in Nat /\ f \in Generators /\ s \in SequenceValues /\ t = Encode(h, f, s)
    BY EncodeDecode
<1>2. /\ g > f => i = h * SeqCap + 0
      /\ g = f => i = h * SeqCap + s + 1
      /\ g < f => i = (h + 1) * SeqCap + 0
    BY CursorCases
<1>3. q \in Nat /\ r \in SequenceValues /\ j = q * SeqCap + r /\ IndexTso(j, g) = Encode(q, g, r)
    BY IndexSplit DEF IndexTso
<1>4. 0 \in SequenceValues /\ f \in Nat /\ g \in Nat /\ SeqCap \in Nat \ {0} /\ s \in Nat
    BY <1>1, LayoutAssumption DEF SequenceValues, Generators
<1>5. j < i
    OBVIOUS
<1>. HIDE DEF i, h, f, s, d, q, r
<1>6. \A k \in Nat : j < k * SeqCap + 0 => q < k
  <2>. SUFFICES ASSUME NEW k \in Nat, j < k * SeqCap + 0, k <= q PROVE FALSE
    BY <1>3
  <2>1. k * SeqCap <= q * SeqCap /\ k * SeqCap \in Nat
    BY <1>3, <1>4, TimesMonotone
  <2>2. q * SeqCap \in Nat
    BY <1>3, <1>4
  <2>. QED  BY <1>3, <2>1, <2>2 DEF SequenceValues
<1>7. Encode(q, g, r) \in Nat /\ Encode(h, f, s) \in Nat
  <2>1. GenCap \in Nat
    BY LayoutAssumption
  <2>2. (q * GenCap + g) * SeqCap \in Nat /\ (h * GenCap + f) * SeqCap \in Nat
    BY <1>1, <1>3, <1>4, <2>1
  <2>. QED  BY <1>1, <1>3, <2>2 DEF Encode, SequenceValues
<1>8. CASE g > f
  <2>1. q < h
    BY <1>1, <1>2, <1>5, <1>6, <1>8
  <2>. QED  BY <1>1, <1>3, <1>7, <2>1, EncodeOrder
<1>9. CASE g = f
  <2>1. h * SeqCap + s \in Nat /\ IndexTso(h * SeqCap + s, g) = t
    BY <1>1, <1>9, IndexParts
  <2>2. j = h * SeqCap + s \/ j < h * SeqCap + s
    BY <1>2, <1>5, <1>9, <2>1
  <2>3. CASE j = h * SeqCap + s
    BY <2>1, <2>3
  <2>4. CASE j < h * SeqCap + s
    <3>1. IndexTso(j, g) < t
        BY <2>1, <2>4, IndexOrder
    <3>. QED  BY <1>3, <1>7, <3>1
  <2>. QED  BY <2>2, <2>3, <2>4
<1>10. CASE g < f
  <2>1. q < h + 1
    BY <1>1, <1>2, <1>5, <1>6, <1>10
  <2>2. q < h \/ (q = h /\ g < f)
    BY <1>1, <1>3, <1>10, <2>1
  <2>. QED  BY <1>1, <1>3, <1>7, <2>2, EncodeOrder
<1>. QED  BY <1>4, <1>8, <1>9, <1>10

\* Indices of one generator and their timestamps are ordered alike, both ways.
LEMMA IndexOrderBoth ==
    ASSUME NEW i \in Nat, NEW j \in Nat, NEW g \in Generators
    PROVE  /\ IndexTso(i, g) \in Nat /\ IndexTso(j, g) \in Nat
           /\ IndexTso(i, g) <= IndexTso(j, g) <=> i <= j
           /\ IndexTso(i, g) < IndexTso(j, g) <=> i < j
<1>1. \A k \in Nat : IndexTso(k, g) \in Nat
  <2>. TAKE k \in Nat
  <2>1. k \div SeqCap \in Nat /\ k % SeqCap \in Nat /\ g \in Nat /\ GenCap \in Nat /\ SeqCap \in Nat
    BY IndexSplit, LayoutAssumption DEF SequenceValues, Generators
  <2>2. ((k \div SeqCap) * GenCap + g) * SeqCap \in Nat
    BY <2>1
  <2>. QED  BY <2>1, <2>2 DEF IndexTso, Encode
<1>2. /\ i < j => IndexTso(i, g) < IndexTso(j, g)
      /\ j < i => IndexTso(j, g) < IndexTso(i, g)
    BY IndexOrder
<1>3. i = j => IndexTso(i, g) = IndexTso(j, g)
    OBVIOUS
<1>. HIDE DEF IndexTso
<1>. QED  BY <1>1, <1>2, <1>3

\* The quotient grows with the dividend.
LEMMA DivMonotone ==
    ASSUME NEW i \in Nat, NEW j \in Nat, NEW c \in Nat \ {0}, i <= j
    PROVE  i \div c \in Nat /\ j \div c \in Nat /\ i \div c <= j \div c
<1>. DEFINE a == i \div c
            x == i % c
            b == j \div c
            y == j % c
<1>1. /\ a \in Nat /\ x \in 0..(c - 1) /\ i = a * c + x
      /\ b \in Nat /\ y \in 0..(c - 1) /\ j = b * c + y
    BY DivMod
<1>. HIDE DEF a, x, b, y
<1>2. ~(b < a)
  <2>. SUFFICES ASSUME b < a PROVE FALSE
    OBVIOUS
  <2>1. b * c + y < a * c + x
    BY <1>1, HighPartWins
  <2>. QED  BY <1>1, <2>1
<1>3. a <= b
    BY <1>1, <1>2
<1>. QED  BY <1>1, <1>3 DEF a, b

\* A timestamp is the one of some index of its generator, in its millisecond.
LEMMA TsoIndex ==
    ASSUME NEW t \in Nat
    PROVE  /\ Decode(t).generator_id \in Generators
           /\ \E i \in Nat : t = IndexTso(i, Decode(t).generator_id)
BY EncodeDecode, IndexParts

\* The ranges of an allocation follow one another from the first to the last
\* index, and each lies in one millisecond (the loop of allocate_after).
LEMMA RangesMeet ==
    ASSUME NEW start \in Nat, NEW count \in Nat \ {0}
    PROVE  LET n == Milliseconds(start, count) IN
           /\ n \in Nat \ {0}
           /\ RangeStart(start, 1) = start /\ RangeEnd(start, count, n) = start + count - 1
           /\ \A k \in 1..n :
                 /\ RangeStart(start, k) \in Nat /\ RangeEnd(start, count, k) \in Nat
                 /\ RangeStart(start, k) <= RangeEnd(start, count, k)
                 /\ RangeStart(start, k) \div SeqCap = start \div SeqCap + k - 1
                 /\ RangeEnd(start, count, k) \div SeqCap = start \div SeqCap + k - 1
           /\ \A k \in 1..(n - 1) : RangeStart(start, k + 1) = RangeEnd(start, count, k) + 1
<1>. DEFINE n == Milliseconds(start, count)
            end == start + count - 1
            a == start \div SeqCap
            z == end \div SeqCap
<1>1. SeqCap \in Nat \ {0} /\ 0 \in 0..(SeqCap - 1) /\ SeqCap - 1 \in 0..(SeqCap - 1)
    BY LayoutAssumption
<1>2. end \in Nat /\ start <= end
    OBVIOUS
<1>. HIDE DEF end
<1>3. /\ a \in Nat /\ start % SeqCap \in 0..(SeqCap - 1) /\ start = a * SeqCap + (start % SeqCap)
      /\ z \in Nat /\ end % SeqCap \in 0..(SeqCap - 1) /\ end = z * SeqCap + (end % SeqCap)
    BY <1>1, <1>2, DivMod
<1>. DEFINE x == start % SeqCap
            y == end % SeqCap
<1>. HIDE DEF a, z, x, y
<1>4. a <= z
  <2>. SUFFICES ASSUME z < a PROVE FALSE
    BY <1>3
  <2>1. z * SeqCap + y < a * SeqCap + x
    BY <1>1, <1>3, HighPartWins DEF x, y
  <2>. QED  BY <1>2, <1>3, <2>1 DEF x, y
<1>5. n = z - a + 1
    BY DEF n, Milliseconds, z, a, end
<1>6. n \in Nat \ {0} /\ z = a + n - 1
    BY <1>3, <1>4, <1>5
<1>. HIDE DEF n
<1>7. \A m \in Nat : /\ m * SeqCap \in Nat /\ (m + 1) * SeqCap = m * SeqCap + SeqCap
                     /\ (m * SeqCap) \div SeqCap = m
                     /\ (m * SeqCap + (SeqCap - 1)) \div SeqCap = m
  <2>. TAKE m \in Nat
  <2>1. m * SeqCap \in Nat /\ (m + 1) * SeqCap = m * SeqCap + SeqCap
    BY <1>1
  <2>2. (m * SeqCap + 0) \div SeqCap = m /\ (m * SeqCap + (SeqCap - 1)) \div SeqCap = m
    BY <1>1, DigitsUnique
  <2>. QED  BY <2>1, <2>2
<1>8. ASSUME NEW k \in 1..n
      PROVE  /\ RangeStart(start, k) \in Nat /\ RangeEnd(start, count, k) \in Nat
             /\ RangeStart(start, k) <= RangeEnd(start, count, k)
             /\ RangeStart(start, k) \div SeqCap = a + k - 1
             /\ RangeEnd(start, count, k) \div SeqCap = a + k - 1
  <2>. DEFINE m == a + k - 1
  <2>1. m \in Nat /\ a + k = m + 1
    BY <1>3, <1>6, <1>8
  <2>2. /\ RangeStart(start, k) = IF k = 1 THEN start ELSE m * SeqCap
        /\ RangeEnd(start, count, k) = IF k = n THEN end ELSE (m + 1) * SeqCap - 1
    BY <2>1 DEF RangeStart, RangeEnd, n, a, end
  <2>3. k = 1 => m = a
    BY <1>3
  <2>4. k = n => m = z
    BY <1>3, <1>6
  <2>. HIDE DEF m
  <2>5. (m + 1) * SeqCap - 1 = m * SeqCap + (SeqCap - 1) /\ m * SeqCap \in Nat
    BY <1>1, <1>7, <2>1
  <2>6. /\ (m * SeqCap) \div SeqCap = m
        /\ ((m + 1) * SeqCap - 1) \div SeqCap = m
    BY <1>7, <2>1, <2>5
  <2>7. start \div SeqCap = a /\ end \div SeqCap = z
    BY DEF a, z
  <2>8. /\ k = 1 => start = m * SeqCap + x
        /\ k = n => end = m * SeqCap + y
        /\ x \in 0..(SeqCap - 1) /\ y \in 0..(SeqCap - 1)
    BY <1>3, <2>3, <2>4 DEF x, y
  <2>9. CASE k = 1 /\ k = n
    BY <1>2, <2>2, <2>3, <2>4, <2>7, <2>9 DEF m
  <2>10. CASE k = 1 /\ k # n
    <3>1. /\ RangeStart(start, k) = start /\ RangeEnd(start, count, k) = (m + 1) * SeqCap - 1
          /\ start <= (m + 1) * SeqCap - 1 /\ (m + 1) * SeqCap - 1 \in Nat
        BY <1>1, <2>2, <2>5, <2>8, <2>10
    <3>. QED  BY <2>3, <2>6, <2>7, <2>10, <3>1 DEF m
  <2>11. CASE k # 1 /\ k = n
    BY <1>1, <1>2, <2>2, <2>4, <2>5, <2>6, <2>7, <2>8, <2>11 DEF m
  <2>12. CASE k # 1 /\ k # n
    BY <1>1, <2>2, <2>5, <2>6, <2>12 DEF m
  <2>. QED  BY <2>9, <2>10, <2>11, <2>12
<1>9. ASSUME NEW k \in 1..(n - 1)
      PROVE  RangeStart(start, k + 1) = RangeEnd(start, count, k) + 1
  <2>1. k \in Nat /\ k # n /\ k + 1 # 1 /\ a + (k + 1) - 1 = a + k /\ a + k \in Nat
    BY <1>3, <1>6, <1>9
  <2>2. (a + k) * SeqCap \in Nat
    BY <1>7, <2>1
  <2>. QED  BY <2>1, <2>2 DEF RangeStart, RangeEnd, n, a
<1>10. RangeStart(start, 1) = start /\ RangeEnd(start, count, n) = start + count - 1
    BY DEF RangeStart, RangeEnd, n
<1>. QED  BY <1>6, <1>8, <1>9, <1>10 DEF n, a

\* Every index of the allocation is in the range of its millisecond.
LEMMA InSomeRange ==
    ASSUME NEW start \in Nat, NEW count \in Nat \ {0},
           NEW i \in Nat, start <= i, i <= start + count - 1
    PROVE  \E k \in 1..Milliseconds(start, count) :
              RangeStart(start, k) <= i /\ i <= RangeEnd(start, count, k)
<1>. DEFINE a == start \div SeqCap
            m == i \div SeqCap
            z == (start + count - 1) \div SeqCap
            k == m - a + 1
<1>1. SeqCap \in Nat \ {0} /\ start + count - 1 \in Nat
    BY LayoutAssumption
<1>2. a \in Nat /\ m \in Nat /\ z \in Nat /\ a <= m /\ m <= z
    BY <1>1, DivMonotone
<1>3. Milliseconds(start, count) = z - a + 1
    BY DEF Milliseconds
<1>4. m * SeqCap <= i /\ i <= (m + 1) * SeqCap - 1
  <2>1. m * SeqCap \in Nat /\ (m + 1) * SeqCap = m * SeqCap + SeqCap
    BY <1>1, <1>2
  <2>2. i % SeqCap \in 0..(SeqCap - 1) /\ i = m * SeqCap + (i % SeqCap)
    BY <1>1, DivMod
  <2>. QED  BY <1>1, <2>1, <2>2
<1>. HIDE DEF a, m, z
<1>5. k \in 1..Milliseconds(start, count) /\ a + k - 1 = m /\ a + k = m + 1
    BY <1>2, <1>3
<1>6. RangeStart(start, k) = start \/ RangeStart(start, k) = m * SeqCap
    BY <1>5 DEF RangeStart, a
<1>7. RangeEnd(start, count, k) = start + count - 1 \/ RangeEnd(start, count, k) = (m + 1) * SeqCap - 1
    BY <1>5 DEF RangeEnd, a
<1>. QED  BY <1>4, <1>5, <1>6, <1>7

\* One turn of the loop of allocate_after: the first range takes what is left of
\* its millisecond, and the others are those of the allocation that is left.
LEMMA LoopTurn ==
    ASSUME NEW start \in Nat, NEW count \in Nat \ {0}, NEW take \in Nat,
           take = IF count <= SeqCap - (start % SeqCap) THEN count ELSE SeqCap - (start % SeqCap)
    PROVE  LET n == Milliseconds(start, count) IN
           /\ take \in 1..count
           /\ RangeStart(start, 1) = start /\ RangeEnd(start, count, 1) = start + take - 1
           /\ take = count => n = 1
           /\ take < count =>
                 /\ start + take \in Nat /\ count - take \in Nat \ {0}
                 /\ n = Milliseconds(start + take, count - take) + 1
                 /\ \A k \in 1..(n - 1) :
                       /\ RangeStart(start, k + 1) = RangeStart(start + take, k)
                       /\ RangeEnd(start, count, k + 1) = RangeEnd(start + take, count - take, k)
<1>. DEFINE a == start \div SeqCap
            x == start % SeqCap
            n == Milliseconds(start, count)
            z == (start + count - 1) \div SeqCap
<1>1. SeqCap \in Nat \ {0} /\ start + count - 1 \in Nat
    BY LayoutAssumption
<1>2. a \in Nat /\ x \in 0..(SeqCap - 1) /\ start = a * SeqCap + x
    BY <1>1, DivMod
<1>3. a * SeqCap \in Nat /\ (a + 1) * SeqCap = a * SeqCap + SeqCap
    BY <1>1, <1>2
<1>4. take \in 1..count /\ (take = count \/ (take < count /\ take = SeqCap - x))
    BY <1>1, <1>2
<1>5. n = z - a + 1
    BY DEF Milliseconds
<1>6. RangeStart(start, 1) = start
    BY DEF RangeStart
<1>. HIDE DEF a, x, n, z
<1>7. CASE take = count
  <2>1. count <= SeqCap - x
    BY <1>1, <1>2, <1>7 DEF x
  <2>2. x + count - 1 \in 0..(SeqCap - 1) /\ start + count - 1 = a * SeqCap + (x + count - 1)
    BY <1>1, <1>2, <1>3, <2>1
  <2>3. z = a
    BY <1>1, <1>2, <2>2, DigitsUnique DEF z
  <2>4. n = 1
    BY <1>2, <1>5, <2>3
  <2>5. RangeEnd(start, count, 1) = start + take - 1
    BY <1>7, <2>4 DEF RangeEnd, n
  <2>. QED  BY <1>4, <1>6, <1>7, <2>4, <2>5 DEF n
<1>8. CASE take < count /\ take = SeqCap - x
  <2>1. start + take = (a + 1) * SeqCap /\ start + take \in Nat /\ count - take \in Nat \ {0}
    BY <1>1, <1>2, <1>3, <1>8
  <2>2. (start + take) \div SeqCap = a + 1
    <3>1. a + 1 \in Nat /\ 0 \in 0..(SeqCap - 1) /\ start + take = (a + 1) * SeqCap + 0
        BY <1>1, <1>2, <2>1
    <3>2. ((a + 1) * SeqCap + 0) \div SeqCap = a + 1
        BY <1>1, <3>1, DigitsUnique
    <3>. QED  BY <3>1, <3>2
  <2>3. (start + take) + (count - take) - 1 = start + count - 1
    BY <1>8
  <2>4. Milliseconds(start + take, count - take) = z - (a + 1) + 1
    BY <2>2, <2>3 DEF Milliseconds, z
  <2>5. z \in Nat /\ a + 1 <= z
    <3>1. start + take <= start + count - 1
        BY <2>1
    <3>. QED  BY <1>1, <2>1, <2>2, <3>1, DivMonotone DEF z
  <2>6. n = Milliseconds(start + take, count - take) + 1 /\ n # 1 /\ n \in Nat
    BY <1>2, <1>5, <2>4, <2>5
  <2>7. RangeEnd(start, count, 1) = start + take - 1
    <3>1. RangeEnd(start, count, 1) = (a + 1) * SeqCap - 1
        BY <2>6 DEF RangeEnd, n, a
    <3>. QED  BY <2>1, <3>1
  <2>8. ASSUME NEW k \in 1..(n - 1)
        PROVE  /\ RangeStart(start, k + 1) = RangeStart(start + take, k)
               /\ RangeEnd(start, count, k + 1) = RangeEnd(start + take, count - take, k)
    <3>1. k \in Nat /\ k + 1 # 1 /\ a + (k + 1) = (a + 1) + k /\ a + (k + 1) - 1 = (a + 1) + k - 1
          /\ (k = 1 => (a + 1) + k - 1 = a + 1)
        BY <1>2, <2>6
    <3>2. RangeStart(start, k + 1) = ((a + 1) + k - 1) * SeqCap
        BY <3>1 DEF RangeStart, a
    <3>3. RangeStart(start + take, k) = IF k = 1 THEN start + take ELSE ((a + 1) + k - 1) * SeqCap
        BY <2>2 DEF RangeStart
    <3>4. k = 1 => ((a + 1) + k - 1) * SeqCap = start + take
        BY <2>1, <3>1
    <3>5. RangeStart(start, k + 1) = RangeStart(start + take, k)
        BY <3>2, <3>3, <3>4
    <3>6. k + 1 = n <=> k = Milliseconds(start + take, count - take)
        BY <1>2, <2>4, <2>5, <2>6, <3>1
    <3>7. RangeEnd(start, count, k + 1) = IF k + 1 = n THEN start + count - 1
                                                       ELSE ((a + 1) + k) * SeqCap - 1
        BY <3>1 DEF RangeEnd, n, a
    <3>8. RangeEnd(start + take, count - take, k)
          = IF k = Milliseconds(start + take, count - take) THEN start + count - 1
                                                            ELSE ((a + 1) + k) * SeqCap - 1
        BY <2>2, <2>3 DEF RangeEnd
    <3>. QED  BY <3>5, <3>6, <3>7, <3>8
  <2>. QED  BY <1>4, <1>6, <1>8, <2>1, <2>6, <2>7, <2>8 DEF n
<1>. QED  BY <1>4, <1>7, <1>8

\* The ranges satisfy the loop's recurrence: the range of the first turn, followed by
\* the ranges of what is left.
THEOREM SplitLoop ==
    ASSUME NEW start \in Nat, NEW count \in Nat \ {0}, NEW g \in Generators, NEW take \in Nat,
           take = IF count <= SeqCap - (start % SeqCap) THEN count ELSE SeqCap - (start % SeqCap)
    PROVE  SplitRanges(start, count, g)
           = <<[start_tso |-> IndexTso(start, g), end_tso |-> IndexTso(start + take - 1, g)]>>
             \o (IF take = count THEN <<>> ELSE SplitRanges(start + take, count - take, g))
<1>. DEFINE n == Milliseconds(start, count)
            R(k) == [start_tso |-> IndexTso(RangeStart(start, k), g),
                     end_tso   |-> IndexTso(RangeEnd(start, count, k), g)]
            first == [start_tso |-> IndexTso(start, g), end_tso |-> IndexTso(start + take - 1, g)]
            m == Milliseconds(start + take, count - take)
            Q(k) == [start_tso |-> IndexTso(RangeStart(start + take, k), g),
                     end_tso   |-> IndexTso(RangeEnd(start + take, count - take, k), g)]
<1>1. SplitRanges(start, count, g) = [k \in 1..n |-> R(k)] /\ R(1) = first
    BY LoopTurn DEF SplitRanges
<1>2. CASE take = count
  <2>1. n = 1
    BY <1>2, LoopTurn
  <2>. HIDE DEF n, R, first
  <2>2. [k \in 1..n |-> R(k)] = <<first>>
    BY <1>1, <2>1
  <2>3. <<first>> \o <<>> = <<first>>
    OBVIOUS
  <2>. QED  BY <1>1, <1>2, <2>2, <2>3 DEF first
<1>3. CASE take # count
  <2>1. take < count /\ start + take \in Nat /\ count - take \in Nat \ {0}
    BY <1>3, LoopTurn
  <2>2. n = m + 1 /\ m \in Nat \ {0}
    BY <2>1, LoopTurn, RangesMeet
  <2>3. \A k \in 1..m : R(k + 1) = Q(k)
    <3>1. \A k \in 1..m : /\ RangeStart(start, k + 1) = RangeStart(start + take, k)
                         /\ RangeEnd(start, count, k + 1) = RangeEnd(start + take, count - take, k)
      <4>1. n - 1 = m
        BY <2>2
      <4>. HIDE DEF n, m
      <4>. QED  BY <2>1, <4>1, LoopTurn DEF n
    <3>. QED  BY <3>1
  <2>4. SplitRanges(start + take, count - take, g) = [k \in 1..m |-> Q(k)]
    BY DEF SplitRanges
  <2>. HIDE DEF n, R, first, m, Q
  <2>5. ASSUME NEW k \in 1..n PROVE (<<first>> \o [j \in 1..m |-> Q(j)])[k] = R(k)
    <3>1. CASE k = 1
        BY <1>1, <2>2, <3>1
    <3>2. CASE k # 1
      <4>1. k - 1 \in 1..m /\ (k - 1) + 1 = k
        BY <2>2, <2>5, <3>2
      <4>2. (<<first>> \o [j \in 1..m |-> Q(j)])[k] = [j \in 1..m |-> Q(j)][k - 1]
        BY <2>2, <3>2, <4>1
      <4>. QED  BY <2>3, <4>1, <4>2
    <3>. QED  BY <3>1, <3>2
  <2>6. <<first>> \o [j \in 1..m |-> Q(j)] = [k \in 1..n |-> R(k)]
    BY <2>2, <2>5
  <2>. QED  BY <1>1, <1>3, <2>4, <2>6 DEF first
<1>. QED  BY <1>2, <1>3

-----------------------------------------------------------------------------
\* What an allocation leaves behind, in terms of indices.
Cuts(start, count, g) ==
    LET n == Milliseconds(start, count) IN
    /\ Len(ranges') = n
    /\ \A k \in 1..n : /\ ranges'[k].start_tso = IndexTso(RangeStart(start, k), g)
                      /\ ranges'[k].end_tso = IndexTso(RangeEnd(start, count, k), g)
    /\ last' = IndexTso(start + count - 1, g)
    /\ gen' = g

LEMMA AllocateCuts ==
    ASSUME NEW g \in Generators, NEW count \in 1..MaxCount, Allocate(g, count),
           FloorIndex(last, g) \in Nat
    PROVE  Cuts(FloorIndex(last, g), count, g)
<1>. DEFINE start == FloorIndex(last, g)
            n == Milliseconds(start, count)
<1>1. start \in Nat /\ count \in Nat \ {0}
    BY LayoutAssumption
<1>2. ranges' = SplitRanges(start, count, g) /\ last' = ranges'[Len(ranges')].end_tso /\ gen' = g
    BY DEF Allocate
<1>. HIDE DEF start
<1>3. n \in Nat \ {0} /\ RangeEnd(start, count, n) = start + count - 1
    BY <1>1, RangesMeet
<1>. HIDE DEF n
<1>4. ranges' = [k \in 1..n |-> [start_tso |-> IndexTso(RangeStart(start, k), g),
                                 end_tso   |-> IndexTso(RangeEnd(start, count, k), g)]]
    BY <1>2 DEF SplitRanges, n
<1>5. Len(ranges') = n /\ n \in 1..n
    BY <1>3, <1>4
<1>. QED  BY <1>2, <1>3, <1>4, <1>5 DEF Cuts, n, start

\* The floor of the timeline is a timestamp or none, and an allocation starts with
\* the first index above it.
LEMMA StartAbove ==
    ASSUME last \in Nat \cup {None}, NEW g \in Generators
    PROVE  /\ FloorIndex(last, g) \in Nat
           /\ IndexTso(FloorIndex(last, g), g) > last
           /\ \A j \in Nat : IndexTso(j, g) > last => j >= FloorIndex(last, g)
<1>1. CASE last = None
  <2>1. FloorIndex(last, g) = 0 /\ 0 \in Nat
    BY <1>1 DEF FloorIndex
  <2>2. IndexTso(0, g) \in Nat
    BY IndexOrderBoth
  <2>. QED  BY <1>1, <2>1, <2>2 DEF None
<1>2. CASE last \in Nat
  <2>1. FloorIndex(last, g) = CursorIndex(NextCursorAfter(last, g))
    BY <1>2 DEF FloorIndex, None
  <2>2. FloorIndex(last, g) \in Nat /\ IndexTso(FloorIndex(last, g), g) > last
    BY <1>2, <2>1, CursorAbove
  <2>3. ASSUME NEW j \in Nat, IndexTso(j, g) > last, j < FloorIndex(last, g) PROVE FALSE
    <3>1. IndexTso(j, g) <= last /\ IndexTso(j, g) \in Nat
        BY <1>2, <2>1, <2>3, CursorLeast, IndexOrderBoth
    <3>. QED  BY <1>2, <2>3, <3>1
  <2>. QED  BY <2>2, <2>3
<1>. QED  BY <1>1, <1>2

\* The ranges ascend from above the floor.
LEMMA CutsAscend ==
    ASSUME NEW start \in Nat, NEW count \in Nat \ {0}, NEW g \in Generators,
           last \in Nat \cup {None}, IndexTso(start, g) > last, Cuts(start, count, g)
    PROVE  /\ ranges'[1].start_tso > last
           /\ \A k \in 1..(Len(ranges') - 1) : ranges'[k].end_tso < ranges'[k + 1].start_tso
           /\ \A k \in 1..Len(ranges') : ranges'[k].start_tso <= ranges'[k].end_tso
<1>. DEFINE n == Milliseconds(start, count)
<1>1. /\ n \in Nat \ {0} /\ RangeStart(start, 1) = start
      /\ \A k \in 1..n : /\ RangeStart(start, k) \in Nat /\ RangeEnd(start, count, k) \in Nat
                        /\ RangeStart(start, k) <= RangeEnd(start, count, k)
      /\ \A k \in 1..(n - 1) : RangeStart(start, k + 1) = RangeEnd(start, count, k) + 1
    BY RangesMeet
<1>2. /\ Len(ranges') = n
      /\ \A k \in 1..n : /\ ranges'[k].start_tso = IndexTso(RangeStart(start, k), g)
                        /\ ranges'[k].end_tso = IndexTso(RangeEnd(start, count, k), g)
    BY DEF Cuts
<1>. HIDE DEF n
<1>3. ranges'[1].start_tso > last
    BY <1>1, <1>2
<1>4. ASSUME NEW k \in 1..(n - 1) PROVE ranges'[k].end_tso < ranges'[k + 1].start_tso
  <2>1. k \in 1..n /\ k + 1 \in 1..n
    BY <1>1
  <2>2. RangeEnd(start, count, k) \in Nat /\ RangeStart(start, k + 1) \in Nat
        /\ RangeEnd(start, count, k) < RangeStart(start, k + 1)
    BY <1>1, <2>1
  <2>. QED  BY <1>2, <2>1, <2>2, IndexOrder
<1>5. ASSUME NEW k \in 1..n PROVE ranges'[k].start_tso <= ranges'[k].end_tso
  <2>1. /\ RangeStart(start, k) \in Nat /\ RangeEnd(start, count, k) \in Nat
        /\ RangeStart(start, k) <= RangeEnd(start, count, k)
    BY <1>1
  <2>2. IndexTso(RangeStart(start, k), g) <= IndexTso(RangeEnd(start, count, k), g)
    BY <2>1, IndexOrderBoth
  <2>. QED  BY <1>2, <2>2
<1>. QED  BY <1>2, <1>3, <1>4, <1>5

\* Between two timestamps of a generator in one millisecond lie only its own.
LEMMA BetweenSame ==
    ASSUME NEW i \in Nat, NEW j \in Nat, NEW g \in Generators, NEW t \in Nat,
           i \div SeqCap = j \div SeqCap, IndexTso(i, g) <= t, t <= IndexTso(j, g)
    PROVE  Decode(t).generator_id = g
<1>. DEFINE d == Decode(t)
            h == d.physical_ms
            f == d.generator_id
            s == d.sequence
            m == i \div SeqCap
<1>1. h \in Nat /\ f \in Generators /\ s \in SequenceValues /\ t = Encode(h, f, s)
    BY EncodeDecode
<1>2. /\ m \in Nat /\ i % SeqCap \in SequenceValues /\ j % SeqCap \in SequenceValues
      /\ IndexTso(i, g) = Encode(m, g, i % SeqCap) /\ IndexTso(j, g) = Encode(m, g, j % SeqCap)
    BY IndexSplit DEF IndexTso
<1>3. IndexTso(i, g) \in Nat /\ IndexTso(j, g) \in Nat /\ f \in Nat /\ g \in Nat
    BY <1>1, IndexOrderBoth DEF Generators
<1>. HIDE DEF d, h, f, s, m
<1>4. ~(h < m \/ (h = m /\ f < g))
    BY <1>1, <1>2, <1>3, EncodeOrder
<1>5. ~(m < h \/ (m = h /\ g < f))
    BY <1>1, <1>2, <1>3, EncodeOrder
<1>. QED  BY <1>1, <1>2, <1>3, <1>4, <1>5 DEF f, d

-----------------------------------------------------------------------------
\* A timestamp above the floor and up to the new one is in a range exactly when it
\* is one of the generator's.
LEMMA CutsExact ==
    ASSUME NEW start \in Nat, NEW count \in Nat \ {0}, NEW g \in Generators,
           last \in Nat \cup {None}, IndexTso(start, g) > last, Cuts(start, count, g),
           \A j \in Nat : IndexTso(j, g) > last => j >= start,
           NEW t \in (last + 1)..last'
    PROVE  Decode(t).generator_id = g
           <=> \E k \in 1..Len(ranges') : t \in ranges'[k].start_tso..ranges'[k].end_tso
<1>. DEFINE n == Milliseconds(start, count)
            end == start + count - 1
            S(k) == RangeStart(start, k)
            E(k) == RangeEnd(start, count, k)
<1>1. /\ n \in Nat \ {0} /\ n = end \div SeqCap - start \div SeqCap + 1
      /\ \A k \in 1..n : /\ S(k) \in Nat /\ E(k) \in Nat
                        /\ S(k) \div SeqCap = E(k) \div SeqCap
    BY RangesMeet DEF Milliseconds
<1>2. /\ Len(ranges') = n /\ last' = IndexTso(end, g)
      /\ \A k \in 1..n : /\ ranges'[k].start_tso = IndexTso(S(k), g)
                        /\ ranges'[k].end_tso = IndexTso(E(k), g)
    BY DEF Cuts
<1>3. end \in Nat /\ IndexTso(end, g) \in Nat
    BY IndexOrderBoth
<1>4. t \in Nat /\ t > last /\ t <= IndexTso(end, g)
    BY <1>2, <1>3 DEF None
<1>. HIDE DEF n, end, S, E
<1>5. ASSUME NEW k \in 1..Len(ranges'), t \in ranges'[k].start_tso..ranges'[k].end_tso
      PROVE  Decode(t).generator_id = g
  <2>1. k \in 1..n /\ S(k) \in Nat /\ E(k) \in Nat /\ S(k) \div SeqCap = E(k) \div SeqCap
    BY <1>1, <1>2
  <2>2. IndexTso(S(k), g) \in Nat /\ IndexTso(E(k), g) \in Nat
    BY <2>1, IndexOrderBoth
  <2>3. IndexTso(S(k), g) <= t /\ t <= IndexTso(E(k), g)
    BY <1>2, <1>5, <2>1, <2>2
  <2>. QED  BY <1>4, <2>1, <2>3, BetweenSame
<1>6. ASSUME Decode(t).generator_id = g
      PROVE  \E k \in 1..Len(ranges') : t \in ranges'[k].start_tso..ranges'[k].end_tso
  <2>1. PICK i \in Nat : t = IndexTso(i, g)
    BY <1>4, <1>6, TsoIndex
  <2>2. start <= i /\ i <= end
    BY <1>3, <1>4, <2>1, IndexOrderBoth
  <2>3. PICK k \in 1..n : S(k) <= i /\ i <= E(k)
    BY <2>1, <2>2, InSomeRange DEF n, end, S, E
  <2>4. S(k) \in Nat /\ E(k) \in Nat
    BY <1>1
  <2>5. IndexTso(S(k), g) <= t /\ t <= IndexTso(E(k), g)
        /\ IndexTso(S(k), g) \in Nat /\ IndexTso(E(k), g) \in Nat
    BY <2>1, <2>3, <2>4, IndexOrderBoth
  <2>. QED  BY <1>2, <1>4, <2>5
<1>. QED  BY <1>5, <1>6

-----------------------------------------------------------------------------
\* The timeline's floor is a timestamp, once there is one.
FloorType == last \in Nat \cup {None}

LEMMA FloorTypeKept == FloorType /\ [Next]_vars => FloorType'
<1>. SUFFICES ASSUME FloorType, [Next]_vars PROVE FloorType'
    OBVIOUS
<1>1. ASSUME NEW g \in Generators, NEW count \in 1..MaxCount, Allocate(g, count)
      PROVE  FloorType'
  <2>. DEFINE start == FloorIndex(last, g)
  <2>1. start \in Nat /\ count \in Nat \ {0}
    BY StartAbove, LayoutAssumption DEF FloorType
  <2>2. last' = IndexTso(start + count - 1, g)
    BY <1>1, <2>1, AllocateCuts DEF Cuts
  <2>. HIDE DEF start
  <2>3. start + count - 1 \in Nat
    BY <2>1
  <2>. QED  BY <2>2, <2>3, IndexOrderBoth DEF FloorType
<1>2. CASE UNCHANGED vars
    BY <1>2 DEF FloorType, vars
<1>. QED  BY <1>1, <1>2 DEF Next

\* For every layout, allocation size and order of generators, the timestamps of a
\* timeline only grow: allocate_after's first range starts above the floor,
\* whichever generator set it, and the ranges follow one another over the carries.
THEOREM TimelineGrows == Spec => TimelineMonotone
<1>1. Init => FloorType
    BY DEF Init, FloorType
<1>2. FloorType /\ [Next]_vars =>
        [/\ ranges' # <<>> => ranges'[1].start_tso > last
         /\ \A k \in 1..(Len(ranges') - 1) : ranges'[k].end_tso < ranges'[k + 1].start_tso
         /\ \A k \in 1..Len(ranges') : ranges'[k].start_tso <= ranges'[k].end_tso]_vars
  <2>. SUFFICES ASSUME FloorType, NEW g \in Generators, NEW count \in 1..MaxCount, Allocate(g, count)
                PROVE  /\ ranges'[1].start_tso > last
                       /\ \A k \in 1..(Len(ranges') - 1) : ranges'[k].end_tso < ranges'[k + 1].start_tso
                       /\ \A k \in 1..Len(ranges') : ranges'[k].start_tso <= ranges'[k].end_tso
    BY DEF Next
  <2>1. FloorIndex(last, g) \in Nat /\ IndexTso(FloorIndex(last, g), g) > last /\ count \in Nat \ {0}
    BY StartAbove, LayoutAssumption DEF FloorType
  <2>. QED  BY <2>1, AllocateCuts, CutsAscend DEF FloorType
<1>. QED  BY <1>1, <1>2, FloorTypeKept, PTL DEF Spec, TimelineMonotone

\* And the ranges an allocation hands out hold every timestamp of its generator
\* between the old floor and the new one, and none of another generator's.
THEOREM TimelineExact == Spec => NothingSkipped
<1>1. Init => FloorType
    BY DEF Init, FloorType
<1>2. FloorType /\ [Next]_vars =>
        [\A t \in (last + 1)..last' :
            Decode(t).generator_id = gen'
            <=> \E k \in 1..Len(ranges') : t \in ranges'[k].start_tso..ranges'[k].end_tso]_vars
  <2>. SUFFICES ASSUME FloorType, NEW g \in Generators, NEW count \in 1..MaxCount, Allocate(g, count),
                       NEW t \in (last + 1)..last'
                PROVE  Decode(t).generator_id = gen'
                       <=> \E k \in 1..Len(ranges') : t \in ranges'[k].start_tso..ranges'[k].end_tso
    BY DEF Next
  <2>1. /\ FloorIndex(last, g) \in Nat /\ IndexTso(FloorIndex(last, g), g) > last
        /\ \A j \in Nat : IndexTso(j, g) > last => j >= FloorIndex(last, g)
        /\ count \in Nat \ {0}
    BY StartAbove, LayoutAssumption DEF FloorType
  <2>2. Cuts(FloorIndex(last, g), count, g)
    BY <2>1, AllocateCuts
  <2>3. Decode(t).generator_id = g
        <=> \E k \in 1..Len(ranges') : t \in ranges'[k].start_tso..ranges'[k].end_tso
    BY <2>1, <2>2, CutsExact DEF FloorType
  <2>. QED  BY <2>2, <2>3 DEF Cuts
<1>. QED  BY <1>1, <1>2, FloorTypeKept, PTL DEF Spec, NothingSkipped
=============================================================================
