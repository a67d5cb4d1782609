-------------------------- MODULE ModelFilesProofs --------------------------
(***************************************************************************)
(* What a killed run leaves behind, for any corpora, models and formats,   *)
(* and any sequence of runs, crashes and replaced inputs.                  *)
(***************************************************************************)
EXTENDS ModelFiles, BpeWordsProofs

-----------------------------------------------------------------------------
(* Bytes and scalars. *)

ToBytesMap == [x \in Char |-> IF x \in Scalar THEN Utf8[x] ELSE <<x>>]

ReadMap ==
  [chunk \in Seq(Byte) |->
     IF \E u \in Scalar : Utf8[u] = chunk
     THEN <<CHOOSE u \in Scalar : Utf8[u] = chunk>> ELSE chunk]

\* Flat is the flattening of a sequence.
LEMMA FlatIs ==
  ASSUME NEW W, NEW ss \in Seq(W)
  PROVE  Flat(ss) = FlattenSeq(ss)
<1>1. ss \o << >> = ss
  BY ConcatEmptySeq
<1>2. {FlattenSeq(s) : s \in {ss \o << >>}} = {FlattenSeq(ss)}
  BY <1>1
<1> QED BY <1>2 DEF Flat

\* The bytes of a content are those of its units.
LEMMA ToBytesIs ==
  /\ Maps(ToBytesMap, Char, Byte)
  /\ \A c \in Seq(Char) : ToBytes(c) = Mapped(ToBytesMap, c) /\ ToBytes(c) \in Seq(Byte)
<1>1. Maps(ToBytesMap, Char, Byte)
  <2>1. \A x \in Char : x \notin Scalar => <<x>> \in Seq(Byte)
    BY DEF Char
  <2>2. \A x \in Scalar : Utf8[x] \in Seq(Byte)
    BY CharactersAssumption
  <2> QED BY <2>1, <2>2 DEF Maps, ToBytesMap
<1>2. ASSUME NEW c \in Seq(Char) PROVE ToBytes(c) = Mapped(ToBytesMap, c)
  <2> DEFINE g(i) == IF c[i] \in Scalar THEN Utf8[c[i]] ELSE <<c[i]>>
  <2>1. \A i \in DOMAIN c : g(i) = ToBytesMap[c[i]]
    BY DEF ToBytesMap
  <2>2. [i \in DOMAIN c |-> g(i)] = Image(ToBytesMap, c)
    BY <2>1 DEF Image
  <2>3. Image(ToBytesMap, c) \in Seq(Seq(Byte))
    <3>1. Into(ToBytesMap, Char, Seq(Byte))
      BY <1>1 DEF Maps, Into
    <3> QED BY <3>1, ImageCat
  <2>4. Flat(Image(ToBytesMap, c)) = FlattenSeq(Image(ToBytesMap, c))
    BY <2>3, FlatIs
  <2> QED BY <2>2, <2>4 DEF ToBytes, Mapped, Image
<1>3. \A c \in Seq(Char) : Mapped(ToBytesMap, c) \in Seq(Byte)
  BY <1>1, MapCat
<1> QED BY <1>1, <1>2, <1>3

\* What is read of bytes has these bytes: nothing is lost or changed, valid
\* UTF-8 or not (bbpe_word_from_bytes, bbpe_word_to_bytes).
LEMMA ReadingKeepsBytes ==
  ASSUME NEW b \in Seq(Byte)
  PROVE  FromBytes(b) \in Seq(Char) /\ ToBytes(FromBytes(b)) = b
<1> DEFINE starts == InOrder(ChunkStarts(b))
           p == PiecesAt(b, starts)
           Whole(chunk) == \E u \in Scalar : Utf8[u] = chunk
           Read(chunk) == IF Whole(chunk) THEN <<CHOOSE u \in Scalar : Utf8[u] = chunk>> ELSE chunk
<1>1. ChunkStarts(b) \in SUBSET (1..Len(b)) /\ (b = << >> \/ 1 \in ChunkStarts(b))
  <2>1. DOMAIN b = 1..Len(b) /\ Len(b) \in Nat /\ (b # << >> => 1 \in 1..Len(b))
    OBVIOUS
  <2> QED BY <2>1 DEF ChunkStarts
<1>2. p \in Seq(Seq(Byte)) /\ FlattenSeq(p) = b
  BY <1>1, CutsFlatten
<1>3. FromBytes(b) = Flat([k \in DOMAIN starts |-> Read(p[k])])
  <2>1. \A k \in DOMAIN starts :
          p[k] = SubSeq(b, starts[k], IF k = Len(starts) THEN Len(b) ELSE starts[k + 1] - 1)
    BY DEF PiecesAt
  <2> DEFINE Contents(v, cuts) ==
               Flat([k \in DOMAIN cuts |->
                       Read(SubSeq(v, cuts[k],
                                   IF k = Len(cuts) THEN Len(v) ELSE cuts[k + 1] - 1))])
  <2>2. FromBytes(b) = Contents(b, starts)
    <3> HIDE DEF Contents, starts
    <3>1. {Contents(v, InOrder(ChunkStarts(v))) : v \in {b}} = {Contents(b, starts)}
      BY DEF starts
    <3>2. FromBytes(b) = CHOOSE content \in {Contents(v, InOrder(ChunkStarts(v))) : v \in {b}} : TRUE
      BY Zenon DEF FromBytes, Contents, Read, Whole
    <3> QED BY <3>1, <3>2
  <2>3. [k \in DOMAIN starts |->
           Read(SubSeq(b, starts[k], IF k = Len(starts) THEN Len(b) ELSE starts[k + 1] - 1))]
          = [k \in DOMAIN starts |-> Read(p[k])]
    <3> HIDE DEF p, starts, Read
    <3> QED BY <2>1
  <2> QED BY <2>2, <2>3, Zenon
<1>4. DOMAIN p = DOMAIN starts
  BY DEF PiecesAt
<1> HIDE DEF starts, p
<1>5. \A chunk \in Seq(Byte) : ReadMap[chunk] = Read(chunk)
  BY DEF ReadMap
<1>6. Maps(ReadMap, Seq(Byte), Char)
  <2> SUFFICES ASSUME NEW chunk \in Seq(Byte) PROVE Read(chunk) \in Seq(Char)
    BY <1>5 DEF Maps
  <2>1. CASE Whole(chunk)
    <3> DEFINE u == CHOOSE v \in Scalar : Utf8[v] = chunk
    <3>1. u \in Scalar
      BY <2>1
    <3> HIDE DEF u
    <3>2. <<u>> \in Seq(Char)
      BY <3>1 DEF Char
    <3> QED BY <2>1, <3>2 DEF u
  <2>2. CASE ~Whole(chunk)
    <3>1. chunk \in Seq(Char)
      BY SeqMonotonic DEF Char
    <3> QED BY <2>2, <3>1
  <2> QED BY <2>1, <2>2
<1>7. FromBytes(b) = Mapped(ReadMap, p)
  <2>1. \A k \in DOMAIN p : p[k] \in Seq(Byte)
    BY <1>2
  <2>2. [k \in DOMAIN starts |-> Read(p[k])] = Image(ReadMap, p)
    BY <1>4, <1>5, <2>1 DEF Image
  <2>3. Image(ReadMap, p) \in Seq(Seq(Char))
    <3>1. Into(ReadMap, Seq(Byte), Seq(Char))
      BY <1>6 DEF Maps, Into
    <3> QED BY <1>2, <3>1, ImageCat
  <2>4. Flat(Image(ReadMap, p)) = FlattenSeq(Image(ReadMap, p))
    BY <2>3, FlatIs
  <2> QED BY <1>3, <2>2, <2>4 DEF Mapped, Image
<1>8. \A chunk \in Seq(Byte) : Mapped(ToBytesMap, ReadMap[chunk]) = chunk
  <2> TAKE chunk \in Seq(Byte)
  <2>1. CASE Whole(chunk)
    <3> DEFINE u == CHOOSE v \in Scalar : Utf8[v] = chunk
    <3>1. u \in Scalar /\ Utf8[u] = chunk
      BY <2>1
    <3>2. ReadMap[chunk] = <<u>>
      BY <1>5, <2>1
    <3> HIDE DEF u
    <3>3. u \in Char /\ ToBytesMap[u] = chunk
      BY <3>1 DEF Char, ToBytesMap
    <3>4. Mapped(ToBytesMap, <<u>>) = ToBytesMap[u]
      BY <3>3, ToBytesIs, MapCat
    <3> QED BY <3>2, <3>3, <3>4
  <2>2. CASE ~Whole(chunk)
    <3>1. ReadMap[chunk] = chunk
      BY <1>5, <2>2
    <3>2. \A x \in Byte : ToBytesMap[x] = <<x>>
      BY CharactersAssumption DEF Char, ToBytesMap
    <3> QED BY <3>1, <3>2, MapSingles
  <2> QED BY <2>1, <2>2
<1>9. FromBytes(b) \in Seq(Char)
  BY <1>2, <1>6, <1>7, MapCat
<1> DEFINE id == [chunk \in Seq(Byte) |-> chunk]
<1>10. Composes(ReadMap, Seq(Byte), Char, ToBytesMap, Byte, id)
  BY <1>6, <1>8, ToBytesIs DEF Composes
<1>11. Mapped(ToBytesMap, Mapped(ReadMap, p)) = Mapped(id, p)
  <2> HIDE DEF id
  <2> QED BY <1>2, <1>10, MapMap
<1>12. Mapped(id, p) = FlattenSeq(p)
  <2>1. \A k \in DOMAIN p : id[p[k]] = p[k]
    BY <1>2
  <2> HIDE DEF id
  <2>2. p = [k \in DOMAIN p |-> p[k]]
    BY <1>2
  <2>3. p = [k \in DOMAIN p |-> id[p[k]]]
    BY <2>1, <2>2
  <2> QED BY <2>3, Zenon DEF Mapped
<1> QED BY <1>2, <1>7, <1>9, <1>11, <1>12, ToBytesIs

-----------------------------------------------------------------------------
(* Fields. *)

Inside(s, X) == {i \in DOMAIN s : s[i] \notin X}
First(I) == {i \in I : i - 1 \notin I}
Final(I) == {i \in I : i + 1 \notin I}
Shift(J, d) == {j + d : j \in J}

FieldOf(s, X, k) == SubSeq(s, InOrder(First(Inside(s, X)))[k], InOrder(Final(Inside(s, X)))[k])

\* K has positions of n, and behind a gap positions of m.
Apart(n, I, m, J, d, K) ==
  /\ n \in Nat /\ I \in SUBSET (1..n) /\ m \in Nat /\ J \in SUBSET (1..m)
  /\ d = n + 1 /\ K = I \cup Shift(J, d)

\* Two sets of positions with a gap between them have the runs of both.
LEMMA RunsApart ==
  ASSUME NEW n, NEW I, NEW m, NEW J, NEW d, NEW K, Apart(n, I, m, J, d, K)
  PROVE  /\ First(K) = First(I) \cup Shift(First(J), d)
         /\ Final(K) = Final(I) \cup Shift(Final(J), d)
<1>0. /\ n \in Nat /\ d \in Int /\ d = n + 1
      /\ \A i \in I : i \in Int /\ i >= 1 /\ i <= n
      /\ \A j \in J : j \in Int /\ j >= 1
      /\ K = I \cup Shift(J, d)
  BY DEF Apart
<1>1. \A x \in Int : /\ x \in K <=> x \in I \/ x - d \in J
                     /\ x \in Shift(First(J), d) <=> x - d \in First(J)
                     /\ x \in Shift(Final(J), d) <=> x - d \in Final(J)
  <2> TAKE x \in Int
  <2>1. ASSUME NEW A \in SUBSET J PROVE x \in Shift(A, d) <=> x - d \in A
    <3>1. \A j \in A : x = j + d <=> j = x - d
      BY <1>0
    <3>2. x \in Shift(A, d) <=> \E j \in A : x = j + d
      BY DEF Shift
    <3> QED BY <3>1, <3>2
  <2>2. First(J) \in SUBSET J /\ Final(J) \in SUBSET J /\ J \in SUBSET J
    BY DEF First, Final
  <2>3. x \in K <=> x \in I \/ x \in Shift(J, d)
    BY <1>0
  <2> QED BY <2>1, <2>2, <2>3
<1>2. /\ \A x \in K : x \in Int
      /\ \A x \in Shift(First(J), d) \cup Shift(Final(J), d) : x \in Int
      /\ \A x \in First(I) \cup Final(I) : x \in Int
  BY <1>0 DEF Shift, First, Final
<1>3. ASSUME NEW x \in Int
      PROVE  /\ x \in First(K) <=> x \in First(I) \/ x - d \in First(J)
             /\ x \in Final(K) <=> x \in Final(I) \/ x - d \in Final(J)
  <2>1. x \in I => (x - 1) - d \notin J /\ (x + 1) - d \notin J
    BY <1>0
  <2>2. x - d \in J => x - 1 \notin I /\ x + 1 \notin I
    BY <1>0
  <2>3. /\ (x - 1) - d = (x - d) - 1 /\ (x + 1) - d = (x - d) + 1
        /\ x - 1 \in Int /\ x + 1 \in Int
    BY <1>0
  <2>4. /\ x \in K <=> x \in I \/ x - d \in J
        /\ x - 1 \in K <=> x - 1 \in I \/ (x - d) - 1 \in J
        /\ x + 1 \in K <=> x + 1 \in I \/ (x - d) + 1 \in J
    BY <1>1, <2>3
  <2>5. (x - d) - 1 \in J /\ x \in I => FALSE
    BY <2>1, <2>3
  <2>6. (x - d) + 1 \in J /\ x \in I => FALSE
    BY <2>1, <2>3
  <2> QED BY <2>2, <2>4, <2>5, <2>6 DEF First, Final
<1>4. /\ \A x \in Int : x \in First(K) <=> x \in First(I) \cup Shift(First(J), d)
      /\ \A x \in Int : x \in Final(K) <=> x \in Final(I) \cup Shift(Final(J), d)
  BY <1>1, <1>3
<1>5. \A x \in First(K) \cup Final(K) : x \in Int
  BY <1>2 DEF First, Final
<1> QED BY <1>2, <1>4, <1>5

\* There are as many last positions of runs as first ones.
LEMMA AsManyEnds ==
  ASSUME NEW n \in Nat, NEW I \in SUBSET (1..n)
  PROVE  /\ First(I) \in SUBSET (1..n) /\ Final(I) \in SUBSET (1..n) /\ IsFiniteSet(I)
         /\ IsFiniteSet(First(I)) /\ IsFiniteSet(Final(I))
         /\ First(I) \in SUBSET Int /\ Final(I) \in SUBSET Int
         /\ Cardinality(First(I)) = Cardinality(Final(I))
<1>0. IsFiniteSet(I) /\ \A i \in I : i \in Int
  <2>1. IsFiniteSet(1..n)
    BY FS_Interval
  <2>2. IsFiniteSet(I)
    BY <2>1, FS_Subset
  <2> QED BY <2>2
<1> DEFINE A == I \ First(I)
           B == I \ Final(I)
<1>1. /\ First(I) \subseteq I /\ Final(I) \subseteq I
      /\ A = {i \in I : i - 1 \in I} /\ B = {i \in I : i + 1 \in I}
  BY DEF First, Final
<1>2. A = {x + 1 : x \in B}
  <2>1. ASSUME NEW i \in A PROVE \E x \in B : i = x + 1
    <3>1. i - 1 \in I /\ i \in Int /\ i - 1 + 1 = i
      BY <1>0, <1>1
    <3>2. i - 1 \in B
      BY <1>1, <3>1
    <3> QED BY <3>1, <3>2
  <2>2. ASSUME NEW x \in B PROVE x + 1 \in A
    <3>1. x + 1 \in I /\ x \in Int /\ x + 1 - 1 = x
      BY <1>0, <1>1
    <3> QED BY <1>1, <3>1
  <2> HIDE DEF A, B
  <2> QED BY <2>1, <2>2
<1>3. /\ IsFiniteSet(A) /\ IsFiniteSet(B) /\ IsFiniteSet(First(I)) /\ IsFiniteSet(Final(I))
      /\ B \in SUBSET Int
  <2>1. A \subseteq I /\ B \subseteq I
    OBVIOUS
  <2> HIDE DEF A, B
  <2>2. IsFiniteSet(A) /\ IsFiniteSet(B) /\ IsFiniteSet(First(I)) /\ IsFiniteSet(Final(I))
    BY <1>0, <1>1, <2>1, FS_Subset
  <2> QED BY <1>0, <2>1, <2>2
<1>4. Cardinality(A) = Cardinality(B)
  <2> HIDE DEF A, B
  <2>1. Cardinality({x + 1 : x \in B}) = Cardinality(B)
    <3> DEFINE k == 1
    <3>1. k \in Int
      OBVIOUS
    <3> HIDE DEF k
    <3>2. Cardinality({x + k : x \in B}) = Cardinality(B)
      BY <1>3, <3>1, CardinalityShift
    <3> QED BY <3>2 DEF k
  <2> QED BY <1>2, <2>1
<1>5. /\ Cardinality(I) = Cardinality(First(I)) + Cardinality(A)
      /\ Cardinality(I) = Cardinality(Final(I)) + Cardinality(B)
  <2>1. /\ I = First(I) \cup A /\ First(I) \cap A = {}
        /\ I = Final(I) \cup B /\ Final(I) \cap B = {}
    BY <1>1
  <2> HIDE DEF A, B
  <2>2. Cardinality(First(I) \cup A) = Cardinality(First(I)) + Cardinality(A)
    BY <1>3, <2>1, CardinalityDisjoint
  <2>3. Cardinality(Final(I) \cup B) = Cardinality(Final(I)) + Cardinality(B)
    BY <1>3, <2>1, CardinalityDisjoint
  <2> QED BY <2>1, <2>2, <2>3
<1>6. Cardinality(First(I)) \in Nat /\ Cardinality(Final(I)) \in Nat /\ Cardinality(A) \in Nat
  <2> HIDE DEF A
  <2> QED BY <1>3, FS_CardinalityType
<1> HIDE DEF A, B
<1>7. Cardinality(First(I)) = Cardinality(Final(I))
  BY <1>4, <1>5, <1>6
<1>8. /\ First(I) \in SUBSET (1..n) /\ Final(I) \in SUBSET (1..n)
      /\ First(I) \in SUBSET Int /\ Final(I) \in SUBSET Int
  BY <1>0, <1>1
<1> QED BY <1>0, <1>3, <1>7, <1>8

\* The fields are pieces of the text.
LEMMA FieldsAre ==
  ASSUME NEW U, NEW s \in Seq(U), NEW X
  PROVE  LET I == Inside(s, X)
         IN /\ Fields(s, X) = [k \in 1..Cardinality(First(I)) |-> FieldOf(s, X, k)]
            /\ I \in SUBSET (1..Len(s)) /\ Cardinality(First(I)) \in Nat
            /\ \A k \in 1..Cardinality(First(I)) :
                 /\ InOrder(First(I))[k] \in 1..Len(s) /\ InOrder(Final(I))[k] \in 1..Len(s)
                 /\ FieldOf(s, X, k) \in Seq(U)
<1> DEFINE I == Inside(s, X)
           p == InOrder(First(I))
           q == InOrder(Final(I))
           n == Cardinality(First(I))
<1>0. Len(s) \in Nat /\ DOMAIN s = 1..Len(s) /\ \A i \in 1..Len(s) : s[i] \in U
  OBVIOUS
<1>1. I \in SUBSET (1..Len(s))
  BY <1>0 DEF Inside
<1>2. Fields(s, X) = [k \in DOMAIN p |-> FieldOf(s, X, k)]
  BY DEF Fields, FieldOf, Inside, First, Final
<1> HIDE DEF I
<1>3. /\ First(I) \in SUBSET (1..Len(s)) /\ Final(I) \in SUBSET (1..Len(s))
      /\ IsFiniteSet(First(I)) /\ IsFiniteSet(Final(I))
      /\ First(I) \in SUBSET Int /\ Final(I) \in SUBSET Int
      /\ Cardinality(First(I)) = Cardinality(Final(I))
  BY <1>0, <1>1, AsManyEnds
<1>4. /\ p \in Seq(Int) /\ Len(p) = n /\ Elements(p) = First(I)
      /\ q \in Seq(Int) /\ Len(q) = n /\ Elements(q) = Final(I)
  BY <1>3, Ordered
<1>5. n \in Nat
  BY <1>3, FS_CardinalityType
<1> HIDE DEF p, q, n
<1>6. DOMAIN p = 1..n /\ DOMAIN q = 1..n
  BY <1>4
<1>7. \A k \in 1..n : p[k] \in 1..Len(s) /\ q[k] \in 1..Len(s)
  <2> TAKE k \in 1..n
  <2>1. p[k] \in Elements(p) /\ q[k] \in Elements(q)
    BY <1>6 DEF Elements
  <2> QED BY <1>3, <1>4, <2>1
<1>8. ASSUME NEW k \in 1..n PROVE FieldOf(s, X, k) \in Seq(U)
  <2>1. p[k] \in Int /\ q[k] \in Int /\ \A i \in p[k]..q[k] : s[i] \in U
    BY <1>0, <1>7
  <2>2. SubSeq(s, p[k], q[k]) \in Seq(U)
    BY <2>1, SubSeqProperties
  <2> QED BY <2>2 DEF FieldOf, p, q, I
<1> QED BY <1>1, <1>2, <1>5, <1>6, <1>7, <1>8 DEF p, q, n, I

\* Of nothing there is no field, of what has no separator it is the only one.
LEMMA FieldsOfOne ==
  ASSUME NEW U, NEW X
  PROVE  /\ Fields(<< >>, X) = << >>
         /\ \A s \in Seq(U \ X) : s # << >> => Fields(s, X) = <<s>>
<1>1. Fields(<< >>, X) = << >>
  <2>1. << >> \in Seq(U) /\ Len(<< >>) = 0
    OBVIOUS
  <2>2. Inside(<< >>, X) = {}
    BY DEF Inside
  <2>3. First(Inside(<< >>, X)) = {} /\ Cardinality({}) = 0
    BY <2>2, FS_EmptySet DEF First
  <2>4. Fields(<< >>, X) = [k \in 1..0 |-> FieldOf(<< >>, X, k)]
    BY <2>1, <2>3, FieldsAre
  <2> QED BY <2>4
<1> SUFFICES ASSUME NEW s \in Seq(U \ X), s # << >> PROVE Fields(s, X) = <<s>>
  BY <1>1
<1>2. Len(s) \in Nat \ {0} /\ DOMAIN s = 1..Len(s) /\ \A i \in 1..Len(s) : s[i] \in U \ X
  OBVIOUS
<1>3. Inside(s, X) = 1..Len(s)
  BY <1>2 DEF Inside
<1>4. First(1..Len(s)) = {1} /\ Final(1..Len(s)) = {Len(s)}
  BY <1>2 DEF First, Final
<1>5. \A x \in Int : InOrder({x}) = <<x>> /\ Cardinality({x}) = 1
  <2> TAKE x \in Int
  <2>1. <<x>> \in Seq(Int) /\ Ascending(<<x>>) /\ Elements(<<x>>) = {x}
    BY DEF Ascending, Elements
  <2>2. InOrder(Elements(<<x>>)) = <<x>>
    BY <2>1, OrderedOnly
  <2> QED BY <2>1, <2>2, FS_Singleton
<1>6. s \in Seq(U)
  BY <1>2
<1>7. Fields(s, X) = [k \in 1..1 |-> FieldOf(s, X, k)]
  BY <1>2, <1>3, <1>4, <1>5, <1>6, FieldsAre
<1>8. FieldOf(s, X, 1) = SubSeq(s, 1, Len(s))
  BY <1>2, <1>3, <1>4, <1>5 DEF FieldOf
<1>9. FieldOf(s, X, 1) = s
  BY <1>6, <1>8, SubSeqFull
<1>10. Fields(s, X) = [k \in 1..1 |-> s]
  BY <1>7, <1>9
<1> QED BY <1>10

\* A separator ends a field: the fields of both sides, one after the other.
LEMMA FieldsCat ==
  ASSUME NEW U, NEW X, NEW a \in Seq(U), NEW x \in U \cap X, NEW b \in Seq(U)
  PROVE  /\ Fields(Cat(a, Onto(x, b)), X) = Cat(Fields(a, X), Fields(b, X))
         /\ Fields(a, X) \in Seq(Seq(U))
<1> DEFINE v == Cat(a, Onto(x, b))
           n == Len(a)
           m == Len(b)
           d == n + 1
           I == Inside(a, X)
           J == Inside(b, X)
           K == Inside(v, X)
<1>0. /\ n \in Nat /\ DOMAIN a = 1..n /\ m \in Nat /\ DOMAIN b = 1..m
      /\ \A i \in 1..n : a[i] \in U /\ \A j \in 1..m : b[j] \in U
  OBVIOUS
<1>1. /\ v \in Seq(U) /\ Len(v) = d + m /\ DOMAIN v = 1..d + m
      /\ \A i \in 1..n : v[i] = a[i]
      /\ v[d] = x
      /\ \A j \in 1..m : v[j + d] = b[j]
  <2> DEFINE w == Onto(x, b)
  <2>1. /\ w \in Seq(U) /\ Len(w) = m + 1 /\ w[1] = x
        /\ \A j \in 1..m : w[j + 1] = b[j]
    BY ConsFacts DEF Onto
  <2> HIDE DEF w
  <2>2. /\ Cat(a, w) \in Seq(U) /\ Len(Cat(a, w)) = n + Len(w)
        /\ \A i \in 1..n + Len(w) : Cat(a, w)[i] = IF i <= n THEN a[i] ELSE w[i - n]
    BY <2>1, ConcatProperties DEF Cat
  <2>3. v = Cat(a, w)
    BY DEF w
  <2> HIDE DEF v, n, m
  <2>4. \A i \in 1..n : v[i] = a[i]
    BY <1>0, <2>1, <2>2, <2>3
  <2>5. v[d] = x
    <3>1. d \in 1..n + Len(w) /\ ~(d <= n) /\ d - n = 1
      BY <1>0, <2>1
    <3> QED BY <2>1, <2>2, <2>3, <3>1
  <2>6. \A j \in 1..m : v[j + d] = b[j]
    <3> TAKE j \in 1..m
    <3>1. j + d \in 1..n + Len(w) /\ ~(j + d <= n) /\ (j + d) - n = j + 1
      BY <1>0, <2>1
    <3>2. v[j + d] = w[(j + d) - n]
      <4> DEFINE i == j + d
      <4> HIDE DEF i
      <4>1. i \in 1..n + Len(w) /\ ~(i <= n)
        BY <3>1 DEF i
      <4>2. v[i] = w[i - n]
        BY <2>2, <2>3, <4>1
      <4> HIDE DEF d
      <4> QED BY <4>2, Zenon DEF i
    <3> HIDE DEF d
    <3> QED BY <2>1, <3>1, <3>2
  <2>7. v \in Seq(U) /\ Len(v) = d + m
    BY <1>0, <2>1, <2>2, <2>3
  <2>8. DOMAIN v = 1..Len(v)
    BY <2>7
  <2> QED BY <2>4, <2>5, <2>6, <2>7, <2>8
<1> HIDE DEF v, n, m
<1>2. I \in SUBSET (1..n) /\ J \in SUBSET (1..m) /\ \A j \in J : j \in Int
  BY <1>0 DEF Inside
<1>3. K = I \cup Shift(J, d)
  <2>1. ASSUME NEW i \in 1..d + m PROVE i \in K <=> i \in I \cup Shift(J, d)
    <3>1. CASE i <= n
      <4>1. i \in 1..n /\ \A j \in J : i # j + d
        BY <1>0, <1>2, <3>1
      <4>2. i \in K <=> i \in I
        BY <1>0, <1>1, <4>1 DEF Inside
      <4> QED BY <4>1, <4>2 DEF Shift
    <3>2. CASE i = d
      <4>1. \A j \in J : i # j + d
        BY <1>0, <1>2, <3>2
      <4>2. i \notin I
        BY <1>0, <1>2, <3>2
      <4>3. i \notin K
        BY <1>1, <3>2 DEF Inside
      <4> QED BY <4>1, <4>2, <4>3 DEF Shift
    <3>3. CASE i > d
      <4>1. i \notin I
        BY <1>0, <1>2, <3>3
      <4>2. PICK j \in 1..m : i = j + d
        <5>1. i - d \in 1..m /\ i = (i - d) + d
          BY <1>0, <3>3
        <5> QED BY <5>1
      <4>3. i \in K <=> j \in J
        BY <1>0, <1>1, <4>2 DEF Inside
      <4>4. \A k \in J : i = k + d => k = j
        BY <1>0, <1>2, <4>2
      <4> QED BY <4>1, <4>2, <4>3, <4>4 DEF Shift
    <3> QED BY <1>0, <3>1, <3>2, <3>3
  <2>2. K \subseteq 1..d + m
    BY <1>1 DEF Inside
  <2>3. I \cup Shift(J, d) \subseteq 1..d + m
    <3>1. \A j \in J : j + d \in 1..d + m
      BY <1>0, <1>2
    <3>2. \A i \in I : i \in 1..d + m
      BY <1>0, <1>2
    <3> QED BY <3>1, <3>2 DEF Shift
  <2> HIDE DEF I, J, K
  <2> QED BY <2>1, <2>2, <2>3
<1> HIDE DEF I, J, K
<1>4. First(K) = First(I) \cup Shift(First(J), d) /\ Final(K) = Final(I) \cup Shift(Final(J), d)
  <2>1. d = n + 1
    OBVIOUS
  <2> HIDE DEF d
  <2> HIDE DEF I, J, K
  <2>2. n \in Nat /\ m \in Nat /\ I \in SUBSET (1..n) /\ J \in SUBSET (1..m)
    BY <1>0, <1>2
  <2>3. Apart(n, I, m, J, d, K)
    BY <1>3, <2>1, <2>2 DEF Apart
  <2> QED BY <2>3, RunsApart
<1>5. /\ First(I) \in SUBSET (1..n) /\ Final(I) \in SUBSET (1..n)
      /\ IsFiniteSet(First(I)) /\ IsFiniteSet(Final(I))
      /\ First(I) \in SUBSET Int /\ Final(I) \in SUBSET Int
      /\ Cardinality(First(I)) = Cardinality(Final(I))
  BY <1>0, <1>2, AsManyEnds
<1>6. /\ First(J) \in SUBSET (1..m) /\ Final(J) \in SUBSET (1..m)
      /\ IsFiniteSet(First(J)) /\ IsFiniteSet(Final(J))
      /\ First(J) \in SUBSET Int /\ Final(J) \in SUBSET Int
      /\ Cardinality(First(J)) = Cardinality(Final(J))
  BY <1>0, <1>2, AsManyEnds
<1> DEFINE Laid(S, T, Y) ==
             /\ Cardinality(S) \in Nat /\ Cardinality(T) \in Nat
             /\ Len(InOrder(Y)) = Cardinality(S) + Cardinality(T)
             /\ \A k \in 1..Cardinality(S) :
                  InOrder(Y)[k] = InOrder(S)[k] /\ InOrder(S)[k] \in 1..n
             /\ \A k \in 1..Cardinality(T) :
                  /\ InOrder(Y)[k + Cardinality(S)] = InOrder(T)[k] + d
                  /\ InOrder(T)[k] \in 1..m
<1>7. ASSUME NEW S \in SUBSET (1..n), IsFiniteSet(S), S \in SUBSET Int,
             NEW T \in SUBSET (1..m), IsFiniteSet(T), T \in SUBSET Int
      PROVE  Laid(S, T, S \cup Shift(T, d))
  <2>1. /\ \A s \in S : s \in Int /\ s <= n
        /\ \A t \in T : t \in Int /\ t >= 1
    BY <1>0, <1>7
  <2> DEFINE Z == Shift(T, d)
             p == InOrder(S)
             q == InOrder(T)
             z == InOrder(Z)
  <2>2. Z \in SUBSET Int /\ \A s \in S : \A y \in Z : s < y
    BY <1>0, <2>1 DEF Shift
  <2>3. IsFiniteSet(Z)
    <3> DEFINE f == [t \in T |-> t + d]
    <3>1. f \in Surjection(T, Z)
      BY DEF Surjection, Shift
    <3> HIDE DEF f
    <3> QED BY <1>7, <3>1, FS_Surjection
  <2>4. /\ Len(z) = Len(q) /\ \A k \in 1..Len(q) : z[k] = q[k] + d
    <3>1. d \in Int
      BY <1>0
    <3>2. /\ Len(InOrder({t + d : t \in T})) = Len(q)
          /\ \A k \in 1..Len(q) : InOrder({t + d : t \in T})[k] = q[k] + d
      <4> HIDE DEF d, q
      <4> QED BY <1>7, <3>1, OrderedShift DEF q
    <3> QED BY <3>2 DEF Shift
  <2> HIDE DEF Z
  <2>5. InOrder(S \cup Z) = p \o z
    BY <1>7, <2>2, <2>3, OrderedCat
  <2>6. /\ p \in Seq(Int) /\ Len(p) = Cardinality(S) /\ Elements(p) = S
        /\ q \in Seq(Int) /\ Len(q) = Cardinality(T) /\ Elements(q) = T
        /\ z \in Seq(Int)
    BY <1>7, <2>2, <2>3, Ordered
  <2>7. Cardinality(S) \in Nat /\ Cardinality(T) \in Nat
    BY <1>7, FS_CardinalityType
  <2> HIDE DEF p, q, z
  <2>8. /\ DOMAIN p = 1..Cardinality(S) /\ DOMAIN q = 1..Cardinality(T)
        /\ \A k \in 1..Cardinality(S) : p[k] \in S
        /\ \A k \in 1..Cardinality(T) : q[k] \in T
    <3>1. DOMAIN p = 1..Cardinality(S) /\ DOMAIN q = 1..Cardinality(T)
      BY <2>6
    <3> QED BY <2>6, <3>1 DEF Elements
  <2>9. /\ Len(p \o z) = Len(p) + Len(z)
        /\ \A k \in 1..Len(p) + Len(z) : (p \o z)[k] = IF k <= Len(p) THEN p[k] ELSE z[k - Len(p)]
    BY <2>6, ConcatProperties
  <2>10. \A k \in 1..Cardinality(S) : (p \o z)[k] = p[k]
    BY <2>4, <2>6, <2>7, <2>9
  <2>11. ASSUME NEW k \in 1..Cardinality(T) PROVE (p \o z)[k + Cardinality(S)] = q[k] + d
    <3>1. /\ k + Cardinality(S) \in 1..Len(p) + Len(z) /\ ~(k + Cardinality(S) <= Len(p))
          /\ (k + Cardinality(S)) - Len(p) = k
      BY <2>4, <2>6, <2>7
    <3>2. (p \o z)[k + Cardinality(S)] = z[(k + Cardinality(S)) - Len(p)]
      <4> DEFINE i == k + Cardinality(S)
      <4> HIDE DEF i
      <4>1. i \in 1..Len(p) + Len(z) /\ ~(i <= Len(p))
        BY <3>1 DEF i
      <4>2. (p \o z)[i] = z[i - Len(p)]
        BY <2>9, <4>1
      <4> QED BY <4>2, Zenon DEF i
    <3>3. (p \o z)[k + Cardinality(S)] = z[k]
      BY <3>1, <3>2
    <3> QED BY <2>4, <2>6, <3>3
  <2> QED BY <1>7, <2>4, <2>5, <2>6, <2>7, <2>8, <2>9, <2>10, <2>11 DEF p, q, Z
<1> DEFINE c == Cardinality(First(I))
           e == Cardinality(First(J))
<1>8. /\ c \in Nat /\ e \in Nat
      /\ Len(InOrder(First(K))) = c + e
      /\ \A k \in 1..c : /\ InOrder(First(K))[k] = InOrder(First(I))[k]
                         /\ InOrder(First(I))[k] \in 1..n
      /\ \A k \in 1..e : /\ InOrder(First(K))[k + c] = InOrder(First(J))[k] + d
                         /\ InOrder(First(J))[k] \in 1..m
  <2>1. Laid(First(I), First(J), First(K))
    <3> HIDE DEF Laid, d
    <3> QED BY <1>4, <1>5, <1>6, <1>7
  <2> HIDE DEF d
  <2> QED BY <2>1
<1>9. /\ \A k \in 1..c : /\ InOrder(Final(K))[k] = InOrder(Final(I))[k]
                         /\ InOrder(Final(I))[k] \in 1..n
      /\ \A k \in 1..e : /\ InOrder(Final(K))[k + c] = InOrder(Final(J))[k] + d
                         /\ InOrder(Final(J))[k] \in 1..m
  <2>1. Laid(Final(I), Final(J), Final(K))
    <3> HIDE DEF Laid, d
    <3> QED BY <1>4, <1>5, <1>6, <1>7
  <2> HIDE DEF d
  <2> QED BY <1>5, <1>6, <2>1
<1>10. Cardinality(First(K)) = c + e
  <2>1. K \in SUBSET (1..d + m) /\ d + m \in Nat
    BY <1>0, <1>1 DEF K, Inside
  <2>2. First(K) \in SUBSET Int /\ IsFiniteSet(First(K))
    BY <2>1, AsManyEnds
  <2>3. Len(InOrder(First(K))) = Cardinality(First(K))
    BY <2>2, Ordered
  <2> QED BY <1>8, <2>3
<1> HIDE DEF c, e
<1>11. /\ Fields(v, X) = [k \in 1..c + e |-> FieldOf(v, X, k)]
       /\ \A k \in 1..c + e : FieldOf(v, X, k) \in Seq(U)
  BY <1>1, <1>10, FieldsAre DEF K
<1>12. /\ Fields(a, X) = [k \in 1..c |-> FieldOf(a, X, k)]
       /\ \A k \in 1..c : FieldOf(a, X, k) \in Seq(U)
       /\ Fields(b, X) = [k \in 1..e |-> FieldOf(b, X, k)]
       /\ \A k \in 1..e : FieldOf(b, X, k) \in Seq(U)
  BY FieldsAre DEF I, J, c, e
<1>13. ASSUME NEW k \in 1..c PROVE FieldOf(v, X, k) = FieldOf(a, X, k)
  <2> DEFINE p == InOrder(First(I))[k]
             q == InOrder(Final(I))[k]
  <2>1. p \in 1..n /\ q \in 1..n
    BY <1>8, <1>9
  <2>2. FieldOf(v, X, k) = SubSeq(v, p, q) /\ FieldOf(a, X, k) = SubSeq(a, p, q)
    BY <1>8, <1>9 DEF FieldOf, K, I
  <2> HIDE DEF p, q
  <2>3. SubSeq(a \o Onto(x, b), p, q) = SubSeq(a, p, q)
    <3>1. Onto(x, b) \in Seq(U)
      BY ConsAlgebra
    <3> QED BY <2>1, <3>1, SubSeqOfConcat1 DEF n
  <2> QED BY <2>2, <2>3 DEF v, Cat
<1>14. ASSUME NEW k \in 1..e PROVE FieldOf(v, X, k + c) = FieldOf(b, X, k)
  <2> DEFINE p == InOrder(First(J))[k]
             q == InOrder(Final(J))[k]
  <2>1. p \in 1..m /\ q \in 1..m
    BY <1>8, <1>9
  <2>2. FieldOf(v, X, k + c) = SubSeq(v, p + d, q + d) /\ FieldOf(b, X, k) = SubSeq(b, p, q)
    BY <1>8, <1>9 DEF FieldOf, K, J
  <2> HIDE DEF p, q
  <2> DEFINE f == Cat(a, <<x>>)
  <2>3. f \in Seq(U) /\ Len(f) = d /\ v = f \o b
    <3>1. f \in Seq(U) /\ Len(f) = n + 1
      BY ConcatProperties DEF Cat, n
    <3>2. a \o (<<x>> \o b) = (a \o <<x>>) \o b
      <4>1. <<x>> \in Seq(U)
        OBVIOUS
      <4> QED BY <4>1, ConcatAssociative
    <3> QED BY <3>1, <3>2 DEF v, Cat, Onto
  <2> HIDE DEF f
  <2>4. p + d \in Len(f) + 1..Len(f) + Len(b) /\ q + d \in Len(f) + 1..Len(f) + Len(b)
        /\ (p + d) - Len(f) = p /\ (q + d) - Len(f) = q
    BY <1>0, <2>1, <2>3 DEF m
  <2>5. SubSeq(f \o b, p + d, q + d) = SubSeq(b, (p + d) - Len(f), (q + d) - Len(f))
    <3> DEFINE i == p + d
               j == q + d
    <3>1. i \in Len(f) + 1..Len(f) + Len(b) /\ j \in Len(f) + 1..Len(f) + Len(b)
      BY <2>4
    <3> HIDE DEF i, j
    <3>2. SubSeq(f \o b, i, j) = SubSeq(b, i - Len(f), j - Len(f))
      BY <2>3, <3>1, SubSeqOfConcat2
    <3> HIDE DEF d
    <3> QED BY <3>2, Zenon DEF i, j
  <2> QED BY <2>2, <2>3, <2>4, <2>5
<1> DEFINE F == Fields(v, X)
           G == Fields(a, X)
           H == Fields(b, X)
           W == Seq(U)
<1>15. /\ F \in Seq(W) /\ Len(F) = c + e /\ \A k \in 1..c + e : F[k] = FieldOf(v, X, k)
       /\ G \in Seq(W) /\ Len(G) = c /\ \A k \in 1..c : G[k] = FieldOf(a, X, k)
       /\ H \in Seq(W) /\ Len(H) = e /\ \A k \in 1..e : H[k] = FieldOf(b, X, k)
  <2> HIDE DEF W
  <2>1. /\ \A k \in 1..c + e : FieldOf(v, X, k) \in W
        /\ \A k \in 1..c : FieldOf(a, X, k) \in W
        /\ \A k \in 1..e : FieldOf(b, X, k) \in W
    BY <1>11, <1>12 DEF W
  <2> QED BY <1>8, <1>11, <1>12, <2>1
<1> HIDE DEF F, G, H, W
<1>16. /\ G \o H \in Seq(W) /\ Len(G \o H) = c + e
       /\ \A k \in 1..c + e : (G \o H)[k] = IF k <= c THEN G[k] ELSE H[k - c]
  BY <1>15, ConcatProperties
<1>17. \A k \in 1..c + e : F[k] = (G \o H)[k]
  <2> TAKE k \in 1..c + e
  <2>1. CASE k <= c
    <3>1. k \in 1..c
      BY <1>8, <2>1
    <3> QED BY <1>13, <1>15, <1>16, <2>1, <3>1
  <2>2. CASE ~(k <= c)
    <3> DEFINE j == k - c
    <3>1. j \in 1..e /\ k = j + c
      BY <1>8, <2>2
    <3>2. FieldOf(v, X, j + c) = FieldOf(b, X, j)
      <4> HIDE DEF j
      <4> QED BY <1>14, <3>1
    <3> QED BY <1>15, <1>16, <2>2, <3>1, <3>2
  <2> QED BY <2>1, <2>2
<1>18. F = G \o H
  BY <1>15, <1>16, <1>17, SeqEqual
<1> QED BY <1>15, <1>18 DEF F, G, H, v, W, Cat

-----------------------------------------------------------------------------
(* The text of merges. *)

\* Printed characters, and those that separate nothing.
Mark == ({"raw", "x", "u", "gpt2"} \X Char) \cup {Arrow}
Separators == Blanks \cup {Arrow}
Clear == Mark \ Separators

\* The operands of a merge as they are printed.
Line == {<<l, r>> : l \in Seq(Clear) \ {<< >>}, r \in Seq(Clear) \ {<< >>}}

\* What is written for it: without an end, and string by string.
Body(l) == Cat(l[1], Onto(Raw(Space), Cat(l[2], Onto(Arrow, << >>))))

LinePieces ==
  [l \in Line |->
     Onto(l[1], Onto(<<Raw(Space)>>, Onto(l[2], Onto(<<Arrow>>, Onto(<<Raw(Newline)>>, << >>)))))]

\* What a file that was cut off has of its last line.
Partial(l) ==
  {l[1], Cat(l[1], Onto(Raw(Space), << >>)), Cat(l[1], Onto(Raw(Space), l[2])), Body(l)}

\* Blanks and the arrow are marks, and the arrow is no blank.
LEMMA MarkFacts ==
  /\ Blanks \subseteq Mark /\ Arrow \in Mark /\ Arrow \notin Blanks
  /\ Raw(Space) \in Blanks /\ Raw(Newline) \in Blanks /\ Raw(Space) # Raw(Newline)
  /\ Raw(OpenBox) \in Clear
<1>1. \A s \in Blank : s \in Char
  BY ModelFilesAssumption DEF Char
<1>2. \A s : Raw(s) # Arrow
  BY DEF Raw, Arrow
<1>3. \A s, t : Raw(s) = Raw(t) => s = t
  BY DEF Raw
<1>4. OpenBox \in Char /\ OpenBox \notin Blank /\ {Space, Newline} \subseteq Blank /\ Space # Newline
  BY ModelFilesAssumption DEF Char
<1>5. \A s \in Char : Raw(s) \in Mark
  BY DEF Raw, Mark
<1>6. Arrow \in Mark
  BY DEF Mark
<1> QED BY <1>1, <1>2, <1>3, <1>4, <1>5, <1>6 DEF Blanks, Clear, Separators

\* The operands of a line are two clear texts.
LEMMA LineFacts ==
  ASSUME NEW l \in Line
  PROVE  /\ l[1] \in Seq(Clear) /\ l[1] # << >> /\ l[2] \in Seq(Clear) /\ l[2] # << >>
         /\ l[1] \in Seq(Mark) /\ l[2] \in Seq(Mark) /\ l = <<l[1], l[2]>>
<1>1. PICK a \in Seq(Clear) \ {<< >>}, b \in Seq(Clear) \ {<< >>} : l = <<a, b>>
  BY DEF Line
<1>2. a \in Seq(Mark) /\ b \in Seq(Mark)
  <2>1. Clear \subseteq Mark
    BY DEF Clear
  <2> QED BY <2>1, SeqMonotonic
<1> QED BY <1>1, <1>2

\* The pieces of a line are its body and its end.
LEMMA LineText ==
  ASSUME NEW l \in Line
  PROVE  /\ LinePieces[l] \in Seq(Seq(Mark)) /\ Body(l) \in Seq(Mark)
         /\ FlattenSeq(LinePieces[l]) = Cat(Body(l), Onto(Raw(Newline), << >>))
<1> DEFINE W == Seq(Mark)
           a == l[1]
           b == l[2]
           sp == Raw(Space)
           nl == Raw(Newline)
           none == << >>
<1>0. /\ a \in W /\ b \in W /\ sp \in Mark /\ nl \in Mark /\ Arrow \in Mark
      /\ <<sp>> \in W /\ <<nl>> \in W /\ <<Arrow>> \in W
  BY LineFacts, MarkFacts
<1>1. /\ << >> \in W /\ \A s \in W : Cat(<< >>, s) = s /\ Cat(s, << >>) = s
      /\ \A s, t \in W : Cat(s, t) \in W
      /\ \A s, t, u \in W : Cat(Cat(s, t), u) = Cat(s, Cat(t, u))
      /\ \A x \in Mark, s \in W : Onto(x, s) \in W
      /\ \A x \in Mark, s, t \in W : Cat(Onto(x, s), t) = Onto(x, Cat(s, t))
  BY ConsAlgebra
<1>2. \A x, s : Onto(x, s) = Cat(<<x>>, s)
  BY DEF Onto, Cat
<1>3. \A s \in W, ss \in Seq(W) : Onto(s, ss) \in Seq(W)
  BY ConsAlgebra
<1>4. \A s \in W, ss \in Seq(W) : FlattenSeq(Onto(s, ss)) = Cat(s, FlattenSeq(ss))
  BY FlattenOnto
<1>5. FlattenSeq(<< >>) = << >> /\ << >> \in Seq(W)
  BY FlattenCat
<1>6. LinePieces[l] = Onto(a, Onto(<<sp>>, Onto(b, Onto(<<Arrow>>, Onto(<<nl>>, << >>)))))
  BY DEF LinePieces
<1>7. Body(l) = Cat(a, Onto(sp, Cat(b, Onto(Arrow, << >>))))
  BY DEF Body
<1> HIDE DEF W, a, b, sp, nl
<1> DEFINE e1 == Onto(<<nl>>, << >>)
           e2 == Onto(<<Arrow>>, e1)
           e3 == Onto(b, e2)
           e4 == Onto(<<sp>>, e3)
<1>8. e1 \in Seq(W) /\ FlattenSeq(e1) = Cat(<<nl>>, << >>)
  BY <1>0, <1>3, <1>4, <1>5
<1> HIDE DEF e1
<1>9. e2 \in Seq(W) /\ FlattenSeq(e2) = Cat(<<Arrow>>, FlattenSeq(e1))
  BY <1>0, <1>3, <1>4, <1>8
<1> HIDE DEF e2
<1>10. e3 \in Seq(W) /\ FlattenSeq(e3) = Cat(b, FlattenSeq(e2))
  BY <1>0, <1>3, <1>4, <1>9
<1> HIDE DEF e3
<1>11. e4 \in Seq(W) /\ FlattenSeq(e4) = Cat(<<sp>>, FlattenSeq(e3))
  BY <1>0, <1>3, <1>4, <1>10
<1> HIDE DEF e4
<1>12. LinePieces[l] \in Seq(W) /\ FlattenSeq(LinePieces[l]) = Cat(a, FlattenSeq(e4))
  BY <1>0, <1>3, <1>4, <1>6, <1>11 DEF e1, e2, e3, e4
<1> DEFINE n1 == Onto(nl, << >>)
           t1 == Onto(Arrow, << >>)
           t2 == Cat(b, t1)
           t3 == Onto(sp, t2)
<1>13. n1 \in W /\ t1 \in W /\ t2 \in W /\ t3 \in W /\ Body(l) = Cat(a, t3) /\ Body(l) \in W
  BY <1>0, <1>1, <1>7
<1>14. FlattenSeq(e1) = n1
  BY <1>2, <1>8
<1>15. FlattenSeq(e2) = Cat(t1, n1)
  <2>1. Cat(t1, n1) = Onto(Arrow, Cat(<< >>, n1))
    <3> HIDE DEF n1
    <3> QED BY <1>0, <1>1, <1>13
  <2>2. Cat(t1, n1) = Onto(Arrow, n1)
    <3> HIDE DEF n1, t1
    <3> QED BY <1>1, <1>13, <2>1
  <2> HIDE DEF n1, t1
  <2> QED BY <1>2, <1>9, <1>14, <2>2
<1> HIDE DEF n1, t1
<1>16. FlattenSeq(e3) = Cat(t2, n1)
  <2>1. Cat(Cat(b, t1), n1) = Cat(b, Cat(t1, n1))
    BY <1>0, <1>1, <1>13
  <2> QED BY <1>10, <1>15, <2>1
<1> HIDE DEF t2
<1>17. FlattenSeq(e4) = Cat(t3, n1)
  <2>1. Cat(Onto(sp, t2), n1) = Onto(sp, Cat(t2, n1))
    BY <1>0, <1>1, <1>13
  <2> QED BY <1>2, <1>11, <1>16, <2>1
<1> HIDE DEF t3
<1>18. Cat(a, Cat(t3, n1)) = Cat(Cat(a, t3), n1)
  BY <1>0, <1>1, <1>13
<1> QED BY <1>12, <1>13, <1>17, <1>18 DEF W, n1, nl

\* What there is of a last line: one line, not blank, whose words are the
\* first operand, or both.
LEMMA PartialFields ==
  ASSUME NEW l \in Line, NEW t \in Partial(l)
  PROVE  /\ t \in Seq(Mark) /\ Fields(t, {Raw(Newline)}) = <<t>>
         /\ Fields(t, Blanks) # << >>
         /\ Fields(t, Separators) \in {<<l[1]>>, l}
         /\ t = Body(l) => Fields(t, Separators) = l
<1> DEFINE W == Seq(Mark)
           a == l[1]
           b == l[2]
           sp == Raw(Space)
           nl == Raw(Newline)
           V == Mark \ {nl}
           ar == Onto(Arrow, << >>)
<1>0. /\ a \in Seq(Clear) /\ a # << >> /\ b \in Seq(Clear) /\ b # << >>
      /\ a \in W /\ b \in W /\ l = <<a, b>>
  BY LineFacts
<1>1. /\ sp \in V /\ Arrow \in V /\ Clear \subseteq V /\ nl \in Mark
      /\ sp \in Mark \cap Blanks /\ sp \in Mark \cap Separators
      /\ Arrow \in Mark \cap Separators
      /\ Clear \subseteq Mark \ Blanks /\ Clear = Mark \ Separators /\ Arrow \in Mark \ Blanks
  BY MarkFacts DEF Clear, Separators
<1>2. a \in Seq(V) /\ b \in Seq(V) /\ a \in Seq(Mark \ Blanks) /\ b \in Seq(Mark \ Blanks)
  BY <1>0, <1>1, SeqMonotonic
<1>3. /\ << >> \in Seq(V) /\ \A s, r \in Seq(V) : Cat(s, r) \in Seq(V) /\ (Cat(s, r) = << >> => s = << >>)
      /\ \A x \in V, s \in Seq(V) : Onto(x, s) \in Seq(V)
  <2> HIDE DEF V
  <2>1. /\ << >> \in Seq(V) /\ \A s, r \in Seq(V) : Cat(s, r) \in Seq(V)
        /\ \A x \in V, s \in Seq(V) : Onto(x, s) \in Seq(V)
    BY ConsAlgebra
  <2>2. ASSUME NEW s \in Seq(V), NEW r \in Seq(V), s # << >> PROVE Cat(s, r) # << >>
    <3>1. Len(s \o r) = Len(s) + Len(r) /\ Len(s) > 0 /\ Len(r) >= 0
      BY <2>2
    <3> QED BY <3>1 DEF Cat
  <2> QED BY <2>1, <2>2
<1>4. /\ << >> \in W /\ \A s, r \in W : Cat(s, r) \in W
      /\ \A x \in Mark, s \in W : Onto(x, s) \in W
      /\ \A s \in W : Cat(s, << >>) = s
  BY ConsAlgebra
<1>5. t \in {a, Cat(a, Onto(sp, << >>)), Cat(a, Onto(sp, b)), Cat(a, Onto(sp, Cat(b, ar)))}
      /\ Body(l) = Cat(a, Onto(sp, Cat(b, ar)))
  BY DEF Partial, Body
<1>6. ar \in Seq(V) /\ ar \in W
  BY <1>1, <1>3, <1>4
<1> HIDE DEF a, b, sp, nl, ar, W, V
<1>7. t \in Seq(V) /\ t # << >>
  BY <1>0, <1>1, <1>2, <1>3, <1>5, <1>6
<1>8. t \in W /\ Fields(t, {nl}) = <<t>>
  <2>1. t \in W
    BY <1>7, SeqMonotonic DEF V, W
  <2>2. Fields(t, {nl}) = <<t>>
    <3>1. \A s \in Seq(Mark \ {nl}) : s # << >> => Fields(s, {nl}) = <<s>>
      BY FieldsOfOne
    <3> QED BY <1>7, <3>1 DEF V
  <2> QED BY <2>1, <2>2
<1>9. Fields(a, Blanks) = <<a>> /\ Fields(a, Separators) = <<a>> /\ Fields(b, Separators) = <<b>>
  <2>1. /\ \A s \in Seq(Mark \ Blanks) : s # << >> => Fields(s, Blanks) = <<s>>
        /\ \A s \in Seq(Mark \ Separators) : s # << >> => Fields(s, Separators) = <<s>>
    BY FieldsOfOne
  <2> QED BY <1>0, <1>1, <1>2, <2>1
<1>10. \A s \in W : /\ Fields(Cat(a, Onto(sp, s)), Blanks) = Cat(<<a>>, Fields(s, Blanks))
                   /\ Fields(s, Blanks) \in Seq(W)
                   /\ Fields(Cat(a, Onto(sp, s)), Separators) = Cat(<<a>>, Fields(s, Separators))
  <2> TAKE s \in W
  <2>1. Fields(Cat(a, Onto(sp, s)), Blanks) = Cat(Fields(a, Blanks), Fields(s, Blanks))
        /\ Fields(s, Blanks) \in Seq(Seq(Mark))
    BY <1>0, <1>1, FieldsCat DEF W
  <2>2. Fields(Cat(a, Onto(sp, s)), Separators) = Cat(Fields(a, Separators), Fields(s, Separators))
    BY <1>0, <1>1, FieldsCat DEF W
  <2> QED BY <1>9, <2>1, <2>2 DEF W
<1>11. /\ Fields(<< >>, Separators) = << >>
       /\ Fields(Cat(b, ar), Separators) = <<b>>
  <2>1. Fields(<< >>, Separators) = << >>
    BY FieldsOfOne
  <2>2. Fields(Cat(b, Onto(Arrow, << >>)), Separators) = Cat(Fields(b, Separators), Fields(<< >>, Separators))
    <3>1. \A r, s \in Seq(Mark), x \in Mark \cap Separators :
            Fields(Cat(r, Onto(x, s)), Separators) = Cat(Fields(r, Separators), Fields(s, Separators))
      BY FieldsCat
    <3> QED BY <1>0, <1>1, <1>4, <3>1 DEF W
  <2>3. Cat(<<b>>, << >>) = <<b>>
    BY <1>0, ConcatEmptySeq DEF Cat
  <2> QED BY <1>9, <2>1, <2>2, <2>3 DEF ar
<1>12. Fields(t, Blanks) # << >>
  <2>1. \A s \in W : Cat(<<a>>, Fields(s, Blanks)) # << >>
    <3> TAKE s \in W
    <3>1. Onto(a, Fields(s, Blanks)) # << >>
      BY <1>0, <1>10, ConsAlgebra
    <3> QED BY <3>1 DEF Onto, Cat
  <2>2. << >> \in W /\ b \in W /\ Cat(b, ar) \in W
    BY <1>0, <1>4, <1>6
  <2>3. <<a>> # << >>
    OBVIOUS
  <2> QED BY <1>5, <1>9, <1>10, <2>1, <2>2, <2>3
<1>13. /\ Cat(<<a>>, << >>) = <<a>> /\ Cat(<<a>>, <<b>>) = l
  <2>1. <<a>> \o << >> = <<a>>
    OBVIOUS
  <2>2. <<a>> \o <<b>> = <<a, b>>
    <3>1. <<a>> \in Seq(W) /\ <<b>> \in Seq(W) /\ <<a, b>> \in Seq(W)
      BY <1>0
    <3>2. Len(<<a>> \o <<b>>) = 2 /\ (<<a>> \o <<b>>)[1] = a /\ (<<a>> \o <<b>>)[2] = b
          /\ <<a>> \o <<b>> \in Seq(W)
      BY <3>1
    <3>3. \A i \in 1..2 : (<<a>> \o <<b>>)[i] = <<a, b>>[i]
      BY <3>2
    <3> HIDE DEF W
    <3> QED BY <3>1, <3>2, <3>3, SeqEqual
  <2> QED BY <1>0, <2>1, <2>2 DEF Cat
<1>14. /\ Fields(Cat(a, Onto(sp, << >>)), Separators) = <<a>>
       /\ Fields(Cat(a, Onto(sp, b)), Separators) = l
       /\ Fields(Cat(a, Onto(sp, Cat(b, ar))), Separators) = l
  <2>1. << >> \in W /\ b \in W /\ Cat(b, ar) \in W
    BY <1>0, <1>4, <1>6
  <2> QED BY <1>9, <1>10, <1>11, <1>13, <2>1
<1> QED BY <1>5, <1>8, <1>9, <1>12, <1>14 DEF W, nl, a

BodyOf == [l \in Line |-> Body(l)]

\* The lines of whole merges, before any other text.
LEMMA TextLines ==
  /\ Maps(LinePieces, Line, Seq(Mark)) /\ Into(BodyOf, Line, Seq(Mark))
  /\ \A ls \in Seq(Line), t \in Seq(Mark) :
       /\ FlattenSeq(Mapped(LinePieces, ls)) \in Seq(Mark)
       /\ Fields(Cat(FlattenSeq(Mapped(LinePieces, ls)), t), {Raw(Newline)})
            = Cat(Image(BodyOf, ls), Fields(t, {Raw(Newline)}))
<1> DEFINE W == Seq(Mark)
           nl == Raw(Newline)
           T(ls) == FlattenSeq(Mapped(LinePieces, ls))
           I(ls) == Image(BodyOf, ls)
           G(t) == Fields(t, {nl})
           k == [l \in Line |-> FlattenSeq(LinePieces[l])]
           id == [s \in W |-> s]
<1>1. \A l \in Line : LinePieces[l] \in Seq(W) /\ Body(l) \in W
                      /\ k[l] = Cat(Body(l), Onto(nl, << >>))
  BY LineText
<1>2. Maps(LinePieces, Line, W) /\ Into(BodyOf, Line, W)
  BY <1>1 DEF Maps, Into, BodyOf
<1>3. nl \in Mark
  BY MarkFacts
<1>4. Maps(k, Line, Mark) /\ \A ls \in Seq(Line) : T(ls) = Mapped(k, ls)
  <2>1. \A ss \in Seq(W) : FlattenSeq(ss) = Mapped(id, ss)
    <3> TAKE ss \in Seq(W)
    <3> HIDE DEF W
    <3>1. \A i \in DOMAIN ss : id[ss[i]] = ss[i]
      OBVIOUS
    <3> HIDE DEF id
    <3>2. ss = [i \in DOMAIN ss |-> ss[i]]
      OBVIOUS
    <3>3. ss = [i \in DOMAIN ss |-> id[ss[i]]]
      BY <3>1, <3>2
    <3> QED BY <3>3, Zenon DEF Mapped
  <2>2. Maps(id, W, Mark)
    BY DEF Maps
  <2>3. \A l \in Line : k[l] = Mapped(id, LinePieces[l])
    BY <1>1, <2>1
  <2> HIDE DEF W, id, k
  <2>4. Composes(LinePieces, Line, W, id, Mark, k)
    BY <1>2, <2>2, <2>3 DEF Composes
  <2>5. Maps(k, Line, Mark) /\ \A ls \in Seq(Line) : Mapped(id, Mapped(LinePieces, ls)) = Mapped(k, ls)
    BY ONLY <2>4, MapMap
  <2>6. \A ls \in Seq(Line) : Mapped(LinePieces, ls) \in Seq(W)
    BY <1>2, MapCat
  <2> QED BY <2>1, <2>5, <2>6
<1>5. /\ T(<< >>) = << >> /\ \A ls \in Seq(Line) : T(ls) \in W
      /\ \A l \in Line, ls \in Seq(Line) : T(Onto(l, ls)) = Cat(k[l], T(ls))
  <2>1. << >> \in Seq(Line) /\ \A l \in Line, ls \in Seq(Line) : Onto(l, ls) \in Seq(Line)
    BY ConsAlgebra
  <2>2. /\ Mapped(k, << >>) = << >> /\ \A ls \in Seq(Line) : Mapped(k, ls) \in W
        /\ \A l \in Line, ls \in Seq(Line) : Mapped(k, Onto(l, ls)) = Cat(k[l], Mapped(k, ls))
    <3> HIDE DEF k
    <3> QED BY <1>4, MapCat
  <2> HIDE DEF k, T
  <2> QED BY <1>4, <2>1, <2>2
<1>6. \A l \in Line, t \in W : G(Cat(Body(l), Onto(nl, t))) = Onto(Body(l), G(t))
  <2> TAKE l \in Line, t \in W
  <2>1. Fields(Cat(Body(l), Onto(nl, t)), {nl}) = Cat(Fields(Body(l), {nl}), Fields(t, {nl}))
    BY <1>1, <1>3, FieldsCat
  <2>2. Fields(Body(l), {nl}) = <<Body(l)>>
    BY PartialFields DEF Partial
  <2> QED BY <2>1, <2>2 DEF Onto, Cat
<1>7. /\ I(<< >>) = << >>
      /\ \A l \in Line, ls \in Seq(Line) : I(Onto(l, ls)) = Onto(Body(l), I(ls))
      /\ \A ls \in Seq(Line) : I(ls) \in Seq(W)
  <2>1. /\ \A ls \in Seq(Line) : Image(BodyOf, ls) \in Seq(W)
        /\ \A p, q \in Seq(Line) : Image(BodyOf, Cat(p, q)) = Cat(Image(BodyOf, p), Image(BodyOf, q))
    BY <1>2, ImageCat
  <2>2. Image(BodyOf, << >>) = << >>
    BY DEF Image
  <2>3. ASSUME NEW l \in Line, NEW ls \in Seq(Line)
        PROVE  Image(BodyOf, Onto(l, ls)) = Onto(Body(l), Image(BodyOf, ls))
    <3>1. <<l>> \in Seq(Line) /\ Onto(l, ls) = Cat(<<l>>, ls)
      BY DEF Onto, Cat
    <3>2. Image(BodyOf, <<l>>) = <<Body(l)>>
      BY DEF Image, BodyOf
    <3>3. Image(BodyOf, Cat(<<l>>, ls)) = Cat(<<Body(l)>>, Image(BodyOf, ls))
      BY <2>1, <3>1, <3>2
    <3> QED BY <3>1, <3>3 DEF Onto, Cat
  <2> QED BY <2>1, <2>2, <2>3
<1> HIDE DEF k
<1>8. /\ << >> \in W /\ \A s \in W : Cat(<< >>, s) = s
      /\ \A s, t \in W : Cat(s, t) \in W
      /\ \A s, t, u \in W : Cat(Cat(s, t), u) = Cat(s, Cat(t, u))
      /\ \A x \in Mark, s \in W : Onto(x, s) \in W
      /\ \A x \in Mark, s, t \in W : Cat(Onto(x, s), t) = Onto(x, Cat(s, t))
  BY ConsAlgebra
<1>9. \A t \in W : G(t) \in Seq(W)
  BY <1>3, FieldsCat
<1>10. /\ \A ss \in Seq(W) : Cat(<< >>, ss) = ss
       /\ \A s \in W, ss, tt \in Seq(W) : Cat(Onto(s, ss), tt) = Onto(s, Cat(ss, tt))
  BY ConsAlgebra
<1> DEFINE Q == {ls \in Seq(Line) : \A t \in W : G(Cat(T(ls), t)) = Cat(I(ls), G(t))}
<1> HIDE DEF T, I, G, W
<1>11. ASSUME NEW ls \in Seq(Line), \A q \in Seq(Line) : Len(q) < Len(ls) => q \in Q
       PROVE  ls \in Q
  <2>1. CASE ls = << >>
    BY <1>5, <1>7, <1>8, <1>9, <1>10, <2>1
  <2>2. ASSUME NEW l \in Line, NEW q \in Seq(Line), ls = Onto(l, q), Len(q) < Len(ls)
        PROVE  ls \in Q
    <3> SUFFICES ASSUME NEW t \in W PROVE G(Cat(T(ls), t)) = Cat(I(ls), G(t))
      OBVIOUS
    <3>1. G(Cat(T(q), t)) = Cat(I(q), G(t))
      BY <1>11, <2>2
    <3> DEFINE b == Body(l)
               r == Cat(T(q), t)
               n1 == Onto(nl, << >>)
    <3>2. b \in W /\ r \in W /\ n1 \in W /\ T(q) \in W /\ I(q) \in Seq(W) /\ G(t) \in Seq(W)
      BY <1>1, <1>3, <1>5, <1>7, <1>8, <1>9
    <3>3. T(ls) = Cat(Cat(b, n1), T(q))
      BY <1>1, <1>5, <2>2
    <3>4. Cat(n1, r) = Onto(nl, r)
      <4>1. Cat(n1, r) = Onto(nl, Cat(<< >>, r))
        <5> HIDE DEF r
        <5> QED BY <1>3, <1>8, <3>2
      <4> HIDE DEF n1, r
      <4> QED BY <1>8, <3>2, <4>1
    <3> HIDE DEF b, n1
    <3>5. Cat(T(ls), t) = Cat(b, Cat(n1, r))
      <4>1. Cat(Cat(Cat(b, n1), T(q)), t) = Cat(Cat(b, n1), Cat(T(q), t))
        BY <1>8, <3>2
      <4>2. Cat(Cat(b, n1), r) = Cat(b, Cat(n1, r))
        <5> HIDE DEF r
        <5> QED BY <1>8, <3>2
      <4> QED BY <3>3, <4>1, <4>2
    <3> HIDE DEF r
    <3>6. G(Cat(T(ls), t)) = Onto(b, G(r))
      BY <1>6, <3>2, <3>4, <3>5 DEF b
    <3>7. Cat(I(ls), G(t)) = Onto(b, Cat(I(q), G(t)))
      BY <1>7, <1>10, <2>2, <3>2 DEF b
    <3> QED BY <3>1, <3>6, <3>7 DEF r
  <2> QED BY <2>1, <2>2, OntoCases
<1> HIDE DEF Q
<1>12. \A ls \in Seq(Line) : ls \in Q
  BY <1>11, SeqInd
<1> QED BY <1>2, <1>5, <1>12 DEF Q, T, I, G, W

\* The lines of a text, none of them blank.
HasLines(text, ss) ==
  /\ Fields(text, {Raw(Newline)}) = ss
  /\ \A i \in 1..Len(ss) : Fields(ss[i], Blanks) # << >>

\* When no line is blank, every line gives its words.
LEMMA WordsOfLines ==
  ASSUME NEW text, NEW W, NEW ss \in Seq(W), HasLines(text, ss)
  PROVE  RawMerges(text) = [i \in 1..Len(ss) |-> Fields(ss[i], Separators)]
<1> DEFINE n == Len(ss)
           one == [i \in 1..n |-> i]
<1>0. n \in Nat /\ DOMAIN ss = 1..n
  OBVIOUS
<1>1. InOrder(1..n) = one
  <2> HIDE DEF n
  <2>1. one \in Seq(Int) /\ Len(one) = n
    BY <1>0
  <2>2. Ascending(one) /\ Elements(one) = 1..n
    BY <1>0, <2>1 DEF Ascending, Elements
  <2> HIDE DEF one
  <2> QED BY <2>1, <2>2, OrderedOnly
<1>2. {i \in DOMAIN ss : Fields(ss[i], Blanks) # << >>} = 1..n
  BY <1>0 DEF HasLines
<1>3. RawMerges(text) = [k \in DOMAIN one |-> Fields(ss[one[k]], Separators)]
  BY <1>1, <1>2 DEF RawMerges, Separators, HasLines
<1>4. DOMAIN one = 1..n /\ \A k \in 1..n : one[k] = k
  OBVIOUS
<1> HIDE DEF one, n
<1> QED BY <1>3, <1>4 DEF n

\* Some of the pieces of a line, but not all.
FirstPieces(l) ==
  {Onto(l[1], << >>), Onto(l[1], Onto(<<Raw(Space)>>, << >>)),
   Onto(l[1], Onto(<<Raw(Space)>>, Onto(l[2], << >>))),
   Onto(l[1], Onto(<<Raw(Space)>>, Onto(l[2], Onto(<<Arrow>>, << >>))))}

\* They hold what a file that was cut off has of the line.
LEMMA PartText ==
  ASSUME NEW l \in Line, NEW part \in FirstPieces(l)
  PROVE  part \in Seq(Seq(Mark)) /\ FlattenSeq(part) \in Partial(l)
<1> DEFINE W == Seq(Mark)
           a == l[1]
           b == l[2]
           none == << >>
           sp == Raw(Space)
<1>1. a \in W /\ b \in W /\ sp \in Mark /\ Arrow \in Mark /\ <<sp>> \in W /\ <<Arrow>> \in W
  BY LineFacts, MarkFacts
<1>2. /\ none \in Seq(W) /\ FlattenSeq(none) = none /\ none \in W
      /\ \A s \in W, ss \in Seq(W) : Onto(s, ss) \in Seq(W) /\ FlattenSeq(Onto(s, ss)) = Cat(s, FlattenSeq(ss))
  <2>1. none \in Seq(W) /\ FlattenSeq(none) = none /\ none \in W
    BY FlattenCat
  <2>2. \A s \in W, ss \in Seq(W) : Onto(s, ss) \in Seq(W)
    <3> HIDE DEF W
    <3> QED BY ConsAlgebra
  <2>3. \A s \in W, ss \in Seq(W) : FlattenSeq(Onto(s, ss)) = Cat(s, FlattenSeq(ss))
    BY FlattenOnto
  <2> QED BY <2>1, <2>2, <2>3
<1>3. /\ \A s \in W : Cat(s, none) = s
      /\ \A x \in Mark, s \in W : Onto(x, s) \in W
  BY ConsAlgebra
<1>4. \A x, s : Cat(<<x>>, s) = Onto(x, s)
  BY DEF Onto, Cat
<1> DEFINE p1 == Onto(<<Arrow>>, none)
           p2 == Onto(b, p1)
           p3 == Onto(<<sp>>, p2)
           q2 == Onto(b, none)
           q3 == Onto(<<sp>>, q2)
           s3 == Onto(<<sp>>, none)
<1>5. /\ part \in {Onto(a, none), Onto(a, s3), Onto(a, q3), Onto(a, p3)}
      /\ Partial(l) = {a, Cat(a, Onto(sp, none)), Cat(a, Onto(sp, b)), Cat(a, Onto(sp, Cat(b, Onto(Arrow, none))))}
  BY DEF FirstPieces, Partial, Body
<1> HIDE DEF W, a, b, none, sp
<1>6. p1 \in Seq(W) /\ FlattenSeq(p1) = Onto(Arrow, none)
  BY <1>1, <1>2, <1>4
<1> HIDE DEF p1
<1>7. p2 \in Seq(W) /\ FlattenSeq(p2) = Cat(b, Onto(Arrow, none))
  BY <1>1, <1>2, <1>6
<1> HIDE DEF p2
<1>8. p3 \in Seq(W) /\ FlattenSeq(p3) = Onto(sp, Cat(b, Onto(Arrow, none)))
  BY <1>1, <1>2, <1>4, <1>7
<1>9. q2 \in Seq(W) /\ FlattenSeq(q2) = b
  BY <1>1, <1>2, <1>3
<1> HIDE DEF p3, q2
<1>10. q3 \in Seq(W) /\ FlattenSeq(q3) = Onto(sp, b)
  BY <1>1, <1>2, <1>4, <1>9
<1>11. s3 \in Seq(W) /\ FlattenSeq(s3) = Onto(sp, none)
  BY <1>1, <1>2, <1>4
<1> HIDE DEF q3, s3
<1>12. \A ss \in Seq(W) : Onto(a, ss) \in Seq(W) /\ FlattenSeq(Onto(a, ss)) = Cat(a, FlattenSeq(ss))
  BY <1>1, <1>2
<1>13. FlattenSeq(Onto(a, none)) = a /\ Onto(a, none) \in Seq(W)
  BY <1>1, <1>2, <1>3
<1>14. /\ FlattenSeq(Onto(a, s3)) = Cat(a, Onto(sp, none)) /\ Onto(a, s3) \in Seq(W)
       /\ FlattenSeq(Onto(a, q3)) = Cat(a, Onto(sp, b)) /\ Onto(a, q3) \in Seq(W)
       /\ FlattenSeq(Onto(a, p3)) = Cat(a, Onto(sp, Cat(b, Onto(Arrow, none)))) /\ Onto(a, p3) \in Seq(W)
  BY <1>8, <1>10, <1>11, <1>12
<1> QED BY <1>5, <1>13, <1>14, Zenon DEF W

\* What was written of some lines: whole ones, and then part of another.
WholeOnly(p, q, done, todo) ==
  done = Mapped(LinePieces, p) /\ (todo = << >> => q = << >>)

WithPart(p, q, done, todo) ==
  /\ todo # << >>
  /\ \E l \in Line, r \in Seq(Line) : \E part \in FirstPieces(l) :
       q = Onto(l, r) /\ done = Cat(Mapped(LinePieces, p), part)

SplitAt(p, q, done, todo) ==
  WholeOnly(p, q, done, todo) \/ WithPart(p, q, done, todo)

\* What is written of some lines splits them.
LEMMA Splits ==
  \A ls \in Seq(Line), done, todo \in Seq(Seq(Mark)) :
    Cat(done, todo) = Mapped(LinePieces, ls) =>
      \E p, q \in Seq(Line) : ls = Cat(p, q) /\ SplitAt(p, q, done, todo)
<1> DEFINE W == Seq(Mark)
           none == << >>
           sp == <<Raw(Space)>>
           ar == <<Arrow>>
           nl == <<Raw(Newline)>>
           M(ls) == Mapped(LinePieces, ls)
           Q == {ls \in Seq(Line) : \A done, todo \in Seq(W) :
                   Cat(done, todo) = M(ls) =>
                     \E p, q \in Seq(Line) : ls = Cat(p, q) /\ SplitAt(p, q, done, todo)}
<1>1. Maps(LinePieces, Line, W)
  BY LineText DEF Maps
<1>2. /\ M(<< >>) = << >> /\ \A s \in Seq(Line) : M(s) \in Seq(W)
      /\ \A x \in Line, s \in Seq(Line) : M(Onto(x, s)) = Cat(LinePieces[x], M(s))
  <2> HIDE DEF W
  <2> QED BY <1>1, MapCat
<1>3. \A l \in Line : /\ l[1] \in W /\ l[2] \in W
                      /\ LinePieces[l] = Onto(l[1], Onto(sp, Onto(l[2], Onto(ar, Onto(nl, << >>)))))
  BY LineFacts DEF LinePieces
<1>4. sp \in W /\ ar \in W /\ nl \in W
  BY MarkFacts
<1>5. /\ << >> \in Seq(W) /\ \A s \in Seq(W) : Cat(<< >>, s) = s
      /\ \A s, t \in Seq(W) : Cat(s, t) \in Seq(W)
      /\ \A s, t, u \in Seq(W) : Cat(Cat(s, t), u) = Cat(s, Cat(t, u))
      /\ \A x \in W, s \in Seq(W) : Onto(x, s) \in Seq(W) /\ Onto(x, s) # << >>
      /\ \A x \in W, s, t \in Seq(W) : Cat(Onto(x, s), t) = Onto(x, Cat(s, t))
  <2> HIDE DEF W
  <2> QED BY ConsAlgebra
<1>6. /\ << >> \in Seq(Line) /\ \A s \in Seq(Line) : Cat(<< >>, s) = s
      /\ \A x \in Line, s \in Seq(Line) : Onto(x, s) \in Seq(Line) /\ Onto(x, s) # << >>
      /\ \A x \in Line, s, t \in Seq(Line) : Cat(Onto(x, s), t) = Onto(x, Cat(s, t))
  BY ConsAlgebra
<1>7. \A d, t, r \in Seq(W), x \in W : Cat(d, t) = Onto(x, r) =>
         d = << >> \/ \E e \in Seq(W) : d = Onto(x, e) /\ Cat(e, t) = r
  <2> HIDE DEF W
  <2> QED BY Pops
<1>8. \A l \in Line : \A m \in Seq(W) :
         Cat(LinePieces[l], m) = Onto(l[1], Onto(sp, Onto(l[2], Onto(ar, Onto(nl, m)))))
  <2> TAKE l \in Line
  <2> TAKE m \in Seq(W)
  <2> DEFINE a == l[1]
             b == l[2]
  <2>0. a \in W /\ b \in W /\ LinePieces[l] = Onto(a, Onto(sp, Onto(b, Onto(ar, Onto(nl, << >>)))))
    BY <1>3
  <2> DEFINE e1 == Onto(nl, << >>)
             e2 == Onto(ar, e1)
             e3 == Onto(b, e2)
             e4 == Onto(sp, e3)
  <2> HIDE DEF a, b, W, sp, ar, nl
  <2>1. e1 \in Seq(W) /\ Cat(e1, m) = Onto(nl, m)
    <3>1. Cat(Onto(nl, none), m) = Onto(nl, Cat(none, m)) /\ none \in Seq(W)
      <4>1. none \in Seq(W)
        BY <1>5
      <4> HIDE DEF none
      <4> QED BY <1>4, <1>5, <4>1
    <3> QED BY <1>4, <1>5, <3>1
  <2> HIDE DEF e1
  <2>2. e2 \in Seq(W) /\ Cat(e2, m) = Onto(ar, Cat(e1, m))
    BY <1>4, <1>5, <2>1
  <2> HIDE DEF e2
  <2>3. e3 \in Seq(W) /\ Cat(e3, m) = Onto(b, Cat(e2, m))
    BY <2>0, <1>5, <2>2
  <2> HIDE DEF e3
  <2>4. e4 \in Seq(W) /\ Cat(e4, m) = Onto(sp, Cat(e3, m))
    BY <1>4, <1>5, <2>3
  <2> HIDE DEF e4
  <2>5. Cat(Onto(a, e4), m) = Onto(a, Cat(e4, m))
    BY <2>0, <1>5, <2>4
  <2>6. LinePieces[l] = Onto(a, e4)
    BY <2>0 DEF e1, e2, e3, e4
  <2> QED BY <2>1, <2>2, <2>3, <2>4, <2>5, <2>6 DEF a, b
<1>9. ASSUME NEW ls \in Seq(Line), \A q \in Seq(Line) : Len(q) < Len(ls) => q \in Q
      PROVE  ls \in Q
  <2> SUFFICES ASSUME NEW done \in Seq(W), NEW todo \in Seq(W), Cat(done, todo) = M(ls)
               PROVE  \E p, q \in Seq(Line) : ls = Cat(p, q) /\ SplitAt(p, q, done, todo)
    OBVIOUS
  <2>1. CASE ls = << >>
    <3>1. Cat(done, todo) = << >> /\ M(ls) = << >>
      BY <1>2, <2>1
    <3>2. done = << >>
      <4> HIDE DEF W
      <4> QED BY <3>1, ConsAlgebra
    <3>3. WholeOnly(ls, ls, done, todo)
      BY <2>1, <3>1, <3>2 DEF WholeOnly
    <3> QED BY <1>6, <2>1, <3>3 DEF SplitAt
  <2>2. ASSUME NEW l \in Line, NEW r \in Seq(Line), ls = Onto(l, r), Len(r) < Len(ls)
        PROVE  \E p, q \in Seq(Line) : ls = Cat(p, q) /\ SplitAt(p, q, done, todo)
    <3> DEFINE m == M(r)
               a == l[1]
               b == l[2]
    <3>1. m \in Seq(W) /\ a \in W /\ b \in W
          /\ Cat(done, todo) = Onto(a, Onto(sp, Onto(b, Onto(ar, Onto(nl, m)))))
      <4>1. m \in Seq(W) /\ M(Onto(l, r)) = Cat(LinePieces[l], m)
        <5> HIDE DEF M
        <5> QED BY <1>2
      <4>2. Cat(LinePieces[l], m) = Onto(a, Onto(sp, Onto(b, Onto(ar, Onto(nl, m)))))
        <5> HIDE DEF m, sp, ar, nl
        <5> QED BY <1>8, <4>1
      <4>3. a \in W /\ b \in W
        BY <1>3
      <4> HIDE DEF M, W
      <4> QED BY <2>2, <4>1, <4>2, <4>3
    <3>2. ls \in Seq(Line) /\ ls = Cat(<< >>, ls) /\ ls # << >>
      BY <1>6, <2>2
    <3>3. ASSUME NEW part \in FirstPieces(l), part \in Seq(W), done = part, todo # << >>
          PROVE  SplitAt(<< >>, ls, done, todo)
      <4>1. done = Cat(M(<< >>), part)
        BY <1>2, <1>5, <3>3
      <4> QED BY <2>2, <3>3, <4>1, Zenon DEF SplitAt, WithPart
    <3> HIDE DEF W, M, m
    <3> DEFINE r1 == Onto(nl, m)
               r2 == Onto(ar, r1)
               r3 == Onto(b, r2)
               r4 == Onto(sp, r3)
    <3>4. r1 \in Seq(W) /\ r2 \in Seq(W) /\ r3 \in Seq(W) /\ r4 \in Seq(W)
          /\ r1 # << >> /\ r2 # << >> /\ r3 # << >> /\ r4 # << >>
      <4>1. r1 \in Seq(W) /\ r1 # << >>
        BY <1>4, <1>5, <3>1
      <4> HIDE DEF r1
      <4>2. r2 \in Seq(W) /\ r2 # << >>
        BY <1>4, <1>5, <4>1
      <4> HIDE DEF r2
      <4>3. r3 \in Seq(W) /\ r3 # << >>
        BY <1>5, <3>1, <4>2
      <4> HIDE DEF r3
      <4>4. r4 \in Seq(W) /\ r4 # << >>
        BY <1>4, <1>5, <4>3
      <4> QED BY <4>1, <4>2, <4>3, <4>4
    <3>5. Cat(done, todo) = Onto(a, r4)
      BY <3>1
    <3>6. ASSUME done = << >>
          PROVE  SplitAt(<< >>, ls, done, todo)
      <4>1. todo # << >>
        <5>1. Onto(a, r4) # << >>
          <6> HIDE DEF r4
          <6> QED BY <1>5, <3>1, <3>4
        <5> QED BY <1>5, <3>5, <3>6, <5>1
      <4> QED BY <1>2, <3>6, <4>1 DEF SplitAt, WholeOnly, M
    <3> HIDE DEF r4
    <3>7. ASSUME NEW e1 \in Seq(W), done = Onto(a, e1), Cat(e1, todo) = r4
          PROVE  \E p, q \in Seq(Line) : ls = Cat(p, q) /\ SplitAt(p, q, done, todo)
      <4>1. CASE e1 = << >>
        <5>1. todo # << >>
          BY <1>5, <3>4, <3>7, <4>1
        <5>2. done \in FirstPieces(l)
          BY <3>7, <4>1 DEF FirstPieces
        <5> QED BY <1>6, <3>2, <3>3, <5>1, <5>2
      <4>2. ASSUME NEW e2 \in Seq(W), e1 = Onto(sp, e2), Cat(e2, todo) = r3
            PROVE  \E p, q \in Seq(Line) : ls = Cat(p, q) /\ SplitAt(p, q, done, todo)
        <5>1. CASE e2 = << >>
          <6>1. todo # << >>
            <7> HIDE DEF r3
            <7> QED BY <1>5, <3>4, <4>2, <5>1
          <6>2. done \in FirstPieces(l)
            BY <3>7, <4>2, <5>1 DEF FirstPieces
          <6> QED BY <1>6, <3>2, <3>3, <6>1, <6>2
        <5>2. ASSUME NEW e3 \in Seq(W), e2 = Onto(b, e3), Cat(e3, todo) = r2
              PROVE  \E p, q \in Seq(Line) : ls = Cat(p, q) /\ SplitAt(p, q, done, todo)
          <6>1. CASE e3 = << >>
            <7>1. todo # << >>
              <8> HIDE DEF r2
              <8> QED BY <1>5, <3>4, <5>2, <6>1
            <7>2. done \in FirstPieces(l)
              BY <3>7, <4>2, <5>2, <6>1 DEF FirstPieces
            <7> QED BY <1>6, <3>2, <3>3, <7>1, <7>2
          <6>2. ASSUME NEW e4 \in Seq(W), e3 = Onto(ar, e4), Cat(e4, todo) = r1
                PROVE  \E p, q \in Seq(Line) : ls = Cat(p, q) /\ SplitAt(p, q, done, todo)
            <7>1. CASE e4 = << >>
              <8>1. todo # << >>
                <9> HIDE DEF r1
                <9> QED BY <1>5, <3>4, <6>2, <7>1
              <8>2. done \in FirstPieces(l)
                BY <3>7, <4>2, <5>2, <6>2, <7>1 DEF FirstPieces
              <8> QED BY <1>6, <3>2, <3>3, <8>1, <8>2
            <7>2. ASSUME NEW e5 \in Seq(W), e4 = Onto(nl, e5), Cat(e5, todo) = m
                  PROVE  \E p, q \in Seq(Line) : ls = Cat(p, q) /\ SplitAt(p, q, done, todo)
              <8>1. PICK p, q \in Seq(Line) : r = Cat(p, q) /\ SplitAt(p, q, e5, todo)
                BY <1>9, <2>2, <7>2 DEF m
              <8>2. done = Cat(LinePieces[l], e5)
                BY <1>8, <3>7, <4>2, <5>2, <6>2, <7>2
              <8>3. Onto(l, p) \in Seq(Line) /\ ls = Cat(Onto(l, p), q)
                BY <1>6, <2>2, <8>1
              <8>4. M(Onto(l, p)) = Cat(LinePieces[l], M(p)) /\ M(p) \in Seq(W) /\ LinePieces[l] \in Seq(W)
                BY <1>1, <1>2 DEF Maps
              <8>5. CASE WholeOnly(p, q, e5, todo)
                <9>1. WholeOnly(Onto(l, p), q, done, todo)
                  BY <8>2, <8>4, <8>5 DEF WholeOnly, M
                <9> QED BY <8>3, <9>1 DEF SplitAt
              <8>6. CASE WithPart(p, q, e5, todo)
                <9>0. PICK l2 \in Line, r2l \in Seq(Line) :
                         \E part \in FirstPieces(l2) :
                           q = Onto(l2, r2l) /\ e5 = Cat(M(p), part) /\ todo # << >>
                  BY <8>6 DEF WithPart, M
                <9>1. PICK part \in FirstPieces(l2) :
                         q = Onto(l2, r2l) /\ e5 = Cat(M(p), part) /\ todo # << >>
                  BY <9>0
                <9>2. part \in Seq(W)
                  BY PartText DEF W
                <9>3. Cat(LinePieces[l], Cat(M(p), part)) = Cat(M(Onto(l, p)), part)
                  <10> DEFINE u == LinePieces[l]
                              v == M(p)
                  <10>1. u \in Seq(W) /\ v \in Seq(W) /\ M(Onto(l, p)) = Cat(u, v)
                    BY <8>4
                  <10> HIDE DEF u, v
                  <10>2. Cat(u, Cat(v, part)) = Cat(Cat(u, v), part)
                    BY <1>5, <9>2, <10>1
                  <10> QED BY <10>1, <10>2 DEF u, v
                <9>4. WithPart(Onto(l, p), q, done, todo)
                  <10>1. done = Cat(M(Onto(l, p)), part)
                    BY <8>2, <9>1, <9>3
                  <10> QED BY <9>1, <10>1, Zenon DEF WithPart, M
                <9> QED BY <8>3, <9>4 DEF SplitAt
              <8> QED BY <8>1, <8>5, <8>6 DEF SplitAt
            <7>3. Cat(e4, todo) = Onto(nl, m)
              BY <6>2
            <7> HIDE DEF nl
            <7>4. e4 = << >> \/ \E e5 \in Seq(W) : e4 = Onto(nl, e5) /\ Cat(e5, todo) = m
              BY <1>4, <1>7, <3>1, <7>3
            <7> QED BY <7>1, <7>2, <7>4
          <6>3. Cat(e3, todo) = Onto(ar, r1)
            BY <5>2
          <6> HIDE DEF r1, ar
          <6>4. e3 = << >> \/ \E e4 \in Seq(W) : e3 = Onto(ar, e4) /\ Cat(e4, todo) = r1
            BY <1>4, <1>7, <3>4, <6>3
          <6> QED BY <6>1, <6>2, <6>4
        <5>3. Cat(e2, todo) = Onto(b, r2)
          BY <4>2
        <5> HIDE DEF r2, b
        <5>4. e2 = << >> \/ \E e3 \in Seq(W) : e2 = Onto(b, e3) /\ Cat(e3, todo) = r2
          BY <1>7, <3>1, <3>4, <5>3
        <5> QED BY <5>1, <5>2, <5>4
      <4>3. Cat(e1, todo) = Onto(sp, r3)
        BY <3>7 DEF r4
      <4> HIDE DEF r3, sp
      <4>4. e1 = << >> \/ \E e2 \in Seq(W) : e1 = Onto(sp, e2) /\ Cat(e2, todo) = r3
        BY <1>4, <1>7, <3>4, <4>3
      <4> QED BY <4>1, <4>2, <4>4
    <3> HIDE DEF a
    <3>8. done = << >> \/ \E e1 \in Seq(W) : done = Onto(a, e1) /\ Cat(e1, todo) = r4
      BY <1>7, <3>1, <3>4, <3>5
    <3> QED BY <1>6, <3>2, <3>6, <3>7, <3>8
  <2> QED BY <2>1, <2>2, OntoCases
<1> HIDE DEF Q
<1>10. \A ls \in Seq(Line) : ls \in Q
  BY <1>9, SeqInd
<1> QED BY <1>10 DEF Q, M, W
\* A file of merges that is cut off anywhere gives the first of its lines, or a
\* line that has not two words; one that is complete gives all its lines.
LEMMA WrittenLoads ==
  ASSUME NEW ls \in Seq(Line), NEW done \in Seq(Seq(Mark)), NEW todo \in Seq(Seq(Mark)),
         Cat(done, todo) = Mapped(LinePieces, ls), NEW w, w = RawMerges(FlattenSeq(done))
  PROVE  /\ (\E i \in DOMAIN w : Len(w[i]) # 2) \/ (w \in Seq(Line) /\ \E q \in Seq(Line) : ls = Cat(w, q))
         /\ todo = << >> => w = ls
<1> DEFINE W == Seq(Mark)
           M(p) == Mapped(LinePieces, p)
           I(p) == Image(BodyOf, p)
           G(t) == Fields(t, {Raw(Newline)})
           none == << >>
           text == FlattenSeq(done)
<1>1. PICK p, q \in Seq(Line) : ls = Cat(p, q) /\ SplitAt(p, q, done, todo)
  BY Splits
<1>2. M(p) \in Seq(W) /\ FlattenSeq(M(p)) \in W
  <2>1. Maps(LinePieces, Line, W)
    BY LineText DEF Maps
  <2>2. M(p) \in Seq(W)
    <3> HIDE DEF W
    <3> QED BY <2>1, MapCat
  <2>3. FlattenSeq(M(p)) \in W
    <3>1. << >> \in Seq(Mark)
      OBVIOUS
    <3> QED BY <3>1, TextLines
  <2> HIDE DEF M, W
  <2> QED BY <2>2, <2>3
<1>3. \A t \in W : G(Cat(FlattenSeq(M(p)), t)) = Cat(I(p), G(t))
  BY TextLines
<1>4. /\ I(p) \in Seq(W) /\ Len(I(p)) = Len(p) /\ Len(p) \in Nat
      /\ \A i \in 1..Len(p) : I(p)[i] = Body(p[i]) /\ p[i] \in Line
  <2>1. I(p) \in Seq(W)
    <3>1. Into(BodyOf, Line, W)
      BY TextLines
    <3> HIDE DEF W
    <3> QED BY <3>1, ImageCat
  <2>2. DOMAIN I(p) = 1..Len(p) /\ \A i \in 1..Len(p) : I(p)[i] = BodyOf[p[i]] /\ p[i] \in Line
    BY DEF Image
  <2>3. Len(I(p)) = Len(p) /\ Len(p) \in Nat
    <3> HIDE DEF I, W
    <3> QED BY <2>1, <2>2
  <2> QED BY <2>1, <2>2, <2>3 DEF BodyOf
<1>5. \A l \in Line : Fields(Body(l), Blanks) # << >> /\ Fields(Body(l), Separators) = l
  BY PartialFields DEF Partial
<1>6. CASE WholeOnly(p, q, done, todo)
  <2>1. text = Cat(FlattenSeq(M(p)), none) /\ none \in W /\ G(none) = none
    <3>1. none \in W /\ Cat(FlattenSeq(M(p)), none) = FlattenSeq(M(p))
      BY <1>2, ConsAlgebra
    <3>2. G(none) = none
      BY FieldsOfOne
    <3> QED BY <1>6, <3>1, <3>2 DEF WholeOnly
  <2>2. G(text) = I(p)
    <3>1. Cat(I(p), none) = I(p)
      BY <1>4, ConcatEmptySeq DEF Cat
    <3> QED BY <1>3, <2>1, <3>1
  <2>3. w = [i \in 1..Len(I(p)) |-> Fields(I(p)[i], Separators)]
    <3>1. \A i \in 1..Len(I(p)) : Fields(I(p)[i], Blanks) # << >>
      BY <1>4, <1>5
    <3>2. HasLines(text, I(p))
      BY <2>2, <3>1 DEF HasLines
    <3> HIDE DEF I, W
    <3> QED BY <1>4, <3>2, WordsOfLines
  <2>4. w = p
    <3>1. w = [i \in 1..Len(p) |-> p[i]]
      <4> HIDE DEF I
      <4> QED BY <1>4, <1>5, <2>3
    <3> QED BY <3>1
  <2>5. todo = << >> => w = ls
    <3>1. Cat(p, none) = p
      BY ConsAlgebra
    <3> QED BY <1>1, <1>6, <2>4, <3>1 DEF WholeOnly
  <2> QED BY <1>1, <2>4, <2>5
<1>7. CASE WithPart(p, q, done, todo)
  <2>0. PICK l \in Line, r \in Seq(Line) :
           \E part \in FirstPieces(l) : q = Onto(l, r) /\ done = Cat(M(p), part)
    BY <1>7 DEF WithPart
  <2>1. PICK part \in FirstPieces(l) : q = Onto(l, r) /\ done = Cat(M(p), part)
    BY <2>0
  <2> DEFINE t == FlattenSeq(part)
             n == Len(p)
             ss == Append(I(p), t)
             wt == Fields(t, Separators)
  <2>2. part \in Seq(W) /\ t \in Partial(l)
    BY PartText
  <2>3. /\ t \in W /\ G(t) = <<t>> /\ Fields(t, Blanks) # << >> /\ wt \in {<<l[1]>>, l}
    BY <2>2, PartialFields
  <2>4. text = Cat(FlattenSeq(M(p)), t)
    BY <1>2, <2>1, <2>2, FlattenCat
  <2>5. G(text) = ss
    <3>1. G(text) = Cat(I(p), <<t>>)
      BY <1>3, <2>3, <2>4
    <3>2. I(p) \o <<t>> = Append(I(p), t)
      <4> HIDE DEF I, t, W
      <4> QED BY <1>4, <2>3, AppendIsConcat
    <3> QED BY <3>1, <3>2 DEF Cat
  <2>6. /\ ss \in Seq(W) /\ Len(ss) = n + 1 /\ n \in Nat
        /\ ss[n + 1] = t /\ \A i \in 1..n : ss[i] = I(p)[i]
    <3> HIDE DEF I, t, W
    <3> QED BY <1>4, <2>3
  <2> HIDE DEF ss, n
  <2>7. w = [i \in 1..Len(ss) |-> Fields(ss[i], Separators)]
    <3> HIDE DEF t, I
    <3>1. \A i \in 1..Len(ss) : Fields(ss[i], Blanks) # << >>
      <4>1. \A i \in 1..n : Fields(ss[i], Blanks) # << >>
        BY <1>4, <1>5, <2>6 DEF n
      <4>2. Fields(ss[n + 1], Blanks) # << >>
        BY <2>3, <2>6
      <4>3. \A i \in 1..n + 1 : i \in 1..n \/ i = n + 1
        BY <2>6
      <4> QED BY <2>6, <4>1, <4>2, <4>3
    <3>2. Fields(text, {Raw(Newline)}) = ss
      BY <2>5
    <3>3. ss \in Seq(W)
      BY <2>6
    <3>4. HasLines(text, ss)
      BY <3>1, <3>2 DEF HasLines
    <3> HIDE DEF W
    <3> QED BY <3>3, <3>4, WordsOfLines
  <2>8. w = [i \in 1..n + 1 |-> IF i = n + 1 THEN wt ELSE p[i]]
    <3>1. \A i \in 1..n : Fields(ss[i], Separators) = p[i]
      BY <1>4, <1>5, <2>6 DEF n
    <3>2. Fields(ss[n + 1], Separators) = wt
      BY <2>6
    <3> HIDE DEF wt
    <3>3. \A i \in 1..n + 1 : Fields(ss[i], Separators) = IF i = n + 1 THEN wt ELSE p[i]
      <4>1. \A i \in 1..n + 1 : i \in 1..n \/ i = n + 1
        BY <2>6
      <4>2. \A i \in 1..n : i # n + 1
        BY <2>6
      <4> QED BY <3>1, <3>2, <4>1, <4>2
    <3> QED BY <2>6, <2>7, <3>3
  <2>9. CASE wt = <<l[1]>>
    <3>1. n + 1 \in DOMAIN w /\ w[n + 1] = <<l[1]>>
      BY <2>6, <2>8, <2>9
    <3>2. Len(<<l[1]>>) = 1
      OBVIOUS
    <3>3. todo # << >>
      BY <1>7 DEF WithPart
    <3>4. Len(w[n + 1]) # 2
      BY <3>1, <3>2
    <3> QED BY <3>1, <3>3, <3>4, Zenon
  <2>10. CASE wt = l
    <3>1. w = Append(p, l)
      <4>1. Append(p, l) = [i \in 1..n + 1 |-> IF i = n + 1 THEN l ELSE p[i]]
        <5> DEFINE ap == Append(p, l)
        <5>1. Len(ap) = n + 1 /\ ap \in Seq(Line)
              /\ \A i \in 1..n + 1 : ap[i] = IF i = n + 1 THEN l ELSE p[i]
          BY AppendProperties DEF n
        <5> HIDE DEF ap
        <5>2. DOMAIN ap = 1..n + 1 /\ ap = [i \in DOMAIN ap |-> ap[i]]
          BY <5>1
        <5>3. ap = [i \in 1..n + 1 |-> IF i = n + 1 THEN l ELSE p[i]]
          BY <5>1, <5>2
        <5> QED BY <5>3 DEF ap
      <4> QED BY <2>8, <2>10, <4>1
    <3>2. w \in Seq(Line) /\ ls = Cat(w, r)
      <4>1. Append(p, l) = Cat(p, Onto(l, none))
        <5>1. Append(p, l) = p \o <<l>> /\ <<l>> \o << >> = <<l>>
          BY AppendIsConcat
        <5> QED BY <5>1 DEF Cat, Onto
      <4>2. Cat(Cat(p, Onto(l, none)), r) = Cat(p, Cat(Onto(l, none), r))
        <5>1. Onto(l, none) \in Seq(Line)
          BY ConsAlgebra
        <5> QED BY <5>1, ConsAlgebra
      <4>3. Cat(Onto(l, none), r) = Onto(l, r)
        <5>1. Cat(Onto(l, none), r) = Onto(l, Cat(none, r)) /\ Cat(none, r) = r
          <6>1. none \in Seq(Line)
            OBVIOUS
          <6> HIDE DEF none
          <6>2. Cat(Onto(l, none), r) = Onto(l, Cat(none, r))
            BY <6>1, ConsAlgebra
          <6>3. Cat(none, r) = r
            BY ConsAlgebra DEF none
          <6> QED BY <6>2, <6>3
        <5> QED BY <5>1
      <4>4. Append(p, l) \in Seq(Line)
        OBVIOUS
      <4>5. ls = Cat(p, Onto(l, r))
        BY <1>1, <2>1
      <4>6. Cat(Append(p, l), r) = Cat(p, Onto(l, r))
        BY <4>1, <4>2, <4>3
      <4> QED BY <3>1, <4>4, <4>5, <4>6
    <3>3. todo # << >>
      BY <1>7 DEF WithPart
    <3> QED BY <3>2, <3>3
  <2> QED BY <2>3, <2>9, <2>10
<1> QED BY <1>1, <1>6, <1>7 DEF SplitAt

-----------------------------------------------------------------------------
(* Contents as they are printed, of a setup s. *)

UnitsIn(s, c) == IF s.unit = "byte" /\ s.format # "gpt2" THEN FromBytes(c) ELSE c

ShownIn(s, c) ==
  [i \in DOMAIN UnitsIn(s, c) |->
     IF s.format = "gpt2" THEN <<"gpt2", UnitsIn(s, c)[i]>> ELSE Printed(UnitsIn(s, c)[i])]

BytesIn(s, c) == IF s.unit = "byte" THEN c ELSE ToBytes(c)

SupportedIn(s) == s.format = "unitoken" \/ s.unit = "byte"

\* Nothing in the content is printed as a blank.
ClearIn(s, c) ==
  \/ s.format = "gpt2"
  \/ \A i \in DOMAIN UnitsIn(s, c) : UnitsIn(s, c)[i] \notin Blank \ (Escaped \cup Braces \cup {Space})

\* A unit is parsed as what it was printed for, and is no separator when it
\* should not be one.
LEMMA PrintedFacts ==
  ASSUME NEW u \in Char
  PROVE  /\ Printed(u) \in Mark /\ Unprinted(Printed(u)) = u
         /\ u \notin Blank \ (Escaped \cup Braces \cup {Space}) => Printed(u) \in Clear
<1>1. \A v : Raw(v) = <<"raw", v>>
  BY DEF Raw
<1>2. /\ Space \in Scalar /\ OpenBox \in Scalar /\ OpenBox \notin Blank /\ Space \in Blank
  BY ModelFilesAssumption
<1>3. \A p \in {"raw", "x", "u", "gpt2"}, v \in Char : <<p, v>> \in Mark
  BY DEF Mark
<1>4. \A p \in {"x", "u"} : \A v : <<p, v>> \notin Separators
  BY DEF Separators, Blanks, Raw, Arrow
<1>5. \A v : Raw(v) \in Separators => v \in Blank
  BY DEF Separators, Blanks, Raw, Arrow
<1>6. CASE u \notin Scalar
  <2>1. Printed(u) = <<"x", u>>
    BY <1>6 DEF Printed
  <2>2. <<"x", u>> # Raw(OpenBox)
    BY <1>1
  <2>3. Unprinted(<<"x", u>>) = u
    BY <2>2 DEF Unprinted
  <2> QED BY <1>3, <1>4, <2>1, <2>3 DEF Clear
<1>7. CASE u = Space
  <2>1. Printed(u) = Raw(OpenBox)
    BY <1>2, <1>7 DEF Printed
  <2>2. Raw(OpenBox) \in Clear
    BY MarkFacts
  <2>3. Unprinted(Raw(OpenBox)) = u
    BY <1>7 DEF Unprinted
  <2> QED BY <2>1, <2>2, <2>3 DEF Clear
<1>8. CASE u \in Scalar /\ u # Space /\ u \in {OpenBox} \cup Braces \cup Escaped
  <2>1. Printed(u) = <<"u", u>>
    BY <1>8 DEF Printed
  <2>2. <<"u", u>> # Raw(OpenBox)
    BY <1>1
  <2>3. Unprinted(<<"u", u>>) = u
    BY <2>2 DEF Unprinted
  <2> QED BY <1>3, <1>4, <2>1, <2>3 DEF Clear
<1>9. CASE u \in Scalar /\ u # Space /\ u \notin {OpenBox} \cup Braces \cup Escaped
  <2>1. Printed(u) = Raw(u)
    BY <1>9 DEF Printed
  <2>2. Raw(u) # Raw(OpenBox) /\ Raw(u) \in Mark
    BY <1>1, <1>3, <1>9
  <2>3. Unprinted(Raw(u)) = u
    BY <1>1, <2>2 DEF Unprinted
  <2> QED BY <1>5, <1>9, <2>1, <2>2, <2>3 DEF Clear
<1> QED BY <1>6, <1>7, <1>8, <1>9

\* A content is printed as marks that are parsed as its bytes, which are read
\* as the content.
LEMMA ShownFacts ==
  ASSUME SupportedIn(setup), NEW c, IsContent(setup.unit, c)
  PROVE  /\ ShownIn(setup, c) \in Seq(Mark) /\ c \in Seq(Char) /\ BytesIn(setup, c) \in Seq(Byte)
         /\ Display(c) = ShownIn(setup, c)
         /\ ParsedBytes(ShownIn(setup, c)) = BytesIn(setup, c)
         /\ ContentOf(BytesIn(setup, c)) = c
         /\ c # << >> => ShownIn(setup, c) # << >>
         /\ ClearIn(setup, c) => ShownIn(setup, c) \in Seq(Clear)
<1> DEFINE units == UnitsIn(setup, c)
           shown == ShownIn(setup, c)
<1>1. c \in Seq(Char) /\ BytesIn(setup, c) \in Seq(Byte) /\ ContentOf(BytesIn(setup, c)) = c
  <2>1. Seq(Byte) \subseteq Seq(Char)
    <3>1. Byte \subseteq Char
      BY DEF Char
    <3> QED BY <3>1, SeqMonotonic
  <2> QED BY <2>1, ToBytesIs DEF IsContent, BytesIn, ContentOf
<1>2. Display(c) = shown
  <2>1. CASE setup.format = "gpt2"
    BY <2>1, Zenon DEF Display, ShownIn, UnitsIn
  <2>2. CASE setup.format # "gpt2"
    BY <2>2, Zenon DEF Display, ShownIn, UnitsIn
  <2> QED BY <2>1, <2>2
<1>3. units \in Seq(Char) /\ (c # << >> => units # << >>)
      /\ (setup.format # "gpt2" => ToBytes(units) = BytesIn(setup, c))
  <2>1. CASE setup.unit = "byte" /\ setup.format # "gpt2"
    <3>1. units = FromBytes(c) /\ c \in Seq(Byte) /\ BytesIn(setup, c) = c
      BY <2>1 DEF UnitsIn, IsContent, BytesIn
    <3>2. FromBytes(c) \in Seq(Char) /\ ToBytes(FromBytes(c)) = c
      BY <3>1, ReadingKeepsBytes
    <3>3. ToBytes(<< >>) = << >>
      <4>1. << >> \in Seq(Char)
        OBVIOUS
      <4>2. ToBytes(<< >>) = Mapped(ToBytesMap, << >>)
        BY <4>1, ToBytesIs
      <4> QED BY <4>2, ToBytesIs, MapCat
    <3> QED BY <3>1, <3>2, <3>3
  <2>2. CASE ~(setup.unit = "byte" /\ setup.format # "gpt2")
    BY <1>1, <2>2 DEF UnitsIn, BytesIn
  <2> QED BY <2>1, <2>2
<1>4. DOMAIN shown = DOMAIN units /\ DOMAIN units = 1..Len(units) /\ Len(units) \in Nat
  <2> HIDE DEF units
  <2>1. DOMAIN shown = DOMAIN units
    BY DEF ShownIn, units
  <2> QED BY <1>3, <2>1
<1>5. \A i \in DOMAIN units : units[i] \in Char
      /\ shown[i] = IF setup.format = "gpt2" THEN <<"gpt2", units[i]>> ELSE Printed(units[i])
  BY <1>3 DEF ShownIn
<1>6. \A T : (\A i \in DOMAIN units : shown[i] \in T) => shown \in Seq(T)
  <2> TAKE T
  <2> SUFFICES ASSUME \A i \in DOMAIN units : shown[i] \in T PROVE shown \in Seq(T)
    OBVIOUS
  <2>1. shown = [i \in DOMAIN units |-> shown[i]]
    BY DEF ShownIn
  <2>2. shown = [i \in 1..Len(units) |-> shown[i]]
    BY <1>4, <2>1
  <2> HIDE DEF shown, units
  <2>3. \A i \in 1..Len(units) : shown[i] \in T
    BY <1>4
  <2>4. [i \in 1..Len(units) |-> shown[i]] \in Seq(T)
    BY <1>4, <2>3
  <2> QED BY <2>2, <2>4
<1>7. c # << >> => shown # << >>
  <2> HIDE DEF shown, units
  <2>1. units # << >> => Len(units) > 0
    BY <1>3
  <2>2. Len(units) > 0 => 1 \in DOMAIN shown
    BY <1>4
  <2>3. DOMAIN << >> = {}
    OBVIOUS
  <2> QED BY <1>3, <2>1, <2>2, <2>3
<1>8. shown \in Seq(Mark)
  <2>1. \A x \in Char : <<"gpt2", x>> \in Mark
    BY DEF Mark
  <2>2. \A i \in DOMAIN units : shown[i] \in Mark
    BY <1>5, <2>1, PrintedFacts
  <2> QED BY <1>6, <2>2
<1>9. ClearIn(setup, c) => shown \in Seq(Clear)
  <2>1. \A x \in Char : <<"gpt2", x>> \in Clear
    BY DEF Mark, Clear, Separators, Blanks, Raw, Arrow
  <2>2. ClearIn(setup, c) => \A i \in DOMAIN units : shown[i] \in Clear
    BY <1>5, <2>1, PrintedFacts DEF ClearIn
  <2> QED BY <1>6, <2>2
<1>10. ParsedBytes(shown) = BytesIn(setup, c)
  <2>1. CASE setup.format = "gpt2"
    <3>1. units = c /\ BytesIn(setup, c) = c
      <4>1. setup.unit = "byte"
        BY <2>1 DEF SupportedIn
      <4> QED BY <2>1, <4>1 DEF UnitsIn, BytesIn
    <3>2. ParsedBytes(shown) = [i \in DOMAIN shown |-> shown[i][2]]
      BY <2>1 DEF ParsedBytes
    <3>3. \A i \in DOMAIN units : shown[i][2] = units[i]
      BY <1>5, <2>1
    <3>4. units = [i \in DOMAIN units |-> units[i]]
      <4> HIDE DEF units
      <4> QED BY <1>3
    <3> HIDE DEF shown, units
    <3> QED BY <1>4, <3>1, <3>2, <3>3, <3>4
  <2>2. CASE setup.format # "gpt2"
    <3>1. ParsedBytes(shown) = ToBytes([i \in DOMAIN shown |-> Unprinted(shown[i])])
      BY <2>2 DEF ParsedBytes
    <3>2. \A i \in DOMAIN units : Unprinted(shown[i]) = units[i]
      BY <1>5, <2>2, PrintedFacts
    <3>3. units = [i \in DOMAIN units |-> units[i]]
      <4> HIDE DEF units
      <4> QED BY <1>3
    <3> HIDE DEF shown, units
    <3>4. [i \in DOMAIN shown |-> Unprinted(shown[i])] = units
      BY <1>4, <3>2, <3>3
    <3> QED BY <1>3, <2>2, <3>1, <3>4
  <2> QED BY <2>1, <2>2
<1> QED BY <1>1, <1>2, <1>3, <1>7, <1>8, <1>9, <1>10

-----------------------------------------------------------------------------
(* The files of a model. *)

EntriesIn(s, m) == [k \in DOMAIN m.vocab |-> ShownIn(s, m.vocab[k])]

LinesIn(s, m) ==
  [r \in DOMAIN m.merges |->
     <<ShownIn(s, m.merges[r].left), ShownIn(s, m.merges[r].right)>>]

PiecesIn(s, m) == Mapped(LinePieces, LinesIn(s, m))

\* A model that is validated and whose merges are printed without blanks.
Sound(s, m) ==
  /\ SupportedIn(s)
  /\ ValidModel(s.unit, m)
  /\ \A r \in DOMAIN m.merges : ClearIn(s, m.merges[r].left) /\ ClearIn(s, m.merges[r].right)

\* What validate_model says of the contents and of each merge.
LEMMA SoundFacts ==
  ASSUME NEW s, NEW m, Sound(s, m)
  PROVE  /\ SupportedIn(s)
         /\ m.vocab \in Seq(Seq(Char)) /\ \A k \in DOMAIN m.vocab : IsContent(s.unit, m.vocab[k])
         /\ m.merges \in Seq([left : Seq(Char), right : Seq(Char), target : DOMAIN m.vocab])
         /\ \A k, l \in DOMAIN m.vocab : m.vocab[k] = m.vocab[l] => k = l
BY DEF Sound, ValidModel

\* A merge of a sound model: it joins two tokens to a third.
MergeOf(s, m, r, g) == Sound(s, m) /\ r \in DOMAIN m.merges /\ g = m.merges[r]

\* Its operands are contents that are printed clearly.
LEMMA SoundMerge ==
  ASSUME NEW s, NEW m, NEW r, NEW g, MergeOf(s, m, r, g)
  PROVE  /\ g = [left |-> g.left, right |-> g.right, target |-> g.target]
         /\ g.left # << >> /\ IsContent(s.unit, g.left) /\ ClearIn(s, g.left)
         /\ g.right # << >> /\ IsContent(s.unit, g.right) /\ ClearIn(s, g.right)
         /\ {g.left, g.right} \subseteq {m.vocab[k] : k \in DOMAIN m.vocab}
         /\ g.target \in DOMAIN m.vocab
         /\ m.vocab[g.target] = Joined(s.unit, g.left, g.right)
<1> DEFINE G == [left : Seq(Char), right : Seq(Char), target : DOMAIN m.vocab]
           D == {m.vocab[k] : k \in DOMAIN m.vocab}
<1>0. Sound(s, m) /\ r \in DOMAIN m.merges /\ g = m.merges[r]
  BY DEF MergeOf
<1>1. m.merges \in Seq(G) /\ \A k \in DOMAIN m.vocab : IsContent(s.unit, m.vocab[k])
  BY <1>0, SoundFacts
<1>2. /\ g \in G
      /\ ClearIn(s, g.left) /\ ClearIn(s, g.right)
      /\ m.vocab[g.target] = Joined(s.unit, g.left, g.right)
      /\ {g.left, g.right} \subseteq D \ {<< >>}
  <2> DEFINE B == {m.vocab[k] : k \in DOMAIN m.vocab \ {m.merges[q].target : q \in r..Len(m.merges)}}
  <2>1. /\ {g.left, g.right} \subseteq B \ {<< >>}
        /\ m.vocab[g.target] = Joined(s.unit, g.left, g.right)
    BY <1>0 DEF Sound, ValidModel
  <2>2. B \subseteq D
    OBVIOUS
  <2>3. g \in G
    <3> HIDE DEF G
    <3> QED BY <1>0, <1>1
  <2> HIDE DEF B, G, D
  <2> QED BY <1>0, <2>1, <2>2, <2>3 DEF Sound
<1>3. g = [left |-> g.left, right |-> g.right, target |-> g.target] /\ g.target \in DOMAIN m.vocab
  BY <1>2
<1>4. \A x \in D : IsContent(s.unit, x)
  BY <1>1
<1> HIDE DEF D
<1>5. IsContent(s.unit, g.left) /\ IsContent(s.unit, g.right) /\ {g.left, g.right} \subseteq D
      /\ g.left # << >> /\ g.right # << >>
  BY <1>2, <1>4
<1> QED BY <1>2, <1>3, <1>5 DEF D

\* What is written of a model: its entries, and its lines in pieces.
LEMMA FilesAre ==
  ASSUME NEW m, Sound(setup, m)
  PROVE  /\ VocabEntries(m) = EntriesIn(setup, m)
         /\ LinesIn(setup, m) \in Seq(Line) /\ Len(LinesIn(setup, m)) = Len(m.merges)
         /\ AllPieces(m) = PiecesIn(setup, m) /\ PiecesIn(setup, m) \in Seq(Seq(Mark))
<1> DEFINE ls == LinesIn(setup, m)
<1>1. VocabEntries(m) = EntriesIn(setup, m)
  <2>1. \A k \in DOMAIN m.vocab : Display(m.vocab[k]) = ShownIn(setup, m.vocab[k])
    BY SoundFacts, ShownFacts
  <2> QED BY <2>1 DEF VocabEntries, EntriesIn
<1>2. ASSUME NEW r \in DOMAIN m.merges
      PROVE  /\ ls[r] \in Line /\ MergePieces(m.merges[r]) = LinePieces[ls[r]]
  <2> DEFINE g == m.merges[r]
             a == ShownIn(setup, g.left)
             b == ShownIn(setup, g.right)
  <2>0. /\ SupportedIn(setup)
        /\ g.left # << >> /\ IsContent(setup.unit, g.left) /\ ClearIn(setup, g.left)
        /\ g.right # << >> /\ IsContent(setup.unit, g.right) /\ ClearIn(setup, g.right)
    <3>1. MergeOf(setup, m, r, g)
      BY DEF MergeOf
    <3> HIDE DEF g
    <3> QED BY <3>1, SoundFacts, SoundMerge
  <2>1. a \in Seq(Clear) /\ a # << >> /\ Display(g.left) = a /\ a \in Seq(Mark)
    BY <2>0, ShownFacts
  <2>2. b \in Seq(Clear) /\ b # << >> /\ Display(g.right) = b /\ b \in Seq(Mark)
    BY <2>0, ShownFacts
  <2>3. ls[r] = <<a, b>>
    BY DEF LinesIn
  <2> HIDE DEF a, b, ls
  <2>4. ls[r] \in Line /\ ls[r][1] = a /\ ls[r][2] = b
    BY <2>1, <2>2, <2>3 DEF Line
  <2>5. MergePieces(m.merges[r]) = << a, <<Raw(Space)>>, b, <<Arrow>>, <<Raw(Newline)>> >>
    BY <2>1, <2>2 DEF MergePieces
  <2>6. <<Raw(Space)>> \in Seq(Mark) /\ <<Arrow>> \in Seq(Mark) /\ <<Raw(Newline)>> \in Seq(Mark)
    BY MarkFacts
  <2>7. LinePieces[ls[r]]
          = Onto(a, Onto(<<Raw(Space)>>, Onto(b, Onto(<<Arrow>>, Onto(<<Raw(Newline)>>, << >>)))))
    BY <2>4 DEF LinePieces
  <2> DEFINE W == Seq(Mark)
             sp == <<Raw(Space)>>
             ar == <<Arrow>>
             nl == <<Raw(Newline)>>
  <2>8. a \in W /\ b \in W /\ sp \in W /\ ar \in W /\ nl \in W
    BY <2>1, <2>2, <2>6
  <2> HIDE DEF W, sp, ar, nl
  <2>10. << a, sp, b, ar, nl >> = Onto(a, Onto(sp, Onto(b, Onto(ar, Onto(nl, << >>)))))
    BY <2>8, FiveOnto
  <2> USE DEF sp, ar, nl
  <2>9. << a, <<Raw(Space)>>, b, <<Arrow>>, <<Raw(Newline)>> >>
          = Onto(a, Onto(<<Raw(Space)>>, Onto(b, Onto(<<Arrow>>, Onto(<<Raw(Newline)>>, << >>)))))
    BY <2>10
  <2> QED BY <2>4, <2>5, <2>7, <2>9
<1>3. ls \in Seq(Line) /\ Len(ls) = Len(m.merges)
  <2>1. Len(m.merges) \in Nat /\ DOMAIN m.merges = 1..Len(m.merges)
    BY SoundFacts
  <2>2. ls = [r \in 1..Len(m.merges) |-> ls[r]] /\ DOMAIN ls = 1..Len(m.merges)
    BY <2>1 DEF LinesIn
  <2>3. \A r \in 1..Len(m.merges) : ls[r] \in Line
    BY <1>2, <2>1
  <2> HIDE DEF ls
  <2>4. [r \in 1..Len(m.merges) |-> ls[r]] \in Seq(Line)
    BY <2>1, <2>3
  <2> QED BY <2>1, <2>2, <2>4
<1>4. AllPieces(m) = PiecesIn(setup, m)
  <2>1. DOMAIN ls = DOMAIN m.merges
    BY DEF LinesIn
  <2>2. [r \in DOMAIN m.merges |-> MergePieces(m.merges[r])] = [r \in DOMAIN ls |-> LinePieces[ls[r]]]
    <3> HIDE DEF ls
    <3> QED BY <1>2, <2>1
  <2> QED BY <2>2 DEF AllPieces, PiecesIn, Mapped
<1>5. PiecesIn(setup, m) \in Seq(Seq(Mark))
  <2> DEFINE W == Seq(Mark)
  <2>1. Maps(LinePieces, Line, W)
    BY LineText DEF Maps
  <2> HIDE DEF W, ls
  <2>2. Mapped(LinePieces, ls) \in Seq(W)
    BY <1>3, <2>1, MapCat
  <2> QED BY <2>2 DEF W, PiecesIn, ls
<1> QED BY <1>1, <1>3, <1>4, <1>5

\* The id of a content that occurs once.
LEMMA IdOfContent ==
  ASSUME NEW vocab \in Seq(Seq(Char)), NEW k \in DOMAIN vocab,
         \A i, j \in DOMAIN vocab : vocab[i] = vocab[j] => i = j
  PROVE  IdIn(vocab, vocab[k]) = k
<1>1. {i \in DOMAIN vocab : vocab[i] = vocab[k]} = {k} /\ k \in Nat
  OBVIOUS
<1>2. Max({k}) = k
  BY <1>1 DEF Max
<1> QED BY <1>1, <1>2 DEF IdIn

\* What is loaded from the whole vocabulary of a model and what was written of
\* its merges: an error, or its tokens and the first of its merges; all of them
\* when nothing is left to write (load_vocab_file, load_merges_file, build).
LEMMA LoadsFirst ==
  ASSUME NEW m, Sound(setup, m),
         NEW done \in Seq(Seq(Mark)), NEW todo \in Seq(Seq(Mark)),
         Cat(done, todo) = PiecesIn(setup, m),
         NEW x, x = Loads([entries |-> EntriesIn(setup, m), whole |-> TRUE], FlattenSeq(done))
  PROVE  /\ x = Failure \/ (x.vocab = m.vocab /\ IsPrefix(x.merges, m.merges))
         /\ todo = << >> =>
              x = [vocab |-> m.vocab, merges |-> m.merges, specials |-> Inferred(m.vocab)]
<1> DEFINE text == FlattenSeq(done)
           vt == [entries |-> EntriesIn(setup, m), whole |-> TRUE]
           ls == LinesIn(setup, m)
           words == RawMerges(text)
           n == Len(words)
           ms == m.merges
           raw == [i \in DOMAIN words |-> <<ParsedBytes(words[i][1]), ParsedBytes(words[i][2])>>]
           vocab == [k \in DOMAIN vt.entries |-> ContentOf(ParsedBytes(vt.entries[k]))]
           Contents(r) == [left |-> ContentOf(r[1]), right |-> ContentOf(r[2]),
                           both |-> ContentOf(r[1] \o r[2])]
           Known(c) == {c.left, c.right, c.both} \subseteq Elements(vocab)
           read == [r \in DOMAIN raw |->
                      LET c == Contents(raw[r])
                      IN [left |-> c.left, right |-> c.right, target |-> IdIn(vocab, c.both)]]
           wrong == \E i \in DOMAIN words : Len(words[i]) # 2
<1>1. ls \in Seq(Line) /\ Len(ls) = Len(ms)
  BY FilesAre
<1>2. /\ wrong \/ (words \in Seq(Line) /\ \E q \in Seq(Line) : ls = Cat(words, q))
      /\ todo = << >> => words = ls
  <2>1. Cat(done, todo) = Mapped(LinePieces, ls)
    BY DEF PiecesIn
  <2> HIDE DEF ls
  <2> QED BY <1>1, <2>1, WrittenLoads
<1>3. x = IF wrong THEN Failure
          ELSE IF \E r \in DOMAIN raw : ~Known(Contents(raw[r])) THEN Failure
          ELSE [vocab |-> vocab, merges |-> read, specials |-> Inferred(vocab)]
  BY DEF Loads
<1>4. vocab = m.vocab
  <2>1. DOMAIN vt.entries = DOMAIN m.vocab
    BY DEF EntriesIn
  <2>2. \A k \in DOMAIN m.vocab : ContentOf(ParsedBytes(vt.entries[k])) = m.vocab[k]
    <3> TAKE k \in DOMAIN m.vocab
    <3>1. SupportedIn(setup) /\ IsContent(setup.unit, m.vocab[k])
      BY SoundFacts
    <3>2. vt.entries[k] = ShownIn(setup, m.vocab[k])
      BY DEF EntriesIn
    <3> QED BY <3>1, <3>2, ShownFacts
  <2>3. m.vocab = [k \in DOMAIN m.vocab |-> m.vocab[k]]
    <3>1. m.vocab \in Seq(Seq(Char))
      BY SoundFacts
    <3> QED BY <3>1
  <2> HIDE DEF vt
  <2> QED BY <2>1, <2>2, <2>3
<1>5. CASE wrong
  <2>1. x = Failure
    BY <1>3, <1>5
  <2>2. todo # << >>
    <3> SUFFICES ASSUME words = ls PROVE FALSE
      BY <1>2
    <3>1. PICK i \in DOMAIN ls : Len(ls[i]) # 2
      BY <1>5
    <3>2. ls[i] \in Line
      <4> HIDE DEF ls
      <4> QED BY <1>1
    <3>3. \A l \in Line : Len(l) = 2
      BY DEF Line
    <3> QED BY <3>1, <3>2, <3>3
  <2> QED BY <2>1, <2>2
<1>6. CASE ~wrong
  <2>1. PICK q \in Seq(Line) : ls = Cat(words, q)
    BY <1>2, <1>6
  <2>2. words \in Seq(Line)
    BY <1>2, <1>6
  <2>3. /\ n \in Nat /\ n <= Len(ms) /\ DOMAIN words = 1..n /\ Len(ms) \in Nat
        /\ DOMAIN ms = 1..Len(ms)
        /\ \A i \in 1..n : words[i] = ls[i]
    <3>1. Len(ms) \in Nat /\ DOMAIN ms = 1..Len(ms)
      BY SoundFacts
    <3> HIDE DEF words, ls, ms
    <3>2. Len(words \o q) = n + Len(q) /\ Len(q) \in Nat /\ n \in Nat
      BY <2>2
    <3>3. \A i \in 1..n : (words \o q)[i] = words[i]
      BY <2>2
    <3>4. DOMAIN words = 1..n
      BY <2>2
    <3> HIDE DEF n
    <3> QED BY <1>1, <2>1, <3>1, <3>2, <3>3, <3>4 DEF Cat
  <2>4. ASSUME NEW i \in 1..n
        PROVE  /\ i \in DOMAIN ms
               /\ Contents(raw[i])
                    = [left |-> ms[i].left, right |-> ms[i].right,
                       both |-> m.vocab[ms[i].target]]
               /\ {ms[i].left, ms[i].right, m.vocab[ms[i].target]} \subseteq Elements(m.vocab)
               /\ ms[i] = [left |-> ms[i].left, right |-> ms[i].right,
                           target |-> IdIn(m.vocab, m.vocab[ms[i].target])]
    <3> DEFINE g == ms[i]
    <3>1. i \in DOMAIN ms
      <4> HIDE DEF n, ms
      <4> QED BY <2>3
    <3>2. /\ g = [left |-> g.left, right |-> g.right, target |-> g.target]
          /\ IsContent(setup.unit, g.left) /\ IsContent(setup.unit, g.right)
          /\ {g.left, g.right} \subseteq {m.vocab[k] : k \in DOMAIN m.vocab}
          /\ g.target \in DOMAIN m.vocab
          /\ m.vocab[g.target] = Joined(setup.unit, g.left, g.right)
          /\ SupportedIn(setup)
      <4>1. MergeOf(setup, m, i, g)
        BY <3>1 DEF MergeOf
      <4>2. SupportedIn(setup)
        BY SoundFacts
      <4> HIDE DEF g
      <4> QED BY <4>1, <4>2, SoundMerge
    <3>3. words[i] = <<ShownIn(setup, g.left), ShownIn(setup, g.right)>>
      <4>1. words[i] = ls[i]
        BY <2>3
      <4>2. ls[i] = <<ShownIn(setup, g.left), ShownIn(setup, g.right)>>
        BY <3>1 DEF LinesIn
      <4> QED BY <4>1, <4>2
    <3>4. raw[i] = <<BytesIn(setup, g.left), BytesIn(setup, g.right)>>
      <4>1. i \in DOMAIN words
        BY <2>3
      <4>2. raw[i] = <<ParsedBytes(words[i][1]), ParsedBytes(words[i][2])>>
        <5> HIDE DEF words
        <5> QED BY <4>1
      <4>3. /\ ParsedBytes(ShownIn(setup, g.left)) = BytesIn(setup, g.left)
            /\ ParsedBytes(ShownIn(setup, g.right)) = BytesIn(setup, g.right)
        BY <3>2, ShownFacts
      <4> HIDE DEF raw, words, g
      <4> QED BY <3>3, <4>2, <4>3
    <3>5. /\ ContentOf(BytesIn(setup, g.left)) = g.left
          /\ ContentOf(BytesIn(setup, g.right)) = g.right
      BY <3>2, ShownFacts
    <3>6. ContentOf(BytesIn(setup, g.left) \o BytesIn(setup, g.right)) = m.vocab[g.target]
      <4> HIDE DEF g
      <4> QED BY <3>2 DEF ContentOf, BytesIn, Joined
    <3>7. Contents(raw[i]) = [left |-> g.left, right |-> g.right, both |-> m.vocab[g.target]]
      <4> HIDE DEF raw, g
      <4> QED BY <3>4, <3>5, <3>6
    <3>8. IdIn(m.vocab, m.vocab[g.target]) = g.target
      <4>1. m.vocab \in Seq(Seq(Char)) /\ \A k, l \in DOMAIN m.vocab : m.vocab[k] = m.vocab[l] => k = l
        BY SoundFacts
      <4> HIDE DEF g
      <4> QED BY <3>2, <4>1, IdOfContent
    <3>9. {g.left, g.right, m.vocab[g.target]} \subseteq Elements(m.vocab)
      <4> HIDE DEF g
      <4> QED BY <3>2 DEF Elements
    <3> HIDE DEF raw
    <3> QED BY <3>1, <3>2, <3>7, <3>8, <3>9
  <2>5. DOMAIN raw = 1..n
    BY <2>3
  <2>6. \A r \in DOMAIN raw : Known(Contents(raw[r]))
    <3> SUFFICES ASSUME NEW i \in 1..n PROVE Known(Contents(raw[i]))
      BY <2>5
    <3> DEFINE c == Contents(raw[i])
    <3>1. /\ c = [left |-> ms[i].left, right |-> ms[i].right, both |-> m.vocab[ms[i].target]]
          /\ {ms[i].left, ms[i].right, m.vocab[ms[i].target]} \subseteq Elements(m.vocab)
      BY <2>4
    <3> HIDE DEF c, ms, vocab
    <3>2. c.left = ms[i].left /\ c.right = ms[i].right /\ c.both = m.vocab[ms[i].target]
      BY <3>1
    <3>3. Known(c)
      BY <1>4, <3>1, <3>2
    <3> QED BY <3>3 DEF c
  <2>7. x = [vocab |-> vocab, merges |-> read, specials |-> Inferred(vocab)]
    <3> HIDE DEF raw, read, wrong, vocab, Contents, Known
    <3> QED BY <1>3, <1>6, <2>6
  <2>8. read = [r \in 1..n |-> ms[r]]
    <3> DEFINE H(r) == [left |-> Contents(raw[r]).left, right |-> Contents(raw[r]).right,
                        target |-> IdIn(vocab, Contents(raw[r]).both)]
    <3>1. read = [r \in 1..n |-> H(r)]
      <4> HIDE DEF raw, n, vocab
      <4> QED BY <2>5
    <3>2. \A r \in 1..n : H(r) = ms[r]
      <4> TAKE r \in 1..n
      <4>1. /\ Contents(raw[r]).left = ms[r].left /\ Contents(raw[r]).right = ms[r].right
            /\ Contents(raw[r]).both = m.vocab[ms[r].target]
        <5> DEFINE c == Contents(raw[r])
        <5>1. c = [left |-> ms[r].left, right |-> ms[r].right, both |-> m.vocab[ms[r].target]]
          BY <2>4
        <5> HIDE DEF c, ms
        <5>2. c.left = ms[r].left /\ c.right = ms[r].right /\ c.both = m.vocab[ms[r].target]
          BY <5>1
        <5> QED BY <5>2 DEF c
      <4>2. ms[r] = [left |-> ms[r].left, right |-> ms[r].right,
                     target |-> IdIn(m.vocab, m.vocab[ms[r].target])]
        BY <2>4
      <4> HIDE DEF Contents, raw, n, ms, vocab
      <4> QED BY <1>4, <4>1, <4>2
    <3> HIDE DEF H, read, n, ms
    <3> QED BY <3>1, <3>2
  <2>9. IsPrefix(read, ms)
    <3> HIDE DEF read, n
    <3>1. Len(read) = n /\ DOMAIN read = 1..n
      BY <2>3, <2>8
    <3>2. SubSeq(read, 1, n) = [r \in 1..n |-> read[r]] /\ SubSeq(ms, 1, n) = [r \in 1..n |-> ms[r]]
      BY <2>3, <2>8
    <3>3. \A r \in 1..n : read[r] = ms[r]
      BY <2>8
    <3> HIDE DEF ms
    <3>4. SubSeq(read, 1, n) = SubSeq(ms, 1, n)
      BY <3>2, <3>3
    <3> QED BY <2>3, <3>1, <3>4 DEF IsPrefix
  <2>10. ASSUME todo = << >>
         PROVE  read = ms
    <3>1. n = Len(ms)
      BY <1>1, <1>2, <2>10
    <3>2. ms = [r \in DOMAIN ms |-> ms[r]]
      <4>1. ms \in Seq([left : Seq(Char), right : Seq(Char), target : DOMAIN m.vocab])
        BY SoundFacts
      <4> HIDE DEF ms
      <4> QED BY <4>1
    <3> HIDE DEF read, n, ms
    <3> QED BY <2>3, <2>8, <3>1, <3>2
  <2> HIDE DEF read, vocab, ms
  <2>11. x.vocab = vocab /\ x.merges = read
    BY <2>7
  <2> QED BY <1>4, <2>7, <2>9, <2>10, <2>11 DEF ms
<1> QED BY <1>5, <1>6

-----------------------------------------------------------------------------
(* The words file. *)

Counts(c, whole) == [corpus |-> c, whole |-> whole]

\* What a run knows of the words file at each step: nothing before it counted,
\* that it wrote its own counts, or that the counts it holds are stored.
WordsFileInv ==
  /\ run = [pc |-> run.pc, counts |-> run.counts, model |-> run.model,
            pieces |-> run.pieces]
  /\ wordsFile = None \/ wordsFile = Counts(wordsFile.corpus, wordsFile.whole)
  /\ run.pc = "storing" => wordsFile = Counts(run.counts, FALSE)
  /\ setup.tool = "cli" =>
       /\ run.pc \in {"idle", "counting"} => run.counts = None
       /\ run.pc \notin {"idle", "counting", "storing"} =>
            wordsFile = Counts(run.counts, TRUE)

\* It holds before the first run.
LEMMA WordsFileInit == Init => WordsFileInv
BY DEF Init, WordsFileInv, Idle

\* A step that leaves the words file and the counts alone, between two points
\* of a run after its counts were stored, or to its end.
LEMMA RunGoesOn ==
  ASSUME WordsFileInv, run.pc \notin {"idle", "counting", "storing"},
         UNCHANGED <<setup, wordsFile>>,
         \/ run' = Idle
         \/ /\ run' = [pc |-> run'.pc, counts |-> run.counts,
                       model |-> run'.model, pieces |-> run'.pieces]
            /\ run'.pc \notin {"idle", "counting", "storing"}
  PROVE  WordsFileInv'
<1>1. CASE run' = Idle
  BY <1>1 DEF WordsFileInv, Idle, Counts
<1>2. CASE run' # Idle
  BY <1>2 DEF WordsFileInv, Counts
<1> QED BY <1>1, <1>2

\* Every step of a run keeps it.
LEMMA WordsFileStep == WordsFileInv /\ [Next]_vars => WordsFileInv'
<1> SUFFICES ASSUME WordsFileInv, [Next]_vars
             PROVE  WordsFileInv'
  OBVIOUS
<1>1. ASSUME NEW c \in Corpora, ReplaceInput(c)
      PROVE  WordsFileInv'
  BY <1>1 DEF WordsFileInv, ReplaceInput, files, Counts
<1>2. ASSUME NEW c \in Corpora, Save(c)
      PROVE  WordsFileInv'
  BY <1>2 DEF WordsFileInv, Save, Step, Idle, files, Counts
<1>3. CASE StartTrain
  BY <1>3 DEF WordsFileInv, StartTrain, Step, Idle, files, Counts
<1>4. CASE ReuseWords
  <2>1. CASE wordsFile.whole
    BY <1>4, <2>1 DEF WordsFileInv, ReuseWords, Step, Idle, files, Counts
  <2>2. CASE ~wordsFile.whole
    BY <1>4, <2>2 DEF WordsFileInv, ReuseWords, Step, Idle, files, Counts
  <2> QED BY <2>1, <2>2
<1>5. CASE CountWords
  BY <1>5 DEF WordsFileInv, CountWords, Step, Counts
<1>6. CASE StoreWords
  <2>1. /\ run.pc = "storing" /\ wordsFile = Counts(run.counts, FALSE)
        /\ run' = [run EXCEPT !.pc = "training"]
        /\ wordsFile' = [wordsFile EXCEPT !.whole = TRUE]
    BY <1>6 DEF WordsFileInv, StoreWords, Step
  <2>2. wordsFile' = Counts(run.counts, TRUE)
    BY <2>1 DEF Counts
  <2>3. run' = [pc |-> "training", counts |-> run.counts, model |-> run.model,
                pieces |-> run.pieces]
    BY <2>1 DEF WordsFileInv
  <2> QED BY <2>2, <2>3 DEF WordsFileInv, Counts
<1>7. CASE Learn
  BY <1>7, RunGoesOn DEF WordsFileInv, Learn, Step, files
<1>8. CASE CreateVocab
  BY <1>8, RunGoesOn DEF WordsFileInv, CreateVocab, Step
<1>9. CASE CreateMerges
  BY <1>9, RunGoesOn DEF WordsFileInv, CreateMerges, Step
<1>10. CASE Validate
  BY <1>10, RunGoesOn DEF WordsFileInv, Validate, Step, files
<1>11. CASE WriteVocab
  BY <1>11, RunGoesOn DEF WordsFileInv, WriteVocab, Step
<1>12. CASE WriteMerges
  BY <1>12, RunGoesOn DEF WordsFileInv, WriteMerges, Step
<1>13. CASE Finish
  BY <1>13, RunGoesOn DEF Finish, Step, files
<1>14. CASE Crash
  BY <1>14 DEF WordsFileInv, Crash, Idle, files, Counts
<1>15. CASE Load
  BY <1>15 DEF WordsFileInv, Load, files, Counts
<1>16. CASE UNCHANGED vars
  BY <1>16 DEF WordsFileInv, vars, files, Counts
<1> QED
  BY <1>1, <1>2, <1>3, <1>4, <1>5, <1>6, <1>7, <1>8, <1>9, <1>10, <1>11, <1>12,
     <1>13, <1>14, <1>15, <1>16 DEF Next

\* The train command never trains on anything but counts that are complete and
\* stored, however often it or an earlier run was killed (_pretokenize).
THEOREM InterruptedCountsAreUnused == Spec => []TrainsOnStoredCounts
<1>1. WordsFileInv => TrainsOnStoredCounts
  BY DEF WordsFileInv, TrainsOnStoredCounts, Counts
<1> QED BY <1>1, WordsFileInit, WordsFileStep, PTL DEF Spec

-----------------------------------------------------------------------------
(* What the files hold between any two steps. *)

Writing == {"create merges", "validate", "vocab", "merges"}

Whole(s, m) == [entries |-> EntriesIn(s, m), whole |-> TRUE]

\* Some of the pieces of m have been written, and todo have not.
WrittenOf(s, m, text, todo) ==
  \E done \in Seq(Seq(Mark)) : Cat(done, todo) = PiecesIn(s, m) /\ text = FlattenSeq(done)

\* The models that are saved are trained models that were validated.
Saveable(s, m) == SupportedIn(s) /\ m.valid /\ \E c \in Corpora : m = Trained[s.unit][c]

\* No merge of a valid model has an operand that is printed with a blank.
Printable ==
  \A s \in Setups : \A c \in Corpora :
    LET merges == Trained[s.unit][c].merges
    IN Trained[s.unit][c].valid =>
         \A r \in DOMAIN merges : ClearIn(s, merges[r].left) /\ ClearIn(s, merges[r].right)

\* What a run works with.
RunInv ==
  /\ input \in Corpora
  /\ setup \in Setups
  /\ wordsFile # None => wordsFile.corpus \in Corpora
  /\ run.pc \in {"storing", "training"} => run.counts \in Corpora
  /\ run.pc \in {"counting", "storing", "training"} => setup.tool = "cli"
  /\ run.pc \in Writing \cup {"create vocab"} =>
       SupportedIn(setup) /\ \E c \in Corpora : run.model = Trained[setup.unit][c]
  /\ run.pc \in {"vocab", "merges"}
     \/ (setup.tool # "cli" /\ run.pc \in Writing \cup {"create vocab"}) =>
       run.model.valid

\* What has been written, by this run and by the one before.
FilesInv ==
  /\ setup.tool = "cli" /\ run.pc \in {"create merges", "validate", "vocab"} => ~vocabFile.whole
  /\ setup.tool = "cli" /\ run.pc \in {"validate", "vocab"} => mergesFile = << >>
  /\ setup.tool # "cli" /\ run.pc = "create merges" => vocabFile = Whole(setup, run.model)
  /\ run.pc = "merges" =>
       /\ vocabFile = Whole(setup, run.model)
       /\ run.pieces \in Seq(Seq(Mark))
       /\ WrittenOf(setup, run.model, mergesFile, run.pieces)
  /\ setup.tool = "cli" /\ vocabFile # None /\ mergesFile # None /\ vocabFile.whole =>
       \E c \in Corpora, todo \in Seq(Seq(Mark)) :
         /\ Saveable(setup, Trained[setup.unit][c])
         /\ vocabFile = Whole(setup, Trained[setup.unit][c])
         /\ WrittenOf(setup, Trained[setup.unit][c], mergesFile, todo)
  /\ saved # None =>
       /\ run.pc \notin Writing
       /\ Saveable(setup, saved)
       /\ vocabFile = Whole(setup, saved)
       /\ mergesFile = FlattenSeq(PiecesIn(setup, saved))

\* What was loaded of them.
LoadedInv ==
  /\ loaded # None => run.pc \notin Writing
  /\ saved # None /\ loaded # None =>
       loaded = [vocab |-> saved.vocab, merges |-> saved.merges, specials |-> Inferred(saved.vocab)]
  /\ NoMixtureLoads

ModelInv == WordsFileInv /\ RunInv /\ FilesInv /\ LoadedInv

\* What is saved can be loaded.
LEMMA SaveableSound ==
  ASSUME Printable, setup \in Setups, NEW m, Saveable(setup, m)
  PROVE  Sound(setup, m)
<1>1. PICK c \in Corpora : m = Trained[setup.unit][c]
  BY DEF Saveable
<1>2. m.valid /\ SupportedIn(setup)
  BY DEF Saveable
<1>3. ValidModel(setup.unit, m)
  BY <1>1, <1>2, TrainedAssumption
<1> QED BY <1>1, <1>2, <1>3 DEF Sound, Printable

\* All of it holds before the first run.
LEMMA ModelInit == Init => ModelInv
<1> SUFFICES ASSUME Init PROVE ModelInv
  OBVIOUS
<1>1. WordsFileInv
  BY WordsFileInit
<1>2. RunInv
  BY DEF Init, RunInv, Idle, Writing
<1>3. FilesInv
  BY DEF Init, FilesInv, Idle, Writing
<1>4. LoadedInv
  BY DEF Init, LoadedInv, NoMixtureLoads
<1> QED BY <1>1, <1>2, <1>3, <1>4 DEF ModelInv

\* A run that stays in its place, or goes on to the next, with the counts and
\* the model it has.
LEMMA RunStep == ModelInv /\ [Next]_vars => RunInv'
<1> SUFFICES ASSUME ModelInv, [Next]_vars
             PROVE  RunInv'
  OBVIOUS
<1>0. /\ RunInv
      /\ run = [pc |-> run.pc, counts |-> run.counts, model |-> run.model, pieces |-> run.pieces]
      /\ wordsFile = None \/ wordsFile = Counts(wordsFile.corpus, wordsFile.whole)
      /\ run.pc = "storing" => wordsFile = Counts(run.counts, FALSE)
  BY DEF ModelInv, WordsFileInv
<1>1. ASSUME NEW c \in Corpora, ReplaceInput(c)
      PROVE  RunInv'
  BY <1>0, <1>1 DEF RunInv, ReplaceInput, files, Writing
<1>2. ASSUME NEW c \in Corpora, Save(c)
      PROVE  RunInv'
  <2>1. SupportedIn(setup)
    BY <1>2 DEF Save, Supported, SupportedIn
  <2> QED BY <1>0, <1>2, <2>1 DEF RunInv, Save, Step, Idle, files, Writing
<1>3. CASE StartTrain
  BY <1>0, <1>3 DEF RunInv, StartTrain, Step, Idle, files, Writing
<1>4. CASE ReuseWords
  <2>1. CASE wordsFile.whole
    BY <1>0, <1>4, <2>1 DEF RunInv, ReuseWords, Step, files, Writing, Counts
  <2>2. CASE ~wordsFile.whole
    BY <1>0, <1>4, <2>2 DEF RunInv, ReuseWords, Step, Idle, files, Writing, Counts
  <2> QED BY <2>1, <2>2
<1>5. CASE CountWords
  BY <1>0, <1>5 DEF RunInv, CountWords, Step, Writing
<1>6. CASE StoreWords
  BY <1>0, <1>6 DEF RunInv, StoreWords, Step, Writing, Counts
<1>7. CASE Learn
  <2>1. CASE Supported
    <3>1. SupportedIn(setup) /\ run.counts \in Corpora
      BY <1>0, <1>7, <2>1 DEF Supported, SupportedIn, RunInv, Learn, Step
    <3>2. run' = [pc |-> "create vocab", counts |-> run.counts,
                  model |-> Trained[setup.unit][run.counts], pieces |-> run.pieces]
      BY <1>0, <1>7, <2>1 DEF Learn, Step
    <3>3. /\ run'.pc = "create vocab" /\ run'.model = Trained[setup.unit][run.counts]
          /\ UNCHANGED <<input, setup, wordsFile>> /\ setup.tool = "cli"
      <4>1. run.pc = "training" /\ UNCHANGED <<input, setup, wordsFile>>
        BY <1>7 DEF Learn, files, Step
      <4>2. setup.tool = "cli"
        BY <1>0, <4>1 DEF RunInv
      <4> QED BY <3>2, <4>1, <4>2
    <3> QED BY <1>0, <3>1, <3>3 DEF RunInv, Writing
  <2>2. CASE ~Supported
    BY <1>0, <1>7, <2>2 DEF RunInv, Learn, Step, Idle, files, Writing
  <2> QED BY <2>1, <2>2
<1>8. CASE CreateVocab
  BY <1>0, <1>8 DEF RunInv, CreateVocab, Step, Writing
<1>9. CASE CreateMerges
  BY <1>0, <1>9 DEF RunInv, CreateMerges, Step, Writing
<1>10. CASE Validate
  BY <1>0, <1>10 DEF RunInv, Validate, Step, Idle, files, Writing
<1>11. CASE WriteVocab
  BY <1>0, <1>11 DEF RunInv, WriteVocab, Step, Writing
<1>12. CASE WriteMerges
  BY <1>0, <1>12 DEF RunInv, WriteMerges, Step, Writing
<1>13. CASE Finish
  BY <1>0, <1>13 DEF RunInv, Finish, Step, Idle, files, Writing
<1>14. CASE Crash
  BY <1>0, <1>14 DEF RunInv, Crash, Idle, files, Writing
<1>15. CASE Load
  BY <1>0, <1>15 DEF RunInv, Load, files
<1>16. CASE UNCHANGED vars
  BY <1>0, <1>16 DEF RunInv, vars, files
<1> QED
  BY <1>1, <1>2, <1>3, <1>4, <1>5, <1>6, <1>7, <1>8, <1>9, <1>10, <1>11, <1>12,
     <1>13, <1>14, <1>15, <1>16 DEF Next

\* A step that leaves the files of the model alone and writes nothing next.
LEMMA FilesKept ==
  ASSUME FilesInv, UNCHANGED <<setup, vocabFile, mergesFile, saved>>, run'.pc \notin Writing
  PROVE  FilesInv'
BY DEF FilesInv, Writing

\* Every step keeps what the files are known to hold.
LEMMA FilesStep == Printable /\ ModelInv /\ [Next]_vars => FilesInv'
<1> SUFFICES ASSUME Printable, ModelInv, [Next]_vars
             PROVE  FilesInv'
  OBVIOUS
<1>0. /\ RunInv /\ FilesInv /\ setup \in Setups
      /\ run = [pc |-> run.pc, counts |-> run.counts, model |-> run.model, pieces |-> run.pieces]
  BY DEF ModelInv, WordsFileInv, RunInv
<1> DEFINE m == run.model
           W == Seq(Mark)
<1>a. \A pc : [run EXCEPT !.pc = pc].pc = pc /\ [run EXCEPT !.pc = pc].model = m
              /\ [run EXCEPT !.pc = pc].pieces = run.pieces
  BY <1>0
<1>b. ASSUME run.pc \in {"vocab", "merges"}
             \/ (setup.tool # "cli" /\ run.pc \in Writing \cup {"create vocab"})
      PROVE  /\ Saveable(setup, m) /\ Sound(setup, m)
             /\ AllPieces(m) = PiecesIn(setup, m) /\ PiecesIn(setup, m) \in Seq(W)
             /\ VocabEntries(m) = EntriesIn(setup, m)
  <2>1. Saveable(setup, m)
    BY <1>0, <1>b DEF RunInv, Saveable, Writing
  <2>2. Sound(setup, m)
    BY <1>0, <2>1, SaveableSound
  <2> QED BY <2>1, <2>2, FilesAre
<1>c. << >> \in Seq(W) /\ FlattenSeq(<< >>) = << >> /\ \A ss \in Seq(W) : Cat(<< >>, ss) = ss
  <2>1. << >> \in Seq(W) /\ FlattenSeq(<< >>) = << >>
    BY FlattenCat
  <2>2. \A ss \in Seq(W) : Cat(<< >>, ss) = ss
    <3> HIDE DEF W
    <3> QED BY ConsAlgebra
  <2> QED BY <2>1, <2>2
<1>1. ASSUME NEW c \in Corpora, ReplaceInput(c)
      PROVE  FilesInv'
  BY <1>0, <1>1, FilesKept DEF ReplaceInput, files, Writing
<1>2. ASSUME NEW c \in Corpora, Save(c)
      PROVE  FilesInv'
  BY <1>0, <1>2, FilesKept DEF Save, Step, Idle, files, Writing
<1>3. CASE StartTrain
  BY <1>0, <1>3, FilesKept DEF StartTrain, Step, Idle, files, Writing
<1>4. CASE ReuseWords
  <2>1. run'.pc \in {"training", "idle"}
    BY <1>0, <1>4 DEF ReuseWords, Step, Idle
  <2> QED BY <1>0, <1>4, <2>1, FilesKept DEF ReuseWords, files, Writing
<1>5. CASE CountWords
  BY <1>0, <1>5, FilesKept DEF CountWords, Step, Writing
<1>6. CASE StoreWords
  BY <1>0, <1>6, FilesKept DEF StoreWords, Step, Writing
<1>7. CASE Learn
  <2>1. run'.pc \in {"create vocab", "idle"}
    BY <1>0, <1>7 DEF Learn, Step, Idle
  <2> QED BY <1>0, <1>7, <2>1, FilesKept DEF Learn, files, Writing
<1>8. CASE CreateVocab
  <2>1. /\ vocabFile' = [entries |-> << >>, whole |-> FALSE] /\ saved' = None
        /\ setup' = setup
        /\ run' = [run EXCEPT !.pc = IF setup.tool = "cli" THEN "create merges" ELSE "vocab"]
    BY <1>8 DEF CreateVocab, Step
  <2>2. ~vocabFile'.whole
    BY <2>1
  <2>3. run'.pc = IF setup.tool = "cli" THEN "create merges" ELSE "vocab"
    BY <1>a, <2>1
  <2>4. CASE setup.tool = "cli"
    <3>1. run'.pc = "create merges"
      BY <2>3, <2>4
    <3> QED BY <2>1, <2>2, <2>4, <3>1 DEF FilesInv
  <2>5. CASE setup.tool # "cli"
    <3>1. run'.pc = "vocab"
      BY <2>3, <2>5
    <3> QED BY <2>1, <2>2, <2>5, <3>1 DEF FilesInv
  <2> QED BY <2>4, <2>5
<1>9. CASE CreateMerges
  <2>0. /\ run.pc = "create merges" /\ mergesFile' = << >>
        /\ UNCHANGED <<setup, vocabFile, saved>>
        /\ run' = IF setup.tool = "cli" THEN [run EXCEPT !.pc = "validate"]
                  ELSE [run EXCEPT !.pc = "merges", !.pieces = AllPieces(m)]
    BY <1>9 DEF CreateMerges, Step
  <2>1. saved' = None
    BY <1>0, <2>0 DEF FilesInv, Writing
  <2>2. CASE setup.tool = "cli"
    <3>1. run'.pc = "validate" /\ ~vocabFile'.whole
      BY <1>0, <1>a, <2>0, <2>2 DEF FilesInv
    <3> QED BY <2>0, <2>1, <2>2, <3>1 DEF FilesInv
  <2>3. CASE setup.tool # "cli"
    <3>1. run'.pc = "merges" /\ run'.pieces = PiecesIn(setup, m) /\ run'.model = m
          /\ PiecesIn(setup, m) \in Seq(W)
      BY <1>0, <1>b, <2>0, <2>3 DEF Writing
    <3>2. WrittenOf(setup, m, << >>, PiecesIn(setup, m))
      BY <1>c, <3>1 DEF WrittenOf
    <3>3. vocabFile = Whole(setup, m)
      BY <1>0, <2>0, <2>3 DEF FilesInv
    <3> QED BY <2>0, <2>1, <2>3, <3>1, <3>2, <3>3 DEF FilesInv
  <2> QED BY <2>2, <2>3
<1>10. CASE Validate
  <2>1. CASE run.model.valid
    <3>1. run.pc = "validate" /\ run'.pc = "vocab" /\ UNCHANGED <<setup, vocabFile, mergesFile, saved>>
      BY <1>a, <1>10, <2>1 DEF Validate, Step, files
    <3> QED BY <1>0, <3>1 DEF FilesInv, Writing
  <2>2. CASE ~run.model.valid
    BY <1>0, <1>10, <2>2, FilesKept DEF Validate, Step, Idle, files, Writing
  <2> QED BY <2>1, <2>2
<1>11. CASE WriteVocab
  <2>0. /\ run.pc = "vocab" /\ vocabFile' = [entries |-> VocabEntries(m), whole |-> TRUE]
        /\ UNCHANGED <<setup, mergesFile, saved>>
        /\ run' = IF setup.tool = "cli"
                  THEN [run EXCEPT !.pc = "merges", !.pieces = AllPieces(m)]
                  ELSE [run EXCEPT !.pc = "create merges"]
    BY <1>11 DEF WriteVocab, Step
  <2>1. saved' = None
    BY <1>0, <2>0 DEF FilesInv, Writing
  <2>2. vocabFile' = Whole(setup, m)
    BY <1>b, <2>0 DEF Whole
  <2>3. CASE setup.tool = "cli"
    <3>1. run'.pc = "merges" /\ run'.pieces = PiecesIn(setup, m) /\ run'.model = m
          /\ PiecesIn(setup, m) \in Seq(W)
      BY <1>0, <1>b, <2>0, <2>3
    <3>2. WrittenOf(setup, m, << >>, PiecesIn(setup, m)) /\ mergesFile' = << >>
      BY <1>0, <1>c, <2>0, <2>3, <3>1 DEF WrittenOf, FilesInv
    <3>3. PICK c \in Corpora : m = Trained[setup.unit][c]
      BY <1>b, <2>0 DEF Saveable
    <3>4. Saveable(setup, Trained[setup.unit][c])
      BY <1>b, <2>0, <3>3
    <3> QED BY <2>0, <2>1, <2>2, <2>3, <3>1, <3>2, <3>3, <3>4 DEF FilesInv
  <2>4. CASE setup.tool # "cli"
    <3>1. run'.pc = "create merges" /\ run'.model = m
      BY <1>a, <2>0, <2>4
    <3> QED BY <2>0, <2>1, <2>2, <2>4, <3>1 DEF FilesInv
  <2> QED BY <2>3, <2>4
<1>12. CASE WriteMerges
  <2>0. /\ run.pc = "merges" /\ run.pieces # << >>
        /\ run' = [run EXCEPT !.pieces = Tail(run.pieces)]
        /\ mergesFile' = mergesFile \o Head(run.pieces)
        /\ UNCHANGED <<setup, vocabFile, saved>>
    BY <1>12 DEF WriteMerges, Step
  <2>1. saved' = None /\ vocabFile = Whole(setup, m) /\ run.pieces \in Seq(W)
        /\ WrittenOf(setup, m, mergesFile, run.pieces)
    BY <1>0, <2>0 DEF FilesInv, Writing
  <2>2. PICK done \in Seq(W) : Cat(done, run.pieces) = PiecesIn(setup, m) /\ mergesFile = FlattenSeq(done)
    BY <2>1 DEF WrittenOf
  <2> DEFINE h == Head(run.pieces)
             rest == Tail(run.pieces)
  <2>3. h \in W /\ rest \in Seq(W) /\ run.pieces = Onto(h, rest)
    <3> HIDE DEF W
    <3>1. PICK x \in W, t \in Seq(W) : run.pieces = Onto(x, t)
      BY <2>0, <2>1, OntoCases
    <3>2. h = x /\ rest = t
      BY <3>1, HeadTailOnto
    <3> QED BY <3>1, <3>2
  <2> HIDE DEF h, rest
  <2>4. WrittenOf(setup, m, mergesFile \o h, rest)
    <3> DEFINE d == Cat(done, Onto(h, << >>))
    <3>1. d \in Seq(W) /\ Cat(d, rest) = Cat(done, run.pieces)
      <4> HIDE DEF W
      <4>1. << >> \in Seq(W) /\ Onto(h, << >>) \in Seq(W) /\ Cat(<< >>, rest) = rest
        BY <2>3, ConsAlgebra
      <4>2. Cat(Onto(h, << >>), rest) = Onto(h, Cat(<< >>, rest))
        <5> DEFINE none == << >>
        <5>1. none \in Seq(W)
          BY <4>1
        <5> HIDE DEF none
        <5>2. Cat(Onto(h, none), rest) = Onto(h, Cat(none, rest))
          BY <2>3, <5>1, ConsAlgebra
        <5> QED BY <5>2 DEF none
      <4>3. Cat(Cat(done, Onto(h, << >>)), rest) = Cat(done, Cat(Onto(h, << >>), rest))
        BY <2>3, <4>1, ConsAlgebra
      <4>4. d \in Seq(W)
        BY <4>1, ConsAlgebra
      <4> QED BY <2>3, <4>1, <4>2, <4>3, <4>4
    <3>2. FlattenSeq(d) = mergesFile \o h
      <4>1. FlattenSeq(Onto(h, << >>)) = h /\ Onto(h, << >>) \in Seq(W)
        <5>1. Onto(h, << >>) = <<h>> /\ <<h>> \in Seq(W)
          BY <2>3, ConcatEmptySeq DEF Onto
        <5>2. FlattenSeq(<<h>>) = h
          BY <2>3, FlattenOne
        <5> QED BY <5>1, <5>2
      <4>2. FlattenSeq(d) = Cat(FlattenSeq(done), FlattenSeq(Onto(h, << >>)))
        BY <4>1, FlattenCat
      <4> QED BY <2>2, <4>1, <4>2 DEF Cat
    <3> HIDE DEF d
    <3> QED BY <2>2, <3>1, <3>2 DEF WrittenOf
  <2>5. run'.pc = "merges" /\ run'.model = m /\ run'.pieces = rest
    BY <1>0, <2>0 DEF rest
  <2>6. PICK c \in Corpora : m = Trained[setup.unit][c] /\ Saveable(setup, Trained[setup.unit][c])
    BY <1>b, <2>0 DEF Saveable
  <2>7. mergesFile' = mergesFile \o h
    BY <2>0 DEF h
  <2> HIDE DEF m
  <2> QED BY <2>0, <2>1, <2>3, <2>4, <2>5, <2>6, <2>7 DEF FilesInv
<1>13. CASE Finish
  <2>0. /\ run.pc = "merges" /\ run.pieces = << >> /\ run'.pc = "idle" /\ saved' = m
        /\ UNCHANGED <<setup, vocabFile, mergesFile>>
    BY <1>13 DEF Finish, Step, files, Idle
  <2>1. PICK done \in Seq(W) : Cat(done, << >>) = PiecesIn(setup, m) /\ mergesFile = FlattenSeq(done)
    BY <1>0, <2>0 DEF FilesInv, WrittenOf
  <2>2. Cat(done, << >>) = done
    BY ConcatEmptySeq DEF Cat
  <2>3. mergesFile = FlattenSeq(PiecesIn(setup, m)) /\ vocabFile = Whole(setup, m) /\ Saveable(setup, m)
    BY <1>0, <1>b, <2>0, <2>1, <2>2 DEF FilesInv
  <2> HIDE DEF m
  <2> QED BY <1>0, <2>0, <2>3 DEF FilesInv, Writing
<1>14. CASE Crash
  BY <1>0, <1>14, FilesKept DEF Crash, Idle, files, Writing
<1>15. CASE Load
  BY <1>0, <1>15, FilesKept DEF Load, files, Writing
<1>16. CASE UNCHANGED vars
  BY <1>0, <1>16 DEF FilesInv, vars, files
<1> QED
  BY <1>1, <1>2, <1>3, <1>4, <1>5, <1>6, <1>7, <1>8, <1>9, <1>10, <1>11, <1>12,
     <1>13, <1>14, <1>15, <1>16 DEF Next

\* The run is a record.
LEMMA RunShape ==
  ASSUME ModelInv
  PROVE  run = [pc |-> run.pc, counts |-> run.counts, model |-> run.model, pieces |-> run.pieces]
BY DEF ModelInv, WordsFileInv

\* So does it what is known of the last load.
LEMMA LoadedStep == Printable /\ ModelInv /\ [Next]_vars => LoadedInv'
<1> SUFFICES ASSUME Printable, ModelInv, [Next]_vars
             PROVE  LoadedInv'
  OBVIOUS
<1>0. RunInv /\ FilesInv /\ LoadedInv /\ setup \in Setups
  BY DEF ModelInv, RunInv
<1>a. ASSUME UNCHANGED <<setup, saved, loaded>>, loaded = None \/ run'.pc \notin Writing
      PROVE  LoadedInv'
  BY <1>0, <1>a DEF LoadedInv, NoMixtureLoads
<1>b. ASSUME run.pc \in Writing PROVE loaded = None
  BY <1>0, <1>b DEF LoadedInv
<1>1. ASSUME NEW c \in Corpora, ReplaceInput(c)
      PROVE  LoadedInv'
  <2>1. run'.pc \notin Writing
    BY <1>1 DEF ReplaceInput, Writing
  <2> QED BY <1>1, <1>a, <2>1 DEF ReplaceInput
<1>2. ASSUME NEW c \in Corpora, Save(c)
      PROVE  LoadedInv'
  BY <1>2, <1>a DEF Save, Step, Idle, Writing
<1>3. CASE StartTrain
  BY <1>3, <1>a DEF StartTrain, Step, Idle, Writing
<1>4. CASE ReuseWords
  <2>1. run'.pc \in {"training", "idle"}
    BY <1>4, RunShape DEF ReuseWords, Step, Idle
  <2> QED BY <1>4, <1>a, <2>1 DEF ReuseWords, Writing
<1>5. CASE CountWords
  <2>1. run'.pc = "storing"
    BY <1>5, RunShape DEF CountWords, Step
  <2> QED BY <1>5, <1>a, <2>1 DEF CountWords, Writing
<1>6. CASE StoreWords
  <2>1. run'.pc = "training"
    BY <1>6, RunShape DEF StoreWords, Step
  <2> QED BY <1>6, <1>a, <2>1 DEF StoreWords, Writing
<1>7. CASE Learn
  <2>1. run'.pc \in {"create vocab", "idle"}
    BY <1>7, RunShape DEF Learn, Step, Idle
  <2> QED BY <1>7, <1>a, <2>1 DEF Learn, Writing
<1>8. CASE CreateVocab
  BY <1>8 DEF CreateVocab, LoadedInv, NoMixtureLoads
<1>9. CASE CreateMerges
  BY <1>9, <1>a, <1>b DEF CreateMerges, Step, Writing
<1>10. CASE Validate
  BY <1>10, <1>a, <1>b DEF Validate, Step, Writing
<1>11. CASE WriteVocab
  BY <1>11, <1>a, <1>b DEF WriteVocab, Step, Writing
<1>12. CASE WriteMerges
  BY <1>12, <1>a, <1>b DEF WriteMerges, Step, Writing
<1>13. CASE Finish
  <2>1. loaded' = None
    BY <1>13, <1>b DEF Finish, Step, Writing
  <2> QED BY <2>1 DEF LoadedInv, NoMixtureLoads
<1>14. CASE Crash
  BY <1>14, <1>a DEF Crash, Idle, Writing
<1>15. CASE Load
  <2> DEFINE W == Seq(Mark)
             all(m) == [vocab |-> m.vocab, merges |-> m.merges, specials |-> Inferred(m.vocab)]
  <2>0. /\ run.pc = "idle" /\ UNCHANGED <<setup, run, saved>> /\ vocabFile # None /\ mergesFile # None
        /\ loaded' = Loads(vocabFile, mergesFile)
    BY <1>15 DEF Load
  <2>1. ASSUME saved # None
        PROVE  loaded' = all(saved)
    <3>1. /\ Saveable(setup, saved) /\ vocabFile = Whole(setup, saved)
          /\ mergesFile = FlattenSeq(PiecesIn(setup, saved))
      BY <1>0, <2>1 DEF FilesInv
    <3>2. Sound(setup, saved)
      BY <1>0, <3>1, SaveableSound
    <3> DEFINE done == PiecesIn(setup, saved)
               todo == << >>
    <3>3. done \in Seq(W) /\ todo \in Seq(W)
      BY <3>2, FilesAre
    <3>4. Cat(done, todo) = PiecesIn(setup, saved)
      BY <3>3, ConcatEmptySeq DEF Cat
    <3>5. loaded' = Loads([entries |-> EntriesIn(setup, saved), whole |-> TRUE], FlattenSeq(done))
      BY <2>0, <3>1 DEF Whole
    <3> HIDE DEF done
    <3>6. todo = << >> => loaded' = all(saved)
      <4> HIDE DEF todo
      <4> QED BY <3>2, <3>3, <3>4, <3>5, LoadsFirst
    <3> QED BY <3>6
  <2>2. NoMixtureLoads'
    <3> SUFFICES ASSUME setup.tool = "cli", loaded' \notin {None, Failure}
                 PROVE  \E c \in Corpora :
                          LET model == AsSaved(Trained[setup.unit][c])
                          IN loaded'.vocab = model.vocab /\ IsPrefix(loaded'.merges, model.merges)
      BY <2>0 DEF NoMixtureLoads
    <3>1. vocabFile.whole
      <4> SUFFICES ASSUME ~vocabFile.whole PROVE Loads(vocabFile, mergesFile) = Failure
        BY <2>0
      <4> QED BY DEF Loads
    <3>2. PICK c \in Corpora, todo \in Seq(W) :
             /\ Saveable(setup, Trained[setup.unit][c])
             /\ vocabFile = Whole(setup, Trained[setup.unit][c])
             /\ WrittenOf(setup, Trained[setup.unit][c], mergesFile, todo)
      BY <1>0, <2>0, <3>1 DEF FilesInv
    <3> DEFINE m == Trained[setup.unit][c]
    <3> HIDE DEF m
    <3>3. Sound(setup, m)
      BY <1>0, <3>2, SaveableSound DEF m
    <3>4. PICK done \in Seq(W) : Cat(done, todo) = PiecesIn(setup, m) /\ mergesFile = FlattenSeq(done)
      BY <3>2 DEF WrittenOf, m
    <3>5. loaded' = Loads([entries |-> EntriesIn(setup, m), whole |-> TRUE], FlattenSeq(done))
      BY <2>0, <3>2, <3>4 DEF Whole, m
    <3>6. loaded' = Failure \/ (loaded'.vocab = m.vocab /\ IsPrefix(loaded'.merges, m.merges))
      BY <3>3, <3>4, <3>5, LoadsFirst
    <3>7. loaded'.vocab = AsSaved(m).vocab /\ IsPrefix(loaded'.merges, AsSaved(m).merges)
      BY <3>6 DEF AsSaved
    <3> QED BY <3>7 DEF m
  <2> QED BY <2>0, <2>1, <2>2 DEF LoadedInv, Writing
<1>16. CASE UNCHANGED vars
  <2>1. run'.pc = run.pc
    BY <1>16 DEF vars
  <2> QED BY <1>16, <1>a, <1>b, <2>1 DEF vars
<1> QED
  BY <1>1, <1>2, <1>3, <1>4, <1>5, <1>6, <1>7, <1>8, <1>9, <1>10, <1>11, <1>12,
     <1>13, <1>14, <1>15, <1>16 DEF Next

\* Every step keeps the invariant.
LEMMA ModelStep == Printable /\ ModelInv /\ [Next]_vars => ModelInv'
<1>1. ModelInv /\ [Next]_vars => WordsFileInv'
  BY WordsFileStep DEF ModelInv
<1> QED BY <1>1, RunStep, FilesStep, LoadedStep DEF ModelInv

\* Whenever the train command was killed, what loads is one model's vocabulary
\* with the first of that model's merges (_bpe_save_train, BpeBuilder::build).
THEOREM NothingIsMixed == ASSUME Printable PROVE Spec => []NoMixtureLoads
<1>1. ModelInv => NoMixtureLoads
  BY DEF ModelInv, LoadedInv
<1>2. ModelInv /\ [Next]_vars => ModelInv'
  BY ModelStep
<1> QED BY <1>1, <1>2, ModelInit, PTL DEF Spec

\* A model whose save was completed loads as the model that was saved, in both
\* formats and from both tools, if its specials can be told from its tokens.
THEOREM SavesCanBeLoaded == ASSUME Printable PROVE Spec => []SavedModelLoads
<1>1. ModelInv => SavedModelLoads
  BY DEF ModelInv, LoadedInv, SavedModelLoads, Inferable, AsSaved
<1>2. ModelInv /\ [Next]_vars => ModelInv'
  BY ModelStep
<1> QED BY <1>1, <1>2, ModelInit, PTL DEF Spec

=============================================================================
