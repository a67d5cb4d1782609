------------------------ MODULE SourcePrefetchProofs ------------------------
(***************************************************************************)
(* add_source ends as counting batch after batch does, and its batches are *)
(* within the limits, for any source, limits, words and counts.            *)
(***************************************************************************)
EXTENDS SourcePrefetch, BpeWordsProofs

Rec == [size : Nat, words : [Word -> Nat],
        fate : {"fine", "raises", "fails", "panics"}]

\* The first record the caller has not handed over.
Start == next - Len(batch)

\* The first record nobody has begun to count.
NextToCount == IF caller = "offering" THEN Start - Len(offered) ELSE Start

PrefetchTypeOK ==
  /\ source \in Seq(Rec)
  /\ before \in [Word -> Nat]
  /\ counts \in [Word -> Int]
  /\ prefetch \in {0, 1}
  /\ caller \in {"pulling", "offering", "joining", "returned"}
  /\ produced \in {"ok", "source error", "stopped", "failed", "panicked"}
  /\ worker \in {"waiting", "counting", "ok", "failed", "panicked"}

\* What the caller holds: the batch it fills fits, and the one it offers is a
\* batch of the source, directly before it. It leaves the loop where nothing is
\* left to count.
CallerInv ==
  /\ next \in 1..Readable + 1
  /\ caller \in {"pulling", "offering"} => produced = "ok"
  /\ \E i \in 1..next :
       /\ i = Start
       /\ batch = SubSeq(source, i, next - 1)
       /\ \A j \in i..next - 1 : Fits(i, j)
       /\ caller \in {"joining", "returned"} /\ produced \in {"ok", "source error"} =>
            /\ ~Counted(i)
            /\ produced = "source error" <=> Readable < Len(source)
  /\ caller = "offering" =>
       \E i \in 1..Readable :
         /\ i = NextToCount
         /\ Counted(i)
         /\ offered = BatchAt(i)
         /\ EndOf(i) + 1 = Start

\* What may become of the counts c if record i is next may become of the call.
MayGoOn(c, i) == From[i][c] \subseteq Outcomes

MayEnd(c, s) == [counts |-> c, state |-> s] \in Outcomes

Failures == {"failed", "panicked"}

\* How far counting is: at the next record, in a batch before it, or at its end.
CountsInv ==
  /\ worker \in {"waiting", "ok"} /\ produced \notin Failures => MayGoOn(counts, NextToCount)
  /\ worker = "counting" =>
       \E i \in 1..Readable :
         /\ Counted(i)
         /\ held = BatchAt(i)
         /\ EndOf(i) + 1 = NextToCount
         /\ MayGoOn(counts, i)
  /\ worker \in Failures => MayEnd(counts, worker)
  /\ produced \in Failures => prefetch = 0 /\ MayEnd(counts, produced)
  /\ produced = "stopped" => worker \in Failures
  /\ prefetch = 0 => worker = "waiting"
  /\ worker = "ok" => caller \in {"joining", "returned"}

\* The result, once there is one.
ResultInv ==
  caller = "returned" =>
    IF prefetch = 0 THEN result = produced
    ELSE worker \in {"ok", "failed", "panicked"} /\ result = JoinResult

PrefetchInv == PrefetchTypeOK /\ CallerInv /\ CountsInv /\ ResultInv

-----------------------------------------------------------------------------
(* What a source looks like. *)

\* Readable is where the iterator raises first, or the end.
LEMMA ReadableIs ==
  ASSUME source \in Seq(Rec)
  PROVE  /\ Readable \in 0..Len(source)
         /\ \A j \in 1..Readable : source[j].fate # "raises"
         /\ Readable < Len(source) => source[Readable + 1].fate = "raises"
<1> DEFINE R == {i \in DOMAIN source : source[i].fate = "raises"}
<1>1. DOMAIN source = 1..Len(source) /\ Len(source) \in Nat
  BY LenProperties
<1>2. CASE R = {}
  BY <1>1, <1>2 DEF Readable
<1>3. CASE R # {}
  <2>1. PICK i \in R : \A m \in R : i <= m
    <3>1. R \in SUBSET Nat
      BY <1>1
    <3> QED BY <1>3, <3>1, Least
  <2>2. i \in DOMAIN source /\ source[i].fate = "raises" /\ \A j \in 1..i - 1 : source[j].fate # "raises"
    BY <1>1, <2>1
  <2> DEFINE first == CHOOSE k \in DOMAIN source :
                        source[k].fate = "raises" /\ \A j \in 1..k - 1 : source[j].fate # "raises"
  <2>3. first \in DOMAIN source /\ source[first].fate = "raises"
        /\ \A j \in 1..first - 1 : source[j].fate # "raises"
    BY <2>2
  <2>4. Readable = first - 1
    BY <2>2 DEF Readable
  <2> QED BY <1>1, <2>3, <2>4
<1> QED BY <1>2, <1>3

\* A caller that is behind the last record has read them all.
LEMMA AllRead ==
  ASSUME source \in Seq(Rec), next \in 1..Readable + 1, next \notin DOMAIN source
  PROVE  next = Readable + 1 /\ Readable = Len(source)
<1> DEFINE m == Readable
           n == Len(source)
<1>1. m \in 0..n /\ n \in Nat /\ DOMAIN source = 1..n
  BY ReadableIs, LenProperties
<1>2. next \in 1..m + 1 /\ next \notin 1..n
  BY <1>1
<1> HIDE DEF m, n
<1>3. next = m + 1 /\ m = n
  BY <1>1, <1>2
<1> QED BY <1>3 DEF m, n

\* A batch is as large as its records.
LEMMA SizeAppend ==
  ASSUME NEW b \in Seq(Rec), NEW r \in Rec
  PROVE  Size(b) \in Nat /\ Size(Append(b, r)) = Size(b) + r.size
<1> DEFINE d == Append(b, r)
           f == [i \in DOMAIN b |-> b[i].size]
           g == [i \in DOMAIN d |-> d[i].size]
           n == Len(b) + 1
<1>1. /\ DOMAIN b = 1..Len(b) /\ Len(b) \in Nat /\ \A i \in 1..Len(b) : b[i].size \in Nat
      /\ DOMAIN d = 1..n /\ d[n] = r /\ \A i \in 1..Len(b) : d[i] = b[i]
      /\ r.size \in Nat
  <2>1. /\ DOMAIN b = 1..Len(b) /\ Len(b) \in Nat
        /\ \A i \in 1..Len(b) : b[i] \in Rec
    BY LenProperties, ElementOfSeq
  <2>2. /\ d \in Seq(Rec) /\ Len(d) = Len(b) + 1 /\ d[n] = r
        /\ \A i \in 1..Len(b) : d[i] = b[i]
    BY AppendProperties
  <2>3. DOMAIN d = 1..n
    BY <2>2, LenProperties
  <2>4. \A x \in Rec : x.size \in Nat
    BY DEF Rec
  <2> HIDE DEF d, Rec
  <2> QED BY <2>1, <2>2, <2>3, <2>4
<1>2. IsFiniteSet(1..Len(b)) /\ IsFiniteSet(1..n)
  BY <1>1, FS_Interval
<1>3. Size(b) = Sum(f, 1..Len(b)) /\ Size(d) = Sum(g, 1..n)
  BY <1>1, SumOfFunction, Zenon DEF Size
<1>4. /\ \A i \in 1..Len(b) : f[i] \in Nat /\ g[i] = f[i]
      /\ \A i \in 1..n : g[i] \in Int
      /\ g[n] = r.size
  BY <1>1
<1>5. n \in 1..n /\ (1..n) \ {n} = 1..Len(b)
  BY <1>1
<1> HIDE DEF f, g, d, n
<1>6. Sum(g, 1..n) = g[n] + Sum(g, (1..n) \ {n})
  <2> DEFINE S == 1..n
  <2>1. IsFiniteSet(S) /\ n \in S /\ \A i \in S : g[i] \in Int
    BY <1>2, <1>4, <1>5
  <2> HIDE DEF S
  <2>2. Sum(g, S) = g[n] + Sum(g, S \ {n})
    BY <2>1, SumRemove
  <2> QED BY <2>2 DEF S
<1>7. Sum(f, 1..Len(b)) = Sum(g, 1..Len(b))
  <2>1. \A i \in 1..Len(b) : f[i] \in Int /\ f[i] = g[i]
    BY <1>4
  <2> QED BY <1>2, <2>1, SumEqual
<1>8. Sum(f, 1..Len(b)) \in Nat
  BY <1>2, <1>4, SumNonnegative
<1>9. Size(b) \in Nat /\ r.size \in Nat
  BY <1>1, <1>3, <1>8
<1>10. Size(d) = g[n] + Sum(g, 1..Len(b))
  BY <1>3, <1>5, <1>6
<1>11. Size(d) = r.size + Size(b)
  BY <1>3, <1>4, <1>7, <1>10
<1>12. \A x, y \in Nat : x + y = y + x
  OBVIOUS
<1> QED BY <1>9, <1>11, <1>12 DEF d

\* The condition of should_flush_batch is that one record more does not fit.
LEMMA FlushesIs ==
  ASSUME source \in Seq(Rec), NEW i \in Nat \ {0}, NEW j \in DOMAIN source, i <= j,
         NEW b, b = SubSeq(source, i, j - 1)
  PROVE  /\ b \in Seq(Rec) /\ Len(b) = j - i
         /\ SubSeq(source, i, j) = Append(b, source[j])
         /\ Flushes(b, source[j]) <=> ~Fits(i, j)
<1>1. /\ DOMAIN source = 1..Len(source) /\ Len(source) \in Nat
      /\ source[j] \in Rec
  BY LenProperties, ElementOfSeq
<1>2. b \in Seq(Rec) /\ Len(b) = j - i
  BY <1>1, SubSeqProperties
<1>3. SubSeq(source, i, j) = Append(b, source[j])
  BY <1>1, <1>2, SubSeqProperties, AppendProperties
<1>4. Size(SubSeq(source, i, j)) = Size(b) + source[j].size
  BY <1>1, <1>2, <1>3, SizeAppend
<1>5. b = << >> <=> i = j
  BY <1>2, EmptySeq
<1> DEFINE r == source[j]
           s == Size(b)
           t == Size(SubSeq(source, i, j))
<1>6. s \in Nat /\ r.size \in Nat /\ t = s + r.size
  BY <1>1, <1>2, <1>4, SizeAppend DEF Rec
<1>7. Flushes(b, r) <=> b # << >> /\ (j - i >= MaxRecords \/ s + r.size > MaxBytes)
  BY <1>2 DEF Flushes
<1>8. Fits(i, j) <=> i = j \/ (j - i < MaxRecords /\ t <= MaxBytes)
  BY DEF Fits
<1> HIDE DEF r, s, t
<1>9. Flushes(b, r) <=> ~Fits(i, j)
  BY <1>5, <1>6, <1>7, <1>8, <1>1, BatchAssumption
<1> QED BY <1>2, <1>3, <1>9 DEF r

-----------------------------------------------------------------------------
(* Where batches end. *)

\* What EndOf chooses is unique.
LEMMA EndIs ==
  ASSUME source \in Seq(Rec), NEW i \in Nat \ {0}, NEW e \in i..Readable,
         \A j \in i..e : Fits(i, j), e < Readable => ~Fits(i, e + 1)
  PROVE  EndOf(i) = e
<1> DEFINE P(d) == (\A j \in i..d : Fits(i, j)) /\ (d < Readable => ~Fits(i, d + 1))
<1>1. Readable \in Nat
  BY ReadableIs, LenProperties
<1>2. P(e)
  OBVIOUS
<1>3. \A d \in i..Readable : P(d) => d = e
  <2> SUFFICES ASSUME NEW d \in i..Readable, P(d), d # e PROVE FALSE
    OBVIOUS
  <2>1. CASE d < e
    <3>1. d < Readable /\ d + 1 \in i..e
      BY <1>1, <2>1
    <3> QED BY <3>1
  <2>2. CASE e < d
    <3>1. e < Readable /\ e + 1 \in i..d
      BY <1>1, <2>2
    <3> QED BY <3>1
  <2> QED BY <1>1, <2>1, <2>2
<1>4. EndOf(i) = CHOOSE d \in i..Readable : P(d)
  BY DEF EndOf
<1> HIDE DEF P
<1> QED BY <1>2, <1>3, <1>4

\* Every batch has an end.
LEMMA EndExists ==
  ASSUME source \in Seq(Rec), NEW i \in Nat \ {0}, i <= Readable
  PROVE  /\ EndOf(i) \in i..Readable
         /\ \A j \in i..EndOf(i) : Fits(i, j)
<1> DEFINE S == {e \in i..Readable : e = Readable \/ ~Fits(i, e + 1)}
<1>1. Readable \in Nat
  BY ReadableIs, LenProperties
<1>2. PICK e \in S : \A m \in S : e <= m
  <2>1. S \in SUBSET Nat /\ Readable \in S
    BY <1>1
  <2> HIDE DEF S
  <2> QED BY <2>1, Least
<1>3. ASSUME NEW j \in i..e PROVE Fits(i, j)
  <2>1. CASE j = i
    BY <2>1 DEF Fits
  <2>2. CASE j # i
    <3>1. j - 1 \in i..Readable /\ j - 1 < e /\ j - 1 + 1 = j
      BY <1>1, <2>2
    <3>2. j - 1 \notin S
      BY <1>1, <1>2, <3>1
    <3> QED BY <3>1, <3>2
  <2> QED BY <2>1, <2>2
<1>4. EndOf(i) = e
  BY <1>2, <1>3, EndIs
<1> QED BY <1>2, <1>3, <1>4

-----------------------------------------------------------------------------
(* What may become of a source. *)

\* One batch, and then what `later` says of the rest.
Then(later, i, c) ==
  IF Counted(i)
  THEN UNION {IF o.state = "waiting" THEN later[EndOf(i) + 1][o.counts] ELSE {o} :
                o \in Added(c, BatchAt(i))}
  ELSE {[counts |-> c, state |-> "waiting"]}

\* The recursive function From exists, since a batch is never empty.
LEMMA FromIs ==
  ASSUME source \in Seq(Rec)
  PROVE  \A i \in Nat \ {0} : \A c \in [Word -> Int] : From[i][c] = Then(From, i, c)
<1> DEFINE P == Nat \ {0}
           Fn(g, i) == [c \in [Word -> Int] |-> Then(g, i, c)]
           Right(g, n) == \A i \in P : i > Readable - n => g[i] = Fn(g, i)
           N == {n \in Nat : \E g : Right(g, n)}
<1>1. Readable \in Nat
  BY ReadableIs, LenProperties
<1>2. ASSUME NEW g, NEW h, NEW i \in P, \A j \in P : j > i => g[j] = h[j]
      PROVE  Fn(g, i) = Fn(h, i)
  <2>1. ASSUME NEW c \in [Word -> Int] PROVE Then(g, i, c) = Then(h, i, c)
    <3>1. CASE Counted(i)
      <4> DEFINE j == EndOf(i) + 1
      <4>1. j \in P /\ j > i
        BY <1>1, <3>1, EndExists DEF Counted
      <4>2. g[j] = h[j]
        BY <1>2, <4>1
      <4> HIDE DEF j, P
      <4>3. /\ Then(g, i, c) = UNION {IF o.state = "waiting" THEN g[j][o.counts] ELSE {o} :
                                        o \in Added(c, BatchAt(i))}
            /\ Then(h, i, c) = UNION {IF o.state = "waiting" THEN h[j][o.counts] ELSE {o} :
                                        o \in Added(c, BatchAt(i))}
        BY <3>1, Zenon DEF Then, j
      <4> QED BY <4>2, <4>3
    <3>2. CASE ~Counted(i)
      BY <3>2 DEF Then
    <3> QED BY <3>1, <3>2
  <2> HIDE DEF P
  <2> QED BY <2>1
<1>3. 0 \in N
  <2> DEFINE g == << >>
             h == [i \in P |-> Fn(g, i)]
  <2>1. ASSUME NEW i \in P, i > Readable - 0 PROVE Fn(g, i) = Fn(h, i)
    <3>1. ~Counted(i)
      BY <1>1, <2>1 DEF Counted
    <3>2. \A f, c : Then(f, i, c) = {[counts |-> c, state |-> "waiting"]}
      BY <3>1 DEF Then
    <3> HIDE DEF g, h
    <3> QED BY <3>2
  <2> HIDE DEF Fn, g
  <2>2. Right(h, 0)
    BY <2>1
  <2> QED BY <2>2
<1>4. ASSUME NEW n \in N PROVE n + 1 \in N
  <2>1. PICK g : Right(g, n)
    OBVIOUS
  <2> DEFINE h == [i \in P |-> IF i > Readable - n THEN g[i] ELSE Fn(g, i)]
  <2> HIDE DEF Fn
  <2>2. ASSUME NEW i \in P, i > Readable - (n + 1) PROVE h[i] = Fn(h, i)
    <3>1. \A j \in P : j > i => g[j] = h[j]
      BY <1>1, <2>2
    <3>2. Fn(g, i) = Fn(h, i)
      BY <1>2, <3>1
    <3>3. h[i] = Fn(g, i)
      BY <2>1, <2>2
    <3> QED BY <3>2, <3>3
  <2> HIDE DEF h
  <2>3. Right(h, n + 1)
    BY <2>2
  <2> QED BY <2>3
<1>5. Readable \in N
  <2> HIDE DEF N
  <2>1. N \in SUBSET Nat
    BY DEF N
  <2> QED BY <1>1, <1>3, <1>4, <2>1, NatInd
<1>6. PICK g : Right(g, Readable)
  BY <1>5
<1> DEFINE h == [i \in P |-> Fn(g, i)]
<1>7. h = [i \in P |-> Fn(h, i)]
  <2> HIDE DEF Fn
  <2>1. \A i \in P : g[i] = Fn(g, i)
    BY <1>1, <1>6
  <2>2. \A i \in P : g[i] = h[i]
    BY <2>1
  <2>3. \A i \in P : Fn(g, i) = Fn(h, i)
    BY <1>2, <2>2
  <2> QED BY <2>3
<1>8. From = CHOOSE f : f = [i \in P |-> Fn(f, i)]
  BY Zenon DEF From, Then
<1>9. From = [i \in P |-> Fn(From, i)]
  <2> HIDE DEF Fn, h, P
  <2> QED BY <1>7, <1>8, Zenon
<1> QED
  <2> HIDE DEF P, Then
  <2>1. \A i \in P : From[i] = Fn(From, i)
    <3> HIDE DEF Fn
    <3> QED BY <1>9
  <2>2. \A i \in P : \A c \in [Word -> Int] : Fn(From, i)[c] = Then(From, i, c)
    OBVIOUS
  <2> HIDE DEF Fn
  <2>3. \A i \in P : \A c \in [Word -> Int] : From[i][c] = Then(From, i, c)
    BY <2>1, <2>2
  <2> QED BY <2>3 DEF P

-----------------------------------------------------------------------------
(* Counting one batch. *)

\* A batch is a sequence of records, and its words are counted.
LEMMA TotalType ==
  ASSUME NEW b \in Seq(Rec)
  PROVE  TotalOf(b) \in [Word -> Nat]
<1> SUFFICES ASSUME NEW w \in Word
             PROVE  SumFunction([i \in DOMAIN b |-> b[i].words[w]]) \in Nat
  BY DEF TotalOf
<1> DEFINE f == [i \in DOMAIN b |-> b[i].words[w]]
<1>1. DOMAIN b = 1..Len(b) /\ Len(b) \in Nat /\ \A i \in 1..Len(b) : b[i] \in Rec
  BY LenProperties, ElementOfSeq
<1>2. \A x \in Rec : x.words[w] \in Nat
  BY DEF Rec
<1>3. DOMAIN f = 1..Len(b) /\ \A i \in 1..Len(b) : f[i] \in Nat
  BY <1>1, <1>2
<1>4. SumFunction(f) = Sum(f, 1..Len(b))
  BY <1>3, SumOfFunction
<1>5. IsFiniteSet(1..Len(b))
  BY <1>1, FS_Interval
<1> HIDE DEF f
<1>6. Sum(f, 1..Len(b)) \in Nat
  BY <1>3, <1>5, SumNonnegative
<1> QED BY <1>4, <1>6 DEF f

\* An outcome is a table of counts and a state.
LEMMA AddedType ==
  ASSUME NEW b \in Seq(Rec), NEW c \in [Word -> Int], NEW o \in Added(c, b)
  PROVE  /\ o = [counts |-> o.counts, state |-> o.state]
         /\ o.counts \in [Word -> Int]
         /\ o.state \in {"waiting"} \cup Failures
<1> DEFINE t == TotalOf(b)
<1>1. t \in [Word -> Nat]
  BY TotalType
<1> HIDE DEF t
<1>2. ASSUME NEW d \in Merged(c, t) PROVE d \in [Word -> Int]
  <2>1. PICK done \in UNION {{Word}, SUBSET Word} :
          d = [w \in Word |-> IF w \in done THEN c[w] + t[w] ELSE c[w]]
    BY <1>2, Zenon DEF Merged
  <2> QED BY <1>1, <2>1
<1>3. CASE Tallies(b) # {}
  BY <1>3 DEF Added, Tallies, Failures
<1>4. CASE Tallies(b) = {}
  <2>1. PICK d \in Merged(c, t) :
          \E s \in {"failed", "waiting"} : o = [counts |-> d, state |-> s]
    BY <1>4 DEF Added, t
  <2> QED BY <1>2, <2>1 DEF Failures
<1> QED BY <1>3, <1>4

\* A batch that is counted takes the call on, or ends it.
LEMMA CountBatch ==
  ASSUME source \in Seq(Rec), counts \in [Word -> Int],
         NEW i \in Nat \ {0}, Counted(i), MayGoOn(counts, i),
         NEW j, j = EndOf(i) + 1, NEW b, b = BatchAt(i), NEW o \in Added(counts, b)
  PROVE  /\ o.counts \in [Word -> Int]
         /\ o.state = "waiting" => MayGoOn(o.counts, j)
         /\ o.state # "waiting" => o.state \in Failures /\ MayEnd(o.counts, o.state)
<1>1. i \in Nat \ {0} /\ b = BatchAt(i) /\ j = EndOf(i) + 1 /\ Counted(i)
  OBVIOUS
<1>2. b \in Seq(Rec)
  <2>1. EndOf(i) \in i..Len(source) /\ Len(source) \in Nat
    <3>1. Readable \in 0..Len(source) /\ Len(source) \in Nat
      BY ReadableIs, LenProperties
    <3>2. EndOf(i) \in i..Readable
      BY <1>1, EndExists DEF Counted
    <3> QED BY <3>1, <3>2
  <2> DEFINE e == EndOf(i)
             n == Len(source)
  <2>2. e \in i..n /\ n \in Nat /\ n = Len(source) /\ b = SubSeq(source, i, e)
    BY <1>1, <2>1 DEF BatchAt
  <2> HIDE DEF e, n
  <2>3. \A k \in i..e : source[k] \in Rec
    BY <1>1, <2>2, ElementOfSeq
  <2> QED BY <1>1, <2>2, <2>3, SubSeqProperties
<1>3. /\ o = [counts |-> o.counts, state |-> o.state]
      /\ o.counts \in [Word -> Int]
      /\ o.state \in {"waiting"} \cup Failures
  BY <1>2, AddedType
<1>4. (IF o.state = "waiting" THEN From[j][o.counts] ELSE {o}) \subseteq From[i][counts]
  <2>1. From[i][counts] = Then(From, i, counts)
    BY <1>1, FromIs
  <2> DEFINE S(p) == IF p.state = "waiting" THEN From[j][p.counts] ELSE {p}
  <2>2. Then(From, i, counts) = UNION {S(p) : p \in Added(counts, b)}
    BY <1>1, Zenon DEF Then
  <2> HIDE DEF S
  <2>3. S(o) \subseteq From[i][counts]
    BY <2>1, <2>2
  <2> QED BY <2>3 DEF S
<1>5. From[i][counts] \subseteq Outcomes
  BY DEF MayGoOn
<1>6. CASE o.state = "waiting"
  BY <1>3, <1>4, <1>5, <1>6 DEF MayGoOn
<1>7. CASE o.state # "waiting"
  BY <1>3, <1>4, <1>5, <1>7 DEF MayEnd
<1> QED BY <1>3, <1>6, <1>7

\* Where nothing is left to count, the counts are final.
LEMMA NothingLeft ==
  ASSUME source \in Seq(Rec), counts \in [Word -> Int],
         NEW i \in Nat \ {0}, ~Counted(i), MayGoOn(counts, i)
  PROVE  MayEnd(counts, "waiting")
<1>1. From[i][counts] = {[counts |-> counts, state |-> "waiting"]}
  BY FromIs, Zenon DEF Then
<1> QED BY <1>1 DEF MayGoOn, MayEnd

\* No step changes the source or the counts it started from.
LEMMA Frozen ==
  ASSUME UNCHANGED <<source, before>>
  PROVE  /\ Readable' = Readable
         /\ \A i, j : Fits(i, j)' <=> Fits(i, j)
         /\ \A i : Counted(i)' <=> Counted(i)
         /\ \A i : EndOf(i)' = EndOf(i) /\ BatchAt(i)' = BatchAt(i)
         /\ From' = From /\ Outcomes' = Outcomes
<1>1. source' = source /\ before' = before
  OBVIOUS
<1>2. Readable' = Readable
  BY <1>1, SMT DEF Readable
<1>3. \A i, j : Fits(i, j)' <=> Fits(i, j)
  BY <1>1, Zenon DEF Fits
<1>4. \A i : EndOf(i)' = EndOf(i)
  BY <1>1, Zenon DEF EndOf, Readable, Fits
<1>5. \A i : (Counted(i)' <=> Counted(i)) /\ BatchAt(i)' = BatchAt(i)
  BY <1>1, <1>2, <1>4, Zenon DEF Counted, BatchAt
<1>6. From' = From
  BY <1>1, SMT DEF From, Counted, BatchAt, EndOf, Readable, Fits
<1> QED BY <1>1, <1>2, <1>3, <1>4, <1>5, <1>6, Zenon DEF Outcomes

-----------------------------------------------------------------------------
(* The invariant is inductive. *)

\* At the call nothing is held, and everything is left to count.
LEMMA PrefetchInit == Init => PrefetchInv
<1> SUFFICES ASSUME Init PROVE PrefetchInv
  OBVIOUS
<1>1. PrefetchTypeOK
  <2>1. source \in Seq(Rec)
    BY RecordAssumption DEF Init, Rec
  <2>2. before \in [Word -> Nat]
    BY RecordAssumption DEF Init
  <2>3. before \in [Word -> Int]
    BY <2>2
  <2> QED BY <2>1, <2>2, <2>3 DEF Init, PrefetchTypeOK
<1>2. Readable \in Nat /\ Len(source) \in Nat
  <2>1. source \in Seq(Rec)
    BY <1>1 DEF PrefetchTypeOK
  <2>2. Len(source) \in Nat /\ Readable \in 0..Len(source)
    BY <2>1, ReadableIs, LenProperties
  <2> QED BY <2>2
<1>3. Start = 1 /\ NextToCount = 1
  BY EmptySeq DEF Init, Start, NextToCount
<1>4. CallerInv
  <2>1. batch = SubSeq(source, 1, 1 - 1)
    BY <1>1, SubSeqProperties, EmptySeq DEF Init, PrefetchTypeOK
  <2> QED BY <1>2, <1>3, <2>1 DEF Init, CallerInv
<1>5. CountsInv
  BY <1>3 DEF Init, CountsInv, MayGoOn, Outcomes, Failures
<1> QED BY <1>1, <1>4, <1>5 DEF PrefetchInv, ResultInv, Init

\* A record that is pulled joins the batch, or starts the next one.
LEMMA PullStep ==
  ASSUME PrefetchInv, Pull
  PROVE  PrefetchInv'
<1>1. /\ PrefetchTypeOK /\ CallerInv /\ CountsInv
      /\ UNCHANGED <<source, before, prefetch, produced, worker, held, counts, result>>
      /\ caller = "pulling" /\ caller' \in {"pulling", "offering"}
      /\ next' = next + 1
  BY DEF PrefetchInv, Pull
<1>2. /\ Readable \in 0..Len(source) /\ Len(source) \in Nat
      /\ DOMAIN source = 1..Len(source) /\ source \in Seq(Rec)
  BY <1>1, ReadableIs, LenProperties DEF PrefetchTypeOK
<1>3. next \in 1..Readable
  <2>1. next \in DOMAIN source /\ source[next].fate # "raises"
    BY DEF Pull, Raises
  <2>2. Readable < Len(source) => source[Readable + 1].fate = "raises"
    BY <1>2, ReadableIs
  <2> QED BY <1>1, <1>2, <2>1, <2>2 DEF CallerInv
<1>4. PICK i \in 1..next :
        i = Start /\ batch = SubSeq(source, i, next - 1) /\ \A j \in i..next - 1 : Fits(i, j)
  BY <1>1 DEF CallerInv
<1> DEFINE r == source[next]
<1>5. /\ batch \in Seq(Rec) /\ Len(batch) = next - i
      /\ SubSeq(source, i, next) = Append(batch, r)
      /\ Flushes(batch, r) <=> ~Fits(i, next)
  <2>1. i \in Nat \ {0} /\ next \in DOMAIN source /\ i <= next
    BY <1>2, <1>3
  <2> QED BY <1>2, <1>4, <2>1, FlushesIs
<1>6. r \in Rec
  BY <1>2, <1>3, ElementOfSeq
<1>7. /\ Readable' = Readable /\ From' = From /\ Outcomes' = Outcomes
      /\ \A k, j : Fits(k, j)' <=> Fits(k, j)
      /\ \A k : /\ Counted(k)' <=> Counted(k)
                /\ EndOf(k)' = EndOf(k) /\ BatchAt(k)' = BatchAt(k)
  BY <1>1, Frozen
<1>8. PrefetchTypeOK'
  BY <1>1 DEF PrefetchTypeOK
<1>9. CASE Flushes(batch, r)
  <2>1. /\ offered' = batch /\ batch' = <<r>> /\ caller' = "offering"
    BY <1>9 DEF Pull
  <2>2. Len(batch') = 1 /\ i < next
    BY <1>3, <1>4, <1>5, <1>9, <2>1, EmptySeq DEF Flushes
  <2>3. Start' = next /\ NextToCount' = i
    BY <1>1, <1>3, <1>4, <1>5, <2>1, <2>2 DEF Start, NextToCount
  <2>4. batch' = SubSeq(source', next, next' - 1)
    <3>1. next' - 1 = next
      BY <1>1, <1>3
    <3>2. SubSeq(source, next, next) = <<r>>
      <4>1. next \in Nat \ {0} /\ next \in DOMAIN source
        BY <1>2, <1>3
      <4> DEFINE b == SubSeq(source, next, next - 1)
      <4>2. /\ b \in Seq(Rec) /\ Len(b) = next - next
            /\ SubSeq(source, next, next) = Append(b, r)
        BY <1>2, <4>1, FlushesIs
      <4> HIDE DEF b
      <4>3. b = << >>
        BY <4>1, <4>2, EmptySeq
      <4> QED BY <4>2, <4>3
    <3> QED BY <1>1, <2>1, <3>1, <3>2
  <2>5. \A j \in next..next' - 1 : Fits(next, j)
    <3>1. next..next' - 1 = {next}
      BY <1>1, <1>3
    <3> QED BY <3>1 DEF Fits
  <2>6. EndOf(i) = next - 1
    <3>1. next - 1 \in i..Readable /\ next - 1 + 1 = next
      BY <1>2, <1>3, <2>2
    <3> QED BY <1>2, <1>4, <1>5, <1>9, <3>1, EndIs
  <2>7. Counted(i) /\ i \in 1..Readable /\ EndOf(i) + 1 = next
    <3> DEFINE m == Readable
    <3>1. i \in 1..next /\ i < next /\ next \in 1..m /\ m \in Nat /\ m = Readable
      BY <1>2, <1>3, <2>2
    <3> HIDE DEF m
    <3>2. i \in 1..m /\ next - 1 # m /\ next - 1 + 1 = next
      BY <3>1
    <3> QED BY <2>6, <3>1, <3>2 DEF Counted
  <2>8. offered' = BatchAt(i)
    BY <1>4, <2>1, <2>6 DEF BatchAt
  <2>9. CallerInv'
    <3>1. next' \in 1..Readable' + 1
      BY <1>1, <1>2, <1>3, <1>7
    <3>2. \E k \in 1..next' :
            /\ k = Start'
            /\ batch' = SubSeq(source', k, next' - 1)
            /\ \A j \in k..next' - 1 : Fits(k, j)'
      BY <1>1, <1>3, <1>7, <2>3, <2>4, <2>5
    <3>3. \E k \in 1..Readable' :
            /\ k = NextToCount'
            /\ Counted(k)'
            /\ offered' = BatchAt(k)'
            /\ EndOf(k)' + 1 = Start'
      BY <1>7, <2>3, <2>7, <2>8
    <3> QED BY <1>1, <2>1, <3>1, <3>2, <3>3 DEF CallerInv
  <2>10. NextToCount' = NextToCount
    BY <1>1, <1>4, <2>3 DEF NextToCount
  <2>11. CountsInv'
    BY <1>1, <1>7, <2>1, <2>10 DEF CountsInv, MayGoOn, MayEnd
  <2> QED BY <1>1, <1>8, <2>1, <2>9, <2>11 DEF PrefetchInv, ResultInv
<1>10. CASE ~Flushes(batch, r)
  <2>1. batch' = Append(batch, r) /\ UNCHANGED <<offered, caller>>
    BY <1>10 DEF Pull
  <2>2. Len(batch') = next - i + 1
    BY <1>3, <1>4, <1>5, <1>6, <2>1, AppendProperties
  <2>3. Start' = i /\ NextToCount' = i
    <3>1. Start' = i
      <4>1. Start' = next' - Len(batch')
        BY DEF Start
      <4>2. next' = next + 1
        BY <1>1
      <4> QED BY <1>3, <2>2, <4>1, <4>2
    <3> QED BY <1>1, <2>1, <3>1 DEF NextToCount
  <2>4. /\ batch' = SubSeq(source', i, next' - 1)
        /\ \A j \in i..next' - 1 : Fits(i, j)
    <3>1. next' - 1 = next
      BY <1>1, <1>3
    <3> QED BY <1>1, <1>3, <1>4, <1>5, <1>10, <2>1, <3>1
  <2>5. CallerInv'
    <3>1. next' \in 1..Readable' + 1
      BY <1>1, <1>2, <1>3, <1>7
    <3>2. \E k \in 1..next' :
            /\ k = Start'
            /\ batch' = SubSeq(source', k, next' - 1)
            /\ \A j \in k..next' - 1 : Fits(k, j)'
      BY <1>1, <1>3, <1>4, <1>7, <2>3, <2>4
    <3> QED BY <1>1, <2>1, <3>1, <3>2 DEF CallerInv
  <2>6. NextToCount' = NextToCount
    BY <1>1, <1>4, <2>3 DEF NextToCount
  <2>7. CountsInv'
    BY <1>1, <1>7, <2>1, <2>6 DEF CountsInv, MayGoOn, MayEnd
  <2> QED BY <1>1, <1>8, <2>1, <2>5, <2>7 DEF PrefetchInv, ResultInv
<1> QED BY <1>9, <1>10

\* The last batch of the source is offered.
LEMMA PullLastStep ==
  ASSUME PrefetchInv, PullLast
  PROVE  PrefetchInv'
<1>1. /\ PrefetchTypeOK /\ CallerInv /\ CountsInv
      /\ UNCHANGED <<source, before, prefetch, next, produced, worker, held, counts, result>>
      /\ caller = "pulling" /\ caller' = "offering" /\ offered' = batch /\ batch' = << >>
      /\ next \notin DOMAIN source /\ batch # << >>
  BY DEF PrefetchInv, PullLast
<1>2. /\ Readable \in 0..Len(source) /\ Len(source) \in Nat
      /\ DOMAIN source = 1..Len(source) /\ source \in Seq(Rec)
  BY <1>1, ReadableIs, LenProperties DEF PrefetchTypeOK
<1>3. next = Readable + 1 /\ Readable = Len(source)
  <2>1. next \in 1..Readable + 1
    BY <1>1 DEF CallerInv
  <2>2. next \notin DOMAIN source
    BY <1>1
  <2> QED BY <1>2, <2>1, <2>2, AllRead
<1>4. PICK i \in 1..next :
        i = Start /\ batch = SubSeq(source, i, next - 1) /\ \A j \in i..next - 1 : Fits(i, j)
  BY <1>1 DEF CallerInv
<1>5. Len(batch) = next - i /\ i < next
  <2> DEFINE n == Len(source)
  <2>1. n \in Nat /\ next = n + 1 /\ i \in 1..next
    BY <1>2, <1>3
  <2>2. i \in 1..Len(source) + 1 /\ next - 1 \in i - 1..Len(source)
    BY <2>1
  <2>3. batch \in Seq(Rec) /\ Len(batch) = IF i <= next - 1 THEN next - 1 - i + 1 ELSE 0
    BY <1>2, <1>4, <2>2, SubSeqProperties
  <2>4. Len(batch) # 0
    BY <1>1, <2>3, EmptySeq
  <2> HIDE DEF n
  <2> QED BY <2>1, <2>3, <2>4
<1>6. /\ Readable' = Readable /\ From' = From /\ Outcomes' = Outcomes
      /\ \A k, j : Fits(k, j)' <=> Fits(k, j)
      /\ \A k : /\ Counted(k)' <=> Counted(k)
                /\ EndOf(k)' = EndOf(k) /\ BatchAt(k)' = BatchAt(k)
  BY <1>1, Frozen
<1>7. PrefetchTypeOK'
  BY <1>1 DEF PrefetchTypeOK
<1>8. Start' = next /\ NextToCount' = i /\ NextToCount = i
  <2>1. Len(batch') = 0
    BY <1>1, EmptySeq
  <2>2. Start' = next
    <3>1. Start' = next' - Len(batch')
      BY DEF Start
    <3> QED BY <1>1, <1>3, <1>2, <2>1, <3>1
  <2>3. next - (next - i) = i
    BY <1>2, <1>3
  <2>4. NextToCount' = Start' - Len(offered')
    BY <1>1 DEF NextToCount
  <2> QED BY <1>1, <1>4, <1>5, <2>2, <2>3, <2>4 DEF NextToCount
<1>9. EndOf(i) = Readable
  <2>1. i \in Nat \ {0} /\ Readable \in i..Readable /\ Readable = next - 1
    BY <1>2, <1>3, <1>5
  <2> QED BY <1>2, <1>4, <2>1, EndIs
<1>10. Counted(i) /\ i \in 1..Readable /\ EndOf(i) + 1 = next /\ offered' = BatchAt(i)
  <2>1. i \in 1..Readable /\ i <= Readable /\ Readable = next - 1
    BY <1>2, <1>3, <1>5
  <2> QED BY <1>1, <1>3, <1>4, <1>9, <2>1 DEF Counted, BatchAt
<1>11. CallerInv'
  <2>1. next' \in 1..Readable' + 1
    BY <1>1, <1>2, <1>3, <1>6
  <2>2. \E k \in 1..next' :
          /\ k = Start'
          /\ batch' = SubSeq(source', k, next' - 1)
          /\ \A j \in k..next' - 1 : Fits(k, j)'
    <3>1. << >> = SubSeq(source, next, next - 1)
      <4>1. next \in 1..Len(source) + 1 /\ next - 1 \in next - 1..Len(source)
        BY <1>2, <1>3
      <4> QED BY <1>2, <4>1, SubSeqProperties, EmptySeq
    <3>2. next \in 1..next' /\ next..next' - 1 = {}
      BY <1>1, <1>2, <1>3
    <3> QED BY <1>1, <1>8, <3>1, <3>2
  <2>3. \E k \in 1..Readable' :
          /\ k = NextToCount'
          /\ Counted(k)'
          /\ offered' = BatchAt(k)'
          /\ EndOf(k)' + 1 = Start'
    BY <1>6, <1>8, <1>10
  <2> QED BY <1>1, <2>1, <2>2, <2>3 DEF CallerInv
<1>12. CountsInv'
  BY <1>1, <1>6, <1>8 DEF CountsInv, MayGoOn, MayEnd
<1> QED BY <1>1, <1>7, <1>11, <1>12 DEF PrefetchInv, ResultInv

\* The loop is left where no batch is left to count.
LEMMA LeaveStep ==
  ASSUME PrefetchInv, Leave
  PROVE  PrefetchInv'
<1>1. /\ PrefetchTypeOK /\ CallerInv /\ CountsInv
      /\ UNCHANGED <<source, before, prefetch, next, batch, offered, worker, held, counts, result>>
      /\ caller = "pulling" /\ caller' = "joining"
      /\ \/ next \notin DOMAIN source /\ batch = << >> /\ produced' = "ok"
         \/ Raises /\ produced' = "source error"
  BY DEF PrefetchInv, Leave
<1>2. /\ Readable \in 0..Len(source) /\ Len(source) \in Nat
      /\ DOMAIN source = 1..Len(source) /\ source \in Seq(Rec)
  BY <1>1, ReadableIs, LenProperties DEF PrefetchTypeOK
<1>3. PICK i \in 1..next :
        i = Start /\ batch = SubSeq(source, i, next - 1) /\ \A j \in i..next - 1 : Fits(i, j)
  BY <1>1 DEF CallerInv
<1>4. /\ Readable' = Readable /\ From' = From /\ Outcomes' = Outcomes
      /\ \A k, j : Fits(k, j)' <=> Fits(k, j)
      /\ \A k : /\ Counted(k)' <=> Counted(k)
                /\ EndOf(k)' = EndOf(k) /\ BatchAt(k)' = BatchAt(k)
  BY <1>1, Frozen
<1>5. PrefetchTypeOK'
  BY <1>1 DEF PrefetchTypeOK
<1>6. Start' = Start /\ NextToCount' = NextToCount
  BY <1>1 DEF Start, NextToCount
<1>7. /\ ~Counted(i)
      /\ produced' = "source error" <=> Readable < Len(source)
  <2>1. CASE next \notin DOMAIN source /\ batch = << >> /\ produced' = "ok"
    <3>1. next = Readable + 1 /\ Readable = Len(source)
      <4>1. next \in 1..Readable + 1
        BY <1>1 DEF CallerInv
      <4> QED BY <1>2, <2>1, <4>1, AllRead
    <3>2. i = next
      BY <1>2, <1>3, <2>1, <3>1, EmptySeq DEF Start
    <3>3. ~Counted(i)
      BY <1>2, <3>1, <3>2 DEF Counted
    <3> QED BY <1>2, <2>1, <3>1, <3>3
  <2>2. CASE Raises /\ produced' = "source error"
    <3>1. next \in DOMAIN source /\ source[next].fate = "raises"
      BY <2>2 DEF Raises
    <3>2. next \in 1..Readable + 1
      BY <1>1 DEF CallerInv
    <3>3. \A j \in 1..Readable : source[j].fate # "raises"
      BY <1>2, ReadableIs
    <3>4. next = Readable + 1 /\ Readable < Len(source)
      BY <1>2, <3>1, <3>2, <3>3
    <3>5. ASSUME Counted(i) PROVE FALSE
      <4>1. i \in Nat \ {0} /\ Readable \in i..Readable /\ Readable = next - 1
        <5>1. i <= Readable
          BY <3>5 DEF Counted
        <5> QED BY <1>2, <3>4, <5>1
      <4>2. EndOf(i) = Readable
        BY <1>2, <1>3, <4>1, EndIs
      <4> QED BY <1>2, <3>4, <3>5, <4>2 DEF Counted
    <3> QED BY <2>2, <3>4, <3>5
  <2> QED BY <1>1, <2>1, <2>2
<1>8. CallerInv'
  <2>1. \E k \in 1..next' :
          /\ k = Start'
          /\ batch' = SubSeq(source', k, next' - 1)
          /\ \A j \in k..next' - 1 : Fits(k, j)'
          /\ ~Counted(k)'
          /\ produced' = "source error" <=> Readable' < Len(source')
    BY <1>1, <1>3, <1>4, <1>6, <1>7
  <2> QED BY <1>1, <1>4, <2>1 DEF CallerInv
<1>9. CountsInv'
  BY <1>1, <1>4, <1>6 DEF CountsInv, MayGoOn, MayEnd, CallerInv, Failures
<1> QED BY <1>1, <1>5, <1>8, <1>9 DEF PrefetchInv, ResultInv

\* Without a worker, a batch is counted by the caller.
LEMMA CountHereStep ==
  ASSUME PrefetchInv, CountHere
  PROVE  PrefetchInv'
<1>1. /\ PrefetchTypeOK /\ CallerInv /\ CountsInv
      /\ UNCHANGED <<source, before, prefetch, next, batch, offered, worker, held, result>>
      /\ prefetch = 0 /\ caller = "offering" /\ produced = "ok" /\ worker = "waiting"
      /\ source \in Seq(Rec) /\ counts \in [Word -> Int]
  BY DEF PrefetchInv, CountHere, PrefetchTypeOK, CallerInv, CountsInv
<1>2. PICK o \in Added(counts, offered) :
        /\ counts' = o.counts
        /\ IF o.state = "waiting" THEN caller' = "pulling" /\ UNCHANGED produced
           ELSE caller' = "joining" /\ produced' = o.state
  BY DEF CountHere
<1>3. PICK i \in 1..Readable :
        i = NextToCount /\ Counted(i) /\ offered = BatchAt(i) /\ EndOf(i) + 1 = Start
  BY <1>1 DEF CallerInv
<1>4. /\ o.counts \in [Word -> Int]
      /\ o.state = "waiting" => MayGoOn(o.counts, Start)
      /\ o.state # "waiting" => o.state \in Failures /\ MayEnd(o.counts, o.state)
  <2>1. MayGoOn(counts, i)
    BY <1>1, <1>3 DEF CountsInv, Failures
  <2>2. i \in Nat \ {0}
    BY <1>1, ReadableIs, LenProperties
  <2> QED BY <1>1, <1>2, <1>3, <2>1, <2>2, CountBatch
<1>5. /\ Readable' = Readable /\ From' = From /\ Outcomes' = Outcomes
      /\ \A k, j : Fits(k, j)' <=> Fits(k, j)
      /\ \A k : /\ Counted(k)' <=> Counted(k)
                /\ EndOf(k)' = EndOf(k) /\ BatchAt(k)' = BatchAt(k)
  BY <1>1, Frozen
<1>6. Start' = Start /\ caller' # "offering" /\ NextToCount' = Start
  BY <1>1, <1>2 DEF Start, NextToCount
<1>7. PrefetchTypeOK'
  BY <1>1, <1>2, <1>4 DEF PrefetchTypeOK, Failures
<1>8. CallerInv'
  <2>1. PICK k \in 1..next :
          k = Start /\ batch = SubSeq(source, k, next - 1) /\ \A j \in k..next - 1 : Fits(k, j)
    BY <1>1 DEF CallerInv
  <2>2. /\ caller' \in {"pulling", "offering"} => produced' = "ok"
        /\ ~(caller' \in {"joining", "returned"} /\ produced' \in {"ok", "source error"})
    BY <1>1, <1>2, <1>4 DEF Failures
  <2>3. next' \in 1..Readable' + 1
    BY <1>1, <1>5 DEF CallerInv
  <2>4. \E l \in 1..next' :
          /\ l = Start'
          /\ batch' = SubSeq(source', l, next' - 1)
          /\ \A j \in l..next' - 1 : Fits(l, j)'
    BY <1>1, <1>5, <1>6, <2>1
  <2> QED BY <1>6, <2>2, <2>3, <2>4 DEF CallerInv
<1>9. CountsInv'
  BY <1>1, <1>2, <1>4, <1>5, <1>6 DEF CountsInv, MayGoOn, MayEnd, Failures
<1> QED BY <1>1, <1>2, <1>7, <1>8, <1>9 DEF PrefetchInv, ResultInv

\* The worker counts the batch it holds.
LEMMA CountStep ==
  ASSUME PrefetchInv, Count
  PROVE  PrefetchInv'
<1>1. /\ PrefetchTypeOK /\ CallerInv /\ CountsInv /\ ResultInv
      /\ UNCHANGED <<source, before, prefetch, next, batch, offered, caller, produced, held, result>>
      /\ worker = "counting" /\ prefetch = 1 /\ produced \notin Failures /\ produced # "stopped"
      /\ source \in Seq(Rec) /\ counts \in [Word -> Int]
  BY DEF PrefetchInv, Count, PrefetchTypeOK, CountsInv, Failures
<1>2. PICK o \in Added(counts, held) : counts' = o.counts /\ worker' = o.state
  BY DEF Count
<1>3. PICK i \in 1..Readable :
        Counted(i) /\ held = BatchAt(i) /\ EndOf(i) + 1 = NextToCount /\ MayGoOn(counts, i)
  BY <1>1 DEF CountsInv
<1>4. /\ o.counts \in [Word -> Int]
      /\ o.state = "waiting" => MayGoOn(o.counts, NextToCount)
      /\ o.state # "waiting" => o.state \in Failures /\ MayEnd(o.counts, o.state)
  <2>1. i \in Nat \ {0}
    BY <1>1, ReadableIs, LenProperties
  <2> QED BY <1>1, <1>2, <1>3, <2>1, CountBatch
<1>5. /\ Readable' = Readable /\ From' = From /\ Outcomes' = Outcomes
      /\ \A k, j : Fits(k, j)' <=> Fits(k, j)
      /\ \A k : /\ Counted(k)' <=> Counted(k)
                /\ EndOf(k)' = EndOf(k) /\ BatchAt(k)' = BatchAt(k)
  BY <1>1, Frozen
<1>6. Start' = Start /\ NextToCount' = NextToCount
  BY <1>1 DEF Start, NextToCount
<1>7. PrefetchTypeOK'
  BY <1>1, <1>2, <1>4 DEF PrefetchTypeOK, Failures
<1>8. CallerInv'
  BY <1>1, <1>5, <1>6 DEF CallerInv
<1>9. CountsInv'
  BY <1>1, <1>2, <1>4, <1>5, <1>6 DEF CountsInv, MayGoOn, MayEnd, Failures
<1>10. ResultInv'
  BY <1>1 DEF ResultInv
<1> QED BY <1>7, <1>8, <1>9, <1>10 DEF PrefetchInv

\* The other steps hand over, stop or return.
LEMMA OtherStep ==
  ASSUME PrefetchInv, SendFails \/ Return \/ Receive \/ Finish
  PROVE  PrefetchInv'
<1>1. /\ PrefetchTypeOK /\ CallerInv /\ CountsInv /\ ResultInv
      /\ UNCHANGED <<source, before, prefetch, next, batch, offered, counts>>
  BY DEF PrefetchInv, SendFails, Return, Receive, Finish
<1>2. /\ Readable' = Readable /\ From' = From /\ Outcomes' = Outcomes
      /\ \A k, j : Fits(k, j)' <=> Fits(k, j)
      /\ \A k : /\ Counted(k)' <=> Counted(k)
                /\ EndOf(k)' = EndOf(k) /\ BatchAt(k)' = BatchAt(k)
  BY <1>1, Frozen
<1>3. Start' = Start
  BY <1>1 DEF Start
<1>4. CASE SendFails
  <2>1. PrefetchTypeOK'
    BY <1>1, <1>4 DEF PrefetchTypeOK, SendFails
  <2>2. CallerInv'
    BY <1>1, <1>2, <1>3, <1>4 DEF CallerInv, SendFails
  <2>3. CountsInv'
    BY <1>1, <1>2, <1>4 DEF CountsInv, SendFails, MayEnd, Failures, PrefetchTypeOK
  <2> QED BY <1>1, <1>4, <2>1, <2>2, <2>3 DEF PrefetchInv, ResultInv, SendFails
<1>5. CASE Return
  <2>1. NextToCount' = NextToCount
    BY <1>1, <1>3, <1>5 DEF NextToCount, Return
  <2>2. PrefetchTypeOK'
    BY <1>1, <1>5 DEF PrefetchTypeOK, Return
  <2>3. CallerInv'
    BY <1>1, <1>2, <1>3, <1>5 DEF CallerInv, Return
  <2>4. CountsInv'
    BY <1>1, <1>2, <1>5, <2>1 DEF CountsInv, Return, MayGoOn, MayEnd, Failures
  <2>5. ResultInv'
    BY <1>1, <1>5 DEF ResultInv, Return, JoinResult, PrefetchTypeOK
  <2> QED BY <2>2, <2>3, <2>4, <2>5 DEF PrefetchInv
<1>6. CASE Receive
  <2>1. NextToCount' = Start
    BY <1>1, <1>3, <1>6 DEF NextToCount, Receive
  <2>2. PrefetchTypeOK'
    BY <1>1, <1>6 DEF PrefetchTypeOK, Receive
  <2>3. CallerInv'
    BY <1>1, <1>2, <1>3, <1>6 DEF CallerInv, Receive
  <2>4. PICK i \in 1..Readable :
          i = NextToCount /\ Counted(i) /\ offered = BatchAt(i) /\ EndOf(i) + 1 = Start
    BY <1>1, <1>6 DEF CallerInv, Receive
  <2>5. MayGoOn(counts, i)
    BY <1>1, <1>6, <2>4 DEF CountsInv, Receive, CallerInv, Failures
  <2>6. CountsInv'
    <3>1. \E k \in 1..Readable' :
            /\ Counted(k)'
            /\ held' = BatchAt(k)'
            /\ EndOf(k)' + 1 = NextToCount'
            /\ From'[k] [counts'] \subseteq Outcomes'
      BY <1>1, <1>2, <1>6, <2>1, <2>4, <2>5 DEF Receive, MayGoOn
    <3> QED BY <1>1, <1>6, <3>1 DEF CountsInv, Receive, CallerInv, Failures, MayGoOn
  <2> QED BY <1>6, <2>2, <2>3, <2>6 DEF PrefetchInv, ResultInv, Receive
<1>7. CASE Finish
  <2>1. NextToCount' = NextToCount
    BY <1>1, <1>3, <1>7 DEF NextToCount, Finish
  <2>2. PrefetchTypeOK'
    BY <1>1, <1>7 DEF PrefetchTypeOK, Finish
  <2>3. CallerInv'
    BY <1>1, <1>2, <1>3, <1>7, <2>1 DEF CallerInv, Finish
  <2>4. CountsInv'
    BY <1>1, <1>2, <1>7, <2>1 DEF CountsInv, Finish, SenderGone, MayGoOn, MayEnd, Failures
  <2> QED BY <1>1, <1>7, <2>2, <2>3, <2>4 DEF PrefetchInv, ResultInv, Finish
<1> QED BY <1>4, <1>5, <1>6, <1>7

\* Every step keeps the invariant.
LEMMA PrefetchStep == PrefetchInv /\ [Next]_vars => PrefetchInv'
<1> SUFFICES ASSUME PrefetchInv, [Next]_vars PROVE PrefetchInv'
  OBVIOUS
<1>1. CASE UNCHANGED vars
  <2>1. /\ Readable' = Readable /\ From' = From /\ Outcomes' = Outcomes
        /\ \A k, j : Fits(k, j)' <=> Fits(k, j)
        /\ \A k : /\ Counted(k)' <=> Counted(k)
                  /\ EndOf(k)' = EndOf(k) /\ BatchAt(k)' = BatchAt(k)
    BY <1>1, Frozen DEF vars
  <2>2. Start' = Start /\ NextToCount' = NextToCount
    BY <1>1 DEF vars, Start, NextToCount
  <2>3. PrefetchTypeOK'
    BY <1>1 DEF PrefetchInv, PrefetchTypeOK, vars
  <2>4. CallerInv'
    BY <1>1, <2>1, <2>2 DEF PrefetchInv, CallerInv, vars
  <2>5. CountsInv'
    BY <1>1, <2>1, <2>2 DEF PrefetchInv, CountsInv, vars, MayGoOn, MayEnd
  <2>6. ResultInv'
    BY <1>1 DEF PrefetchInv, ResultInv, JoinResult, vars
  <2> QED BY <2>3, <2>4, <2>5, <2>6 DEF PrefetchInv
<1>2. CASE Next
  BY <1>2, PullStep, PullLastStep, LeaveStep, CountHereStep, CountStep, OtherStep
     DEF Next, Caller, Worker
<1> QED BY <1>1, <1>2

\* PrefetchInv holds in every state.
THEOREM PrefetchInvariant == Spec => []PrefetchInv
BY PrefetchInit, PrefetchStep, PTL DEF Spec

-----------------------------------------------------------------------------
(* What add_source promises. *)

\* A batch that is handed over is within both limits, or a single record.
THEOREM LookaheadBound == Spec => []LookaheadIsBounded
<1>1. PrefetchInv => LookaheadIsBounded
  <2> SUFFICES ASSUME PrefetchInv, caller = "offering"
               PROVE  Len(offered) = 1 \/ (Len(offered) <= MaxRecords /\ Size(offered) <= MaxBytes)
    BY DEF LookaheadIsBounded
  <2>1. PICK i \in 1..Readable : Counted(i) /\ offered = BatchAt(i)
    BY DEF PrefetchInv, CallerInv
  <2>2. /\ source \in Seq(Rec) /\ Readable \in 0..Len(source) /\ Len(source) \in Nat
    <3>1. source \in Seq(Rec)
      BY DEF PrefetchInv, PrefetchTypeOK
    <3> QED BY <3>1, ReadableIs, LenProperties
  <2> DEFINE e == EndOf(i)
  <2>3. e \in i..Readable /\ Fits(i, e)
    <3>1. i \in Nat \ {0} /\ i <= Readable
      BY <2>2
    <3>2. e \in i..Readable /\ \A j \in i..e : Fits(i, j)
      BY <2>2, <3>1, EndExists
    <3>3. e \in i..e
      BY <2>2, <3>2
    <3> QED BY <3>2, <3>3
  <2>4. offered = SubSeq(source, i, e)
    BY <2>1 DEF BatchAt
  <2> HIDE DEF e
  <2>5. Len(offered) = e - i + 1
    <3>1. i \in 1..Len(source) + 1 /\ e \in i - 1..Len(source) /\ i <= e
      BY <2>2, <2>3
    <3> QED BY <2>2, <2>4, <3>1, SubSeqProperties
  <2>6. CASE i = e
    BY <2>2, <2>3, <2>5, <2>6
  <2>7. CASE i # e
    <3>1. e - i < MaxRecords /\ Size(offered) <= MaxBytes
      BY <2>3, <2>4, <2>7 DEF Fits
    <3>2. i \in Int /\ e \in Int
      BY <2>2, <2>3
    <3> QED BY <2>5, <3>1, <3>2, BatchAssumption
  <2> QED BY <2>6, <2>7
<1> QED BY <1>1, PrefetchInvariant, PTL

\* add_source ends as counting its batches one after the other does.
THEOREM SequentialOutcome == Spec => []OutcomeIsSequential
<1>1. PrefetchInv => OutcomeIsSequential
  <2> SUFFICES ASSUME PrefetchInv, caller = "returned"
               PROVE  \E o \in Outcomes :
                        /\ counts = o.counts
                        /\ result = IF o.state # "waiting" THEN o.state
                                    ELSE IF Readable < Len(source) THEN "source error" ELSE "ok"
    BY DEF OutcomeIsSequential
  <2>1. PrefetchTypeOK /\ CallerInv /\ CountsInv /\ ResultInv
    BY DEF PrefetchInv
  <2>2. ASSUME NEW s \in Failures, MayEnd(counts, s), result = s
        PROVE  \E o \in Outcomes :
                 /\ counts = o.counts
                 /\ result = IF o.state # "waiting" THEN o.state
                             ELSE IF Readable < Len(source) THEN "source error" ELSE "ok"
    BY <2>2 DEF MayEnd, Failures
  <2>3. CASE worker \in Failures
    <3>1. prefetch = 1
      BY <2>1, <2>3 DEF CountsInv, PrefetchTypeOK, Failures
    <3>2. result = worker
      BY <2>1, <2>3, <3>1 DEF ResultInv, JoinResult, Failures
    <3> QED BY <2>1, <2>2, <2>3, <3>2 DEF CountsInv
  <2>4. CASE produced \in Failures
    BY <2>1, <2>2, <2>4 DEF CountsInv, ResultInv
  <2>5. CASE worker \notin Failures /\ produced \notin Failures
    <3>1. worker \in {"waiting", "ok"} /\ produced \in {"ok", "source error"}
      BY <2>1, <2>5 DEF ResultInv, CountsInv, PrefetchTypeOK, Failures
    <3>2. result = produced
      BY <2>1, <3>1 DEF ResultInv, JoinResult, PrefetchTypeOK
    <3>3. MayGoOn(counts, NextToCount) /\ NextToCount = Start
      BY <2>1, <2>5, <3>1 DEF CountsInv, NextToCount
    <3>4. PICK i \in 1..next :
            i = Start /\ ~Counted(i) /\ (produced = "source error" <=> Readable < Len(source))
      BY <2>1, <3>1 DEF CallerInv
    <3>5. i \in Nat \ {0} /\ source \in Seq(Rec) /\ counts \in [Word -> Int]
      <4>1. source \in Seq(Rec)
        BY <2>1 DEF PrefetchTypeOK
      <4>2. Readable \in 0..Len(source) /\ Len(source) \in Nat
        BY <4>1, ReadableIs, LenProperties
      <4>3. next \in Nat
        <5>1. next \in 1..Readable + 1
          BY <2>1 DEF CallerInv
        <5> QED BY <4>2, <5>1
      <4>4. i \in Nat \ {0}
        BY <4>3
      <4> QED BY <2>1, <4>1, <4>4 DEF PrefetchTypeOK
    <3>6. MayEnd(counts, "waiting")
      BY <3>3, <3>4, <3>5, NothingLeft
    <3> QED BY <3>1, <3>2, <3>4, <3>6 DEF MayEnd
  <2> QED BY <2>3, <2>4, <2>5
<1> QED BY <1>1, PrefetchInvariant, PTL

=============================================================================
