---------------------------- MODULE ChunksProofs ----------------------------
(***************************************************************************)
(* Cutting a file changes nothing, for any file, any bytes of the scalars, *)
(* any window and number of chunks, and any order of reading and joining:  *)
(* its text stays the same; cut at end-of-text tokens it keeps its         *)
(* documents, and cut after newlines its words. Selecting bigrams is fair. *)
(***************************************************************************)
EXTENDS Chunks, BpeWordsProofs

-----------------------------------------------------------------------------
(* Reading a sequence from left to right. Decoding, splitting at special tokens
   and cutting into words all look at what is left, write something, and go on
   some steps further. *)

\* What is left of s at position i.
Rest(s, i) == SubSeq(s, i, Len(s))

\* What is written for a sequence, and how much of it is read.
Reads(E, U, out, step) ==
  \A s \in Seq(E) : s # << >> => out[s] \in Seq(U) /\ step[s] \in 1..Len(s)

ReadFrom(f, s, out, step, i) ==
  IF i = Len(s) + 1 THEN << >> ELSE Cat(out[Rest(s, i)], f[i + step[Rest(s, i)]])

\* f[i] is what is written from position i of s on.
ReadsAs(f, s, out, step) ==
  f = [i \in 1..Len(s) + 1 |-> ReadFrom(f, s, out, step, i)]

\* What is left is a sequence.
LEMMA RestIs ==
  ASSUME NEW E, NEW s \in Seq(E), NEW i \in 1..Len(s) + 1
  PROVE  /\ Rest(s, i) \in Seq(E) /\ Len(Rest(s, i)) = Len(s) + 1 - i
         /\ i # Len(s) + 1 => Rest(s, i) # << >>
         /\ i = Len(s) + 1 => Rest(s, i) = << >>
         /\ \A k \in 1..Len(s) + 1 - i : Rest(s, i)[k] = s[i + k - 1]
         /\ \A k \in 1..Len(s) + 2 - i : Rest(Rest(s, i), k) = Rest(s, i + k - 1)
<1>0. Len(s) \in Nat /\ i \in Nat /\ 1 <= i /\ i <= Len(s) + 1 /\ \A k \in 1..Len(s) : s[k] \in E
  OBVIOUS
<1> DEFINE n == Len(s)
           m == n + 1 - i
<1>1. \A a \in 1..n + 1 : SubSeq(s, a, n) = [k \in 1..n + 1 - a |-> s[a + k - 1]]
  <2> TAKE a \in 1..n + 1
  <2>1. n - a + 1 = n + 1 - a
    BY <1>0
  <2> QED BY <2>1 DEF SubSeq
<1>2. Rest(s, i) = [k \in 1..m |-> s[i + k - 1]]
  BY <1>1 DEF Rest
<1>3. m \in Nat /\ \A k \in 1..m : i + k - 1 \in 1..n
  BY <1>0
<1>4. Rest(s, i) \in Seq(E) /\ Len(Rest(s, i)) = m
  BY <1>0, <1>2, <1>3
<1>5. \A k \in 1..m + 1 : Rest(Rest(s, i), k) = Rest(s, i + k - 1)
  <2> TAKE k \in 1..m + 1
  <2> DEFINE r == Rest(s, i)
  <2>1. Rest(r, k) = SubSeq(r, k, m)
    BY <1>4 DEF Rest
  <2>2. SubSeq(r, k, m) = [j \in 1..m + 1 - k |-> r[k + j - 1]]
    <3>1. m - k + 1 = m + 1 - k
      BY <1>3
    <3> QED BY <3>1 DEF SubSeq
  <2>3. i + k - 1 \in 1..n + 1 /\ n + 1 - (i + k - 1) = m + 1 - k
    BY <1>0
  <2>4. Rest(s, i + k - 1) = [j \in 1..m + 1 - k |-> s[(i + k - 1) + j - 1]]
    BY <1>1, <2>3 DEF Rest
  <2>5. \A j \in 1..m + 1 - k : k + j - 1 \in 1..m /\ i + (k + j - 1) - 1 = (i + k - 1) + j - 1
    BY <1>0, <1>3
  <2>6. \A j \in 1..m + 1 - k : r[k + j - 1] = s[(i + k - 1) + j - 1]
    <3> HIDE DEF m, n
    <3> QED BY <1>2, <2>5
  <2>7. Rest(r, k) = Rest(s, i + k - 1)
    <3> HIDE DEF r, m, n
    <3> QED BY <2>1, <2>2, <2>4, <2>6
  <2> QED BY <2>7
<1>6. i # n + 1 => m # 0
  BY <1>0
<1>7. i = n + 1 => m = 0
  BY <1>0
<1>8. m = 0 => Rest(s, i) = << >>
  BY <1>2
<1>9. m # 0 => Rest(s, i) # << >>
  BY <1>4
<1>10. m + 1 = n + 2 - i
  BY <1>0
<1> HIDE DEF m
<1> QED BY <1>2, <1>4, <1>5, <1>6, <1>7, <1>8, <1>9, <1>10 DEF m

\* There is such a function.
LEMMA ReadingExists ==
  ASSUME NEW E, NEW U, NEW out, NEW step, Reads(E, U, out, step), NEW s \in Seq(E)
  PROVE  \E f : ReadsAs(f, s, out, step)
<1> DEFINE n == Len(s)
           Body(g, i) == ReadFrom(g, s, out, step, i)
           Is(g, m) == g = [i \in n + 1 - m..n + 1 |-> Body(g, i)]
           S == {m \in Nat : m <= n => \E g : Is(g, m)}
<1>0. n \in Nat
  OBVIOUS
<1>a. \A i \in 1..n : i + step[Rest(s, i)] \in i + 1..n + 1
  <2> TAKE i \in 1..n
  <2>1. /\ Rest(s, i) \in Seq(E) /\ Rest(s, i) # << >> /\ Len(Rest(s, i)) = n + 1 - i
    BY <1>0, RestIs
  <2>2. step[Rest(s, i)] \in 1..n + 1 - i
    BY <2>1 DEF Reads
  <2> HIDE DEF n
  <2> QED BY <1>0, <2>2
<1>b. \A g, h, i : (i # n + 1 => g[i + step[Rest(s, i)]] = h[i + step[Rest(s, i)]]) => Body(g, i) = Body(h, i)
  BY DEF ReadFrom
<1> HIDE DEF n, Body, Is
<1>1. 0 \in S
  <2> DEFINE g == [i \in n + 1 - 0..n + 1 |-> << >>]
  <2>1. \A i \in n + 1 - 0..n + 1 : g[i] = Body(g, i)
    <3>1. \A i \in n + 1 - 0..n + 1 : i = n + 1
      BY <1>0
    <3> QED BY <3>1 DEF Body, ReadFrom, n
  <2>2. Is(g, 0)
    BY <2>1 DEF Is
  <2> QED BY <2>2
<1>2. ASSUME NEW m \in S
      PROVE  m + 1 \in S
  <2> SUFFICES ASSUME m + 1 <= n
               PROVE  \E f : Is(f, m + 1)
    OBVIOUS
  <2>1. m \in Nat /\ m <= n
    BY <1>0
  <2>2. PICK g : Is(g, m)
    BY <2>1
  <2>3. g = [i \in n + 1 - m..n + 1 |-> Body(g, i)]
    BY <2>2 DEF Is
  <2> DEFINE D == n + 1 - (m + 1)..n + 1
             k == n + 1 - (m + 1)
             h == [i \in D |-> IF i = k THEN Body(g, k) ELSE g[i]]
  <2>4. /\ k \in D /\ k >= 1
        /\ \A i \in n + 1 - m..n + 1 : i \in D /\ i # k
        /\ \A i \in D : i # k => i \in n + 1 - m..n + 1
    BY <1>0, <2>1
  <2>5. \A i \in D : i # k => g[i] = Body(g, i)
    BY <2>3, <2>4
  <2>6. \A i \in n + 1 - m..n + 1 : h[i] = g[i]
    BY <2>4
  <2>7. \A i \in D : i # n + 1 => i + step[Rest(s, i)] \in n + 1 - m..n + 1
    <3> TAKE i \in D
    <3> SUFFICES ASSUME i # n + 1 PROVE i + step[Rest(s, i)] \in n + 1 - m..n + 1
      OBVIOUS
    <3>1. i \in 1..n /\ i >= n + 1 - (m + 1) /\ i \in Int
      BY <1>0, <2>1
    <3>2. i + step[Rest(s, i)] \in i + 1..n + 1
      BY <1>a, <3>1
    <3> HIDE DEF D
    <3> QED BY <1>0, <2>1, <3>1, <3>2
  <2>8. \A i \in D : Body(h, i) = Body(g, i)
    <3> HIDE DEF D, h
    <3> QED BY <1>b, <2>6, <2>7
  <2>9. \A i \in D : h[i] = Body(h, i)
    <3> TAKE i \in D
    <3>1. h[i] = IF i = k THEN Body(g, k) ELSE g[i]
      OBVIOUS
    <3> HIDE DEF D, h
    <3> QED BY <2>5, <2>8, <3>1
  <2>10. Is(h, m + 1)
    <3>1. h = [i \in D |-> h[i]]
      OBVIOUS
    <3> HIDE DEF h
    <3> QED BY <2>9, <3>1, Zenon DEF Is
  <2> QED BY <2>10
<1>3. S = Nat
  <2>1. S \in SUBSET Nat
    OBVIOUS
  <2> HIDE DEF S
  <2> QED BY <1>1, <1>2, <2>1, NatInd
<1> HIDE DEF S
<1>4. n \in S /\ n <= n
  BY <1>0, <1>3
<1>5. PICK f : Is(f, n)
  BY <1>4 DEF S
<1>6. n + 1 - n = 1
  BY <1>0
<1> QED BY <1>5, <1>6 DEF Is, Body, n, ReadsAs

\* What is written from a position on depends on nothing before it.
LEMMA ReadingShift ==
  ASSUME NEW E, NEW U, NEW out, NEW step, Reads(E, U, out, step), NEW s \in Seq(E),
         NEW f, ReadsAs(f, s, out, step), NEW i \in 1..Len(s) + 1,
         NEW g, ReadsAs(g, Rest(s, i), out, step)
  PROVE  f[i] = g[1] /\ f[i] \in Seq(U)
<1> DEFINE n == Len(s)
           r == Rest(s, i)
           m == n + 1 - i
           Q(k) == f[i + k - 1] = g[k] /\ g[k] \in Seq(U)
           S == {d \in Nat : d <= m => \A k \in 1..m + 1 : k >= m + 1 - d => Q(k)}
<1>0. n \in Nat /\ i \in Nat /\ 1 <= i /\ i <= n + 1 /\ m \in Nat /\ i + m = n + 1
  OBVIOUS
<1>1. r \in Seq(E) /\ Len(r) = m /\ \A k \in 1..m + 1 : Rest(r, k) = Rest(s, i + k - 1)
  <2>1. m + 1 = n + 2 - i
    BY <1>0
  <2> QED BY <2>1, RestIs
<1>2. \A j \in 1..n + 1 : f[j] = ReadFrom(f, s, out, step, j)
  BY DEF ReadsAs
<1>3. \A k \in 1..m + 1 : g[k] = ReadFrom(g, r, out, step, k)
  BY <1>1 DEF ReadsAs
<1>4. \A k \in 1..m + 1 : i + k - 1 \in 1..n + 1 /\ (k = m + 1 <=> i + k - 1 = n + 1)
  BY <1>0
<1>5. \A k \in 1..m : /\ step[Rest(r, k)] \in 1..m + 1 - k
                      /\ out[Rest(r, k)] \in Seq(U)
  <2> TAKE k \in 1..m
  <2>1. k \in 1..m + 1 /\ k # m + 1
    BY <1>0
  <2>2. Rest(r, k) \in Seq(E) /\ Rest(r, k) # << >> /\ Len(Rest(r, k)) = m + 1 - k
    <3> HIDE DEF r, m
    <3> QED BY <1>1, <2>1, RestIs
  <2> QED BY <2>2 DEF Reads
<1> HIDE DEF n, r, m, Q
<1>6. Q(m + 1)
  <2>1. g[m + 1] = << >>
    <3>1. m + 1 \in 1..m + 1 /\ m + 1 = Len(r) + 1
      BY <1>0, <1>1
    <3> QED BY <1>3, <3>1 DEF ReadFrom
  <2>2. f[n + 1] = << >>
    BY <1>0, <1>2 DEF ReadFrom, n
  <2>3. i + (m + 1) - 1 = n + 1
    BY <1>0
  <2>4. << >> \in Seq(U)
    OBVIOUS
  <2> QED BY <2>1, <2>2, <2>3, <2>4 DEF Q
<1>7. ASSUME NEW k \in 1..m, \A j \in 1..m + 1 : j > k => Q(j)
      PROVE  Q(k)
  <2> DEFINE x == Rest(r, k)
             j == k + step[x]
  <2>1. x = Rest(s, i + k - 1) /\ k \in 1..m + 1 /\ k # m + 1 /\ i + k - 1 # n + 1 /\ i + k - 1 \in 1..n + 1
    BY <1>0, <1>1, <1>4
  <2>2. step[x] \in 1..m + 1 - k /\ out[x] \in Seq(U)
    BY <1>5
  <2> HIDE DEF x
  <2>3. j \in 1..m + 1 /\ j > k /\ (i + k - 1) + step[x] = i + j - 1
    <3>1. \A t \in 1..m + 1 - k : k + t \in 1..m + 1 /\ k + t > k /\ (i + k - 1) + t = i + (k + t) - 1
      BY <1>0
    <3> QED BY <2>2, <3>1
  <2>4. Q(j)
    BY <1>7, <2>3
  <2>5. g[k] = Cat(out[x], g[j])
    BY <1>1, <1>3, <2>1 DEF ReadFrom, x
  <2>6. f[i + k - 1] = Cat(out[x], f[(i + k - 1) + step[x]])
    BY <1>2, <2>1 DEF ReadFrom, n
  <2> HIDE DEF j
  <2>7. f[i + k - 1] = g[k]
    BY <2>3, <2>4, <2>5, <2>6 DEF Q
  <2>8. g[k] \in Seq(U)
    BY <2>2, <2>4, <2>5, ConsAlgebra DEF Q
  <2> QED BY <2>7, <2>8 DEF Q
<1>8. 0 \in S
  <2>1. \A k \in 1..m + 1 : k >= m + 1 - 0 => k = m + 1
    BY <1>0
  <2> QED BY <1>6, <2>1
<1>9. ASSUME NEW d \in S PROVE d + 1 \in S
  <2> SUFFICES ASSUME d + 1 <= m, NEW k \in 1..m + 1, k >= m + 1 - (d + 1) PROVE Q(k)
    OBVIOUS
  <2>1. d \in Nat /\ d <= m
    BY <1>0
  <2>2. \A j \in 1..m + 1 : j >= m + 1 - d => Q(j)
    BY <2>1
  <2> HIDE DEF S
  <2>3. CASE k >= m + 1 - d
    BY <2>2, <2>3
  <2>4. CASE k < m + 1 - d
    <3>1. k \in 1..m /\ \A j \in 1..m + 1 : j > k => j >= m + 1 - d
      BY <1>0, <2>1, <2>4
    <3> QED BY <1>7, <2>2, <3>1
  <2> QED BY <1>0, <2>1, <2>3, <2>4
<1>10. S = Nat
  <2>1. S \in SUBSET Nat
    OBVIOUS
  <2> HIDE DEF S
  <2> QED BY <1>8, <1>9, <2>1, NatInd
<1>11. m \in S /\ m <= m
  <2> HIDE DEF S
  <2> QED BY <1>0, <1>10
<1>12. \A k \in 1..m + 1 : k >= m + 1 - m => Q(k)
  BY <1>11
<1>13. Q(1)
  BY <1>0, <1>12
<1>14. i + 1 - 1 = i
  BY <1>0
<1> QED BY <1>13, <1>14 DEF Q

\* What is written for a sequence: what its beginning gives, and the rest.
LEMMA ReadingSteps ==
  ASSUME NEW E, NEW U, NEW out, NEW step, Reads(E, U, out, step), NEW s \in Seq(E),
         NEW f, ReadsAs(f, s, out, step)
  PROVE  /\ f[1] \in Seq(U)
         /\ s = << >> => f[1] = << >>
         /\ s # << >> => \A g : ReadsAs(g, Rest(s, 1 + step[s]), out, step) =>
                           f[1] = Cat(out[s], g[1])
<1>0. Len(s) \in Nat /\ 1 \in 1..Len(s) + 1
  OBVIOUS
<1>1. f[1] = ReadFrom(f, s, out, step, 1)
  BY <1>0 DEF ReadsAs
<1>2. Rest(s, 1) = s
  BY DEF Rest
<1>3. f[1] \in Seq(U)
  BY <1>0, <1>2, ReadingShift
<1>4. s = << >> => f[1] = << >>
  BY <1>1 DEF ReadFrom
<1>5. ASSUME s # << >>, NEW g, ReadsAs(g, Rest(s, 1 + step[s]), out, step)
      PROVE  f[1] = Cat(out[s], g[1])
  <2>1. step[s] \in 1..Len(s)
    BY <1>5 DEF Reads
  <2>2. 1 + step[s] \in 1..Len(s) + 1
    BY <1>0, <2>1
  <2>3. f[1 + step[s]] = g[1]
    BY <1>5, <2>2, ReadingShift
  <2>4. 1 # Len(s) + 1
    BY <1>0, <1>5
  <2> QED BY <1>1, <1>2, <2>3, <2>4 DEF ReadFrom
<1> QED BY <1>3, <1>4, <1>5

-----------------------------------------------------------------------------
(* Decoding. *)

\* What decoding may give.
Chars == Scalars \cup {Replacement}

\* All bytes are in B.
Bytewise(B) == \A x \in Scalars : Utf8[x] \in Seq(B)

\* The scalars whose bytes are the first k of s, and what is decoded first.
Found(s, k) == {x \in Scalars : Utf8[x] = SubSeq(s, 1, k)}

Taken(s) == Max({Matching(s, 1), 1})

Decoded(s) ==
  LET found == Found(s, Matching(s, 1))
  IN IF found = {} THEN Replacement ELSE CHOOSE x \in found : TRUE

Matches(s) ==
  {k \in 0..Len(s) : k = 0 \/ \E x \in Scalars : IsPrefix(SubSeq(s, 1, k), Utf8[x])}

\* The first k elements.
LEMMA FirstIs ==
  ASSUME NEW B, NEW s \in Seq(B), NEW k \in 0..Len(s)
  PROVE  /\ SubSeq(s, 1, k) \in Seq(B) /\ Len(SubSeq(s, 1, k)) = k
         /\ s = Cat(SubSeq(s, 1, k), Rest(s, k + 1)) /\ Rest(s, k + 1) \in Seq(B)
<1>0. Len(s) \in Nat /\ k \in Nat /\ k <= Len(s) /\ \A j \in 1..Len(s) : s[j] \in B
  OBVIOUS
<1>1. SubSeq(s, 1, k) = [j \in 1..k |-> s[j]]
  <2>1. k - 1 + 1 = k
    BY <1>0
  <2>2. \A j \in 1..k : 1 + j - 1 = j
    BY <1>0
  <2> QED BY <2>1, <2>2 DEF SubSeq
<1>2. SubSeq(s, 1, k) \in Seq(B) /\ Len(SubSeq(s, 1, k)) = k
  BY <1>0, <1>1
<1>3. /\ Rest(s, k + 1) \in Seq(B) /\ Len(Rest(s, k + 1)) = Len(s) - k
      /\ \A j \in 1..Len(s) - k : Rest(s, k + 1)[j] = s[k + j]
  <2>1. k + 1 \in 1..Len(s) + 1 /\ Len(s) + 1 - (k + 1) = Len(s) - k
    BY <1>0
  <2>2. \A j \in 1..Len(s) - k : (k + 1) + j - 1 = k + j
    BY <1>0
  <2>3. /\ Rest(s, k + 1) \in Seq(B) /\ Len(Rest(s, k + 1)) = Len(s) + 1 - (k + 1)
        /\ \A j \in 1..Len(s) + 1 - (k + 1) : Rest(s, k + 1)[j] = s[(k + 1) + j - 1]
    BY <2>1, RestIs
  <2> HIDE <2>2
  <2> QED BY <2>1, <2>2, <2>3
<1> DEFINE a == SubSeq(s, 1, k)
           b == Rest(s, k + 1)
           c == Cat(a, b)
<1>4. c \in Seq(B) /\ Len(c) = Len(s)
  <2>0. a \in Seq(B) /\ b \in Seq(B) /\ Len(a) = k /\ Len(b) = Len(s) - k
    BY <1>2, <1>3, Zenon
  <2> HIDE DEF a, b
  <2>1. a \in Seq(B) /\ b \in Seq(B) /\ Len(a) + Len(b) = Len(s)
    BY <1>0, <2>0
  <2>2. a \o b \in Seq(B) /\ Len(a \o b) = Len(a) + Len(b)
    BY <2>1
  <2> QED BY <2>1, <2>2 DEF Cat
<1>5. \A j \in 1..Len(s) : c[j] = s[j]
  <2> TAKE j \in 1..Len(s)
  <2>1. CASE j <= k
    <3>1. (a \o b)[j] = a[j]
      BY <1>0, <1>2, <1>3, <2>1
    <3> QED BY <1>0, <1>1, <2>1, <3>1 DEF Cat
  <2>2. CASE j > k
    <3>1. (a \o b)[j] = b[j - k]
      BY <1>0, <1>2, <1>3, <2>2
    <3>2. j - k \in 1..Len(s) - k /\ k + (j - k) = j
      BY <1>0, <2>2
    <3>3. b[j - k] = s[k + (j - k)]
      BY <1>3, <3>2
    <3> QED BY <3>1, <3>2, <3>3 DEF Cat
  <2> QED BY <1>0, <2>1, <2>2
<1>6. c = s
  <2> HIDE DEF c
  <2> QED BY <1>4, <1>5
<1> QED BY <1>2, <1>3, <1>6

\* The beginning of a concatenation.
LEMMA CatParts ==
  ASSUME NEW B, NEW a \in Seq(B), NEW b \in Seq(B)
  PROVE  /\ Cat(a, b) \in Seq(B) /\ Len(Cat(a, b)) = Len(a) + Len(b)
         /\ Len(a) \in Nat /\ Len(b) \in Nat
         /\ SubSeq(Cat(a, b), 1, Len(a)) = a /\ Rest(Cat(a, b), Len(a) + 1) = b
         /\ \A j \in 1..Len(a) : Cat(a, b)[j] = a[j]
         /\ \A j \in 1..Len(b) : Cat(a, b)[Len(a) + j] = b[j]
         /\ \A k \in 0..Len(a) : SubSeq(Cat(a, b), 1, k) = SubSeq(a, 1, k)
<1> DEFINE c == a \o b
           n == Len(a)
           m == Len(b)
<1>0. n \in Nat /\ m \in Nat /\ c \in Seq(B) /\ Len(c) = n + m
  OBVIOUS
<1>1. \A j \in 1..n : c[j] = a[j]
  BY <1>0
<1>2. \A j \in 1..m : c[n + j] = b[j]
  <2> TAKE j \in 1..m
  <2>1. n + j \in 1..n + m /\ n + j > n /\ (n + j) - n = j
    BY <1>0
  <2> QED BY <1>0, <2>1
<1>3. \A k \in 0..n : SubSeq(c, 1, k) = SubSeq(a, 1, k)
  <2> TAKE k \in 0..n
  <2> DEFINE x == SubSeq(c, 1, k)
             y == SubSeq(a, 1, k)
  <2>1. k \in 0..Len(c)
    BY <1>0
  <2>2. \A j \in 1..k : x[j] = y[j]
    <3>1. k - 1 + 1 = k
      BY <1>0
    <3>2. x = [j \in 1..k |-> c[1 + j - 1]] /\ y = [j \in 1..k |-> a[1 + j - 1]]
      BY <3>1 DEF SubSeq
    <3>3. \A j \in 1..k : 1 + j - 1 = j /\ j \in 1..n
      BY <1>0
    <3> QED BY <1>1, <3>2, <3>3
  <2>3. x \in Seq(B) /\ y \in Seq(B) /\ Len(x) = k /\ Len(y) = k
    BY <1>0, <2>1, FirstIs
  <2> HIDE DEF x, y
  <2>4. x = y
    BY <2>2, <2>3
  <2> QED BY <2>4 DEF x, y
<1>4. SubSeq(a, 1, n) = a
  BY <1>0
<1>5. Rest(c, n + 1) = b
  <2>1. n + 1 \in 1..Len(c) + 1 /\ Len(c) + 1 - (n + 1) = m
    BY <1>0
  <2>2. /\ Rest(c, n + 1) \in Seq(B) /\ Len(Rest(c, n + 1)) = m
        /\ \A j \in 1..m : Rest(c, n + 1)[j] = c[(n + 1) + j - 1]
    <3> HIDE DEF c, n, m
    <3> QED BY <1>0, <2>1, RestIs
  <2>3. \A j \in 1..m : (n + 1) + j - 1 = n + j
    BY <1>0
  <2> HIDE DEF c, n
  <2>4. \A j \in 1..m : Rest(c, n + 1)[j] = b[j]
    BY <1>2, <2>2, <2>3
  <2> QED BY <2>2, <2>4
<1>6. n \in 0..n
  BY <1>0
<1> QED BY <1>0, <1>1, <1>2, <1>3, <1>4, <1>5, <1>6 DEF Cat

\* A prefix is what comes first.
LEMMA PrefixIs ==
  ASSUME NEW B, NEW s \in Seq(B), NEW t \in Seq(B)
  PROVE  IsPrefix(s, t) <=> \E r \in Seq(B) : t = Cat(s, r)
<1>0. Len(s) \in Nat /\ Len(t) \in Nat /\ SubSeq(s, 1, Len(s)) = s
  OBVIOUS
<1>1. ASSUME IsPrefix(s, t) PROVE \E r \in Seq(B) : t = Cat(s, r)
  <2>1. Len(s) \in 0..Len(t) /\ SubSeq(t, 1, Len(s)) = s
    BY <1>0, <1>1 DEF IsPrefix
  <2>2. t = Cat(SubSeq(t, 1, Len(s)), Rest(t, Len(s) + 1)) /\ Rest(t, Len(s) + 1) \in Seq(B)
    BY <2>1, FirstIs
  <2> QED BY <2>1, <2>2
<1>2. ASSUME NEW r \in Seq(B), t = Cat(s, r) PROVE IsPrefix(s, t)
  <2>0. /\ Len(Cat(s, r)) = Len(s) + Len(r) /\ Len(r) \in Nat
        /\ SubSeq(Cat(s, r), 1, Len(s)) = s
    BY CatParts
  <2>1. Len(s) <= Len(t) /\ SubSeq(t, 1, Len(s)) = s
    BY <1>0, <1>2, <2>0
  <2> QED BY <1>0, <2>1 DEF IsPrefix
<1> QED BY <1>1, <1>2

\* The ends of a set of numbers.
LEMMA BoundsOf ==
  ASSUME NEW n \in Nat, NEW S \in SUBSET (0..n), S # {}
  PROVE  /\ Max(S) \in S /\ \A x \in S : x <= Max(S)
         /\ Min(S) \in S /\ \A x \in S : Min(S) <= x
<1> DEFINE T == {x + 1 : x \in S}
<1>1. T \in SUBSET (1..n + 1) /\ T # {} /\ n + 1 \in Nat
  <2>1. \A x \in S : x + 1 \in 1..n + 1
    OBVIOUS
  <2>2. T # {}
    OBVIOUS
  <2> QED BY <2>1, <2>2
<1>2. /\ Max(T) \in T /\ \A x \in T : x <= Max(T)
      /\ Min(T) \in T /\ \A x \in T : Min(T) <= x
  <2> HIDE DEF T
  <2> QED BY <1>1, EndsOf
<1>3. PICK a \in S : Max(T) = a + 1
  BY <1>2
<1>4. PICK b \in S : Min(T) = b + 1
  BY <1>2
<1>5. \A x \in S : x + 1 \in T /\ x \in Int
  OBVIOUS
<1>6. \A x \in S : x <= a /\ b <= x
  <2> HIDE DEF T
  <2> QED BY <1>2, <1>3, <1>4, <1>5
<1>7. \A x \in S : a >= x
  BY <1>5, <1>6
<1>8. Max(S) \in S /\ \A x \in S : Max(S) >= x
  BY <1>7, Zenon DEF Max
<1>9. Min(S) \in S /\ \A x \in S : Min(S) =< x
  BY <1>6, Zenon DEF Min
<1> QED BY <1>5, <1>8, <1>9

\* A piece of what is left.
LEMMA RestPiece ==
  ASSUME NEW B, NEW s \in Seq(B), NEW i \in 1..Len(s) + 1, NEW k \in 0..Len(s) - i + 1
  PROVE  SubSeq(s, i, i + k - 1) = SubSeq(Rest(s, i), 1, k)
<1>0. Len(s) \in Nat /\ i \in Nat /\ k \in Nat
  OBVIOUS
<1>1. /\ Rest(s, i) \in Seq(B) /\ Len(Rest(s, i)) = Len(s) + 1 - i
      /\ \A j \in 1..Len(s) + 1 - i : Rest(s, i)[j] = s[i + j - 1]
  BY RestIs
<1>2. (i + k - 1) - i + 1 = k /\ k - 1 + 1 = k
  BY <1>0
<1>3. SubSeq(s, i, i + k - 1) = [j \in 1..k |-> s[i + j - 1]]
  BY <1>2 DEF SubSeq
<1>4. SubSeq(Rest(s, i), 1, k) = [j \in 1..k |-> Rest(s, i)[1 + j - 1]]
  BY <1>2 DEF SubSeq
<1>5. \A j \in 1..k : 1 + j - 1 = j /\ j \in 1..Len(s) + 1 - i
  BY <1>0
<1>6. \A j \in 1..k : Rest(s, i)[1 + j - 1] = s[i + j - 1]
  BY <1>1, <1>5
<1> QED BY <1>3, <1>4, <1>6

\* How much of s matches is a number of matching bytes, the greatest.
LEMMA MatchingIs ==
  ASSUME NEW B, NEW s \in Seq(B)
  PROVE  /\ Matching(s, 1) \in Matches(s) /\ \A k \in Matches(s) : k <= Matching(s, 1)
         /\ Matching(s, 1) \in 0..Len(s)
         /\ s # << >> => Taken(s) \in 1..Len(s)
         /\ Taken(s) = IF Matching(s, 1) = 0 THEN 1 ELSE Matching(s, 1)
<1>0. Len(s) \in Nat /\ (s # << >> => Len(s) >= 1)
  OBVIOUS
<1>1. Matches(s) \in SUBSET (0..Len(s)) /\ 0 \in Matches(s)
  BY <1>0 DEF Matches
<1>2. Matching(s, 1) = Max(Matches(s))
  <2>1. Len(s) - 1 + 1 = Len(s) /\ \A k \in 0..Len(s) : 1 + k - 1 = k
    BY <1>0
  <2> QED BY <2>1 DEF Matching, Matches
<1>3. Matching(s, 1) \in Matches(s) /\ \A k \in Matches(s) : k <= Matching(s, 1)
  <2>1. Matches(s) # {}
    BY <1>1
  <2>2. Max(Matches(s)) \in Matches(s) /\ \A k \in Matches(s) : k <= Max(Matches(s))
    BY <1>0, <1>1, <2>1, BoundsOf
  <2> QED BY <1>2, <2>2
<1> DEFINE m == Matching(s, 1)
<1>4. m \in 0..Len(s)
  BY <1>1, <1>3
<1>5. Taken(s) = IF m = 0 THEN 1 ELSE m
  <2>1. {m, 1} \in SUBSET (0..Len(s) + 1) /\ Len(s) + 1 \in Nat /\ {m, 1} # {}
    BY <1>0, <1>4
  <2>2. Taken(s) \in {m, 1} /\ \A x \in {m, 1} : x <= Taken(s)
    BY <2>1, BoundsOf DEF Taken
  <2> HIDE DEF m
  <2> QED BY <1>0, <1>4, <2>2
<1> HIDE DEF m
<1>6. s # << >> => Taken(s) \in 1..Len(s)
  BY <1>0, <1>4, <1>5
<1> QED BY <1>3, <1>4, <1>5, <1>6 DEF m

DecodeOut(B) == [s \in Seq(B) |-> <<Decoded(s)>>]
DecodeStep(B) == [s \in Seq(B) |-> Taken(s)]

\* Decoding reads.
LEMMA DecodingReads ==
  ASSUME NEW B
  PROVE  /\ Reads(B, Chars, DecodeOut(B), DecodeStep(B))
         /\ \A s \in Seq(B) : Decoded(s) \in Chars
<1>1. ASSUME NEW s \in Seq(B) PROVE Decoded(s) \in Chars
  <2> DEFINE found == Found(s, Matching(s, 1))
  <2>1. found \subseteq Scalars
    BY DEF Found
  <2>2. Decoded(s) = IF found = {} THEN Replacement ELSE CHOOSE x \in found : TRUE
    BY DEF Decoded
  <2>3. found # {} => (CHOOSE x \in found : TRUE) \in found
    <3> HIDE DEF found
    <3> QED BY Zenon
  <2> HIDE DEF found
  <2> QED BY <2>1, <2>2, <2>3 DEF Chars
<1>2. ASSUME NEW s \in Seq(B), s # << >>
      PROVE  DecodeOut(B)[s] \in Seq(Chars) /\ DecodeStep(B)[s] \in 1..Len(s)
  <2>1. Taken(s) \in 1..Len(s) /\ Decoded(s) \in Chars
    BY <1>1, <1>2, MatchingIs
  <2>2. <<Decoded(s)>> \in Seq(Chars)
    BY <2>1
  <2> QED BY <2>1, <2>2 DEF DecodeOut, DecodeStep
<1> QED BY <1>1, <1>2 DEF Reads

\* from_utf8_lossy is such a reading.
LEMMA LossyReads ==
  ASSUME NEW B, NEW s \in Seq(B)
  PROVE  \E f : ReadsAs(f, s, DecodeOut(B), DecodeStep(B)) /\ Lossy(s) = f[1]
<1> DEFINE n == Len(s)
           Body(g, i) ==
             IF i = n + 1 THEN << >>
             ELSE LET k == Matching(s, i)
                      found == {x \in Scalars : Utf8[x] = SubSeq(s, i, i + k - 1)}
                  IN <<IF found = {} THEN Replacement ELSE CHOOSE x \in found : TRUE>>
                       \o g[i + Max({k, 1})]
           from == CHOOSE g : g = [i \in 1..n + 1 |-> Body(g, i)]
<1>0. n \in Nat
  OBVIOUS
<1>1. \A i \in 1..n + 1 : \A g : Body(g, i) = ReadFrom(g, s, DecodeOut(B), DecodeStep(B), i)
  <2> TAKE i \in 1..n + 1
  <2> TAKE g
  <2> DEFINE r == Rest(s, i)
  <2>1. r \in Seq(B) /\ Len(r) = n + 1 - i
    BY RestIs
  <2>2. \A k \in 0..n - i + 1 : SubSeq(s, i, i + k - 1) = SubSeq(r, 1, k)
    BY RestPiece
  <2>3. n - i + 1 = Len(r)
    BY <1>0, <2>1
  <2> HIDE DEF r, n
  <2>4. Matching(s, i) = Max(Matches(r))
    <3> DEFINE A == {k \in 0..n - i + 1 :
                       k = 0 \/ \E x \in Scalars : IsPrefix(SubSeq(s, i, i + k - 1), Utf8[x])}
    <3>1. \A k \in 0..n - i + 1 : k \in A <=> k \in Matches(r)
      BY <2>2, <2>3 DEF Matches
    <3>2. A = Matches(r)
      <4>1. A \subseteq 0..n - i + 1 /\ Matches(r) \subseteq 0..n - i + 1
        BY <2>3 DEF Matches
      <4> HIDE DEF A
      <4> QED BY <3>1, <4>1
    <3>3. Matching(s, i) = Max(A)
      BY DEF Matching, n
    <3> HIDE DEF A
    <3> QED BY <3>2, <3>3
  <2>5. Matching(r, 1) = Max(Matches(r))
    <3>1. Len(r) \in Nat /\ Len(r) - 1 + 1 = Len(r) /\ \A k \in 0..Len(r) : 1 + k - 1 = k
      BY <1>0, <2>1
    <3> QED BY <3>1 DEF Matching, Matches
  <2>6. Matching(s, i) = Matching(r, 1) /\ Matching(r, 1) \in 0..Len(r)
    BY <2>1, <2>4, <2>5, MatchingIs
  <2>7. {x \in Scalars : Utf8[x] = SubSeq(s, i, i + Matching(s, i) - 1)} = Found(r, Matching(r, 1))
    BY <2>2, <2>3, <2>6 DEF Found
  <2>8. DecodeOut(B)[r] = <<Decoded(r)>> /\ DecodeStep(B)[r] = Taken(r)
    BY <2>1 DEF DecodeOut, DecodeStep
  <2>9. Taken(r) = Max({Matching(s, i), 1})
    BY <2>6 DEF Taken
  <2>10. Decoded(r) = LET found == {x \in Scalars : Utf8[x] = SubSeq(s, i, i + Matching(s, i) - 1)}
                      IN IF found = {} THEN Replacement ELSE CHOOSE x \in found : TRUE
    <3>1. Decoded(r) = IF Found(r, Matching(r, 1)) = {} THEN Replacement
                       ELSE CHOOSE x \in Found(r, Matching(r, 1)) : TRUE
      BY DEF Decoded
    <3> DEFINE A == {x \in Scalars : Utf8[x] = SubSeq(s, i, i + Matching(s, i) - 1)}
    <3>2. A = Found(r, Matching(r, 1))
      BY <2>7
    <3> HIDE DEF A
    <3>3. Decoded(r) = IF A = {} THEN Replacement ELSE CHOOSE x \in A : TRUE
      BY <3>1, <3>2
    <3> QED BY <3>3 DEF A
  <2>11. ReadFrom(g, s, DecodeOut(B), DecodeStep(B), i)
           = IF i = n + 1 THEN << >> ELSE Cat(<<Decoded(r)>>, g[i + Taken(r)])
    BY <2>8 DEF ReadFrom, r, n
  <2> QED BY <2>9, <2>10, <2>11 DEF Cat
<1>2. \E g : g = [i \in 1..n + 1 |-> Body(g, i)]
  <2>1. PICK g : ReadsAs(g, s, DecodeOut(B), DecodeStep(B))
    BY DecodingReads, ReadingExists
  <2>2. g = [i \in 1..n + 1 |-> ReadFrom(g, s, DecodeOut(B), DecodeStep(B), i)]
    BY <2>1 DEF ReadsAs
  <2> HIDE DEF Body
  <2> QED BY <1>1, <2>2
<1>3. from = [i \in 1..n + 1 |-> Body(from, i)]
  <2> HIDE DEF Body
  <2> QED BY <1>2, Zenon
<1>4. ReadsAs(from, s, DecodeOut(B), DecodeStep(B))
  <2> HIDE DEF Body, from
  <2> QED BY <1>1, <1>3 DEF ReadsAs
<1>5. Lossy(s) = from[1]
  BY DEF Lossy
<1> QED BY <1>4, <1>5

\* One character after the other.
LEMMA LossySteps ==
  ASSUME NEW B
  PROVE  /\ Lossy(<< >>) = << >>
         /\ \A s \in Seq(B) : Lossy(s) \in Seq(Chars)
         /\ \A s \in Seq(B) : s # << >> =>
              /\ Taken(s) \in 1..Len(s) /\ Decoded(s) \in Chars
              /\ Rest(s, Taken(s) + 1) \in Seq(B)
              /\ Lossy(s) = Onto(Decoded(s), Lossy(Rest(s, Taken(s) + 1)))
<1>1. Lossy(<< >>) = << >>
  <2>1. ASSUME NEW s \in Seq(B) PROVE s = << >> => Lossy(s) = << >>
    <3>1. PICK f : ReadsAs(f, s, DecodeOut(B), DecodeStep(B)) /\ Lossy(s) = f[1]
      BY LossyReads
    <3>2. f[1] \in Seq(Chars) /\ (s = << >> => f[1] = << >>)
      BY <3>1, DecodingReads, ReadingSteps
    <3> QED BY <3>1, <3>2
  <2>2. << >> \in Seq(B)
    OBVIOUS
  <2> QED BY <2>1, <2>2
<1>2. ASSUME NEW s \in Seq(B) PROVE Lossy(s) \in Seq(Chars)
  <2>1. PICK f : ReadsAs(f, s, DecodeOut(B), DecodeStep(B)) /\ Lossy(s) = f[1]
    BY LossyReads
  <2> QED BY <2>1, DecodingReads, ReadingSteps
<1>3. ASSUME NEW s \in Seq(B), s # << >>
      PROVE  /\ Taken(s) \in 1..Len(s) /\ Decoded(s) \in Chars
             /\ Rest(s, Taken(s) + 1) \in Seq(B)
             /\ Lossy(s) = Onto(Decoded(s), Lossy(Rest(s, Taken(s) + 1)))
  <2>1. Taken(s) \in 1..Len(s) /\ Decoded(s) \in Chars
    BY <1>3, MatchingIs, DecodingReads
  <2> DEFINE r == Rest(s, 1 + Taken(s))
  <2>2. Len(s) \in Nat /\ 1 + Taken(s) \in 1..Len(s) + 1 /\ 1 + Taken(s) = Taken(s) + 1
    BY <2>1
  <2>3. r \in Seq(B)
    BY <2>2, RestIs
  <2>4. PICK f : ReadsAs(f, s, DecodeOut(B), DecodeStep(B)) /\ Lossy(s) = f[1]
    BY LossyReads
  <2>5. PICK g : ReadsAs(g, r, DecodeOut(B), DecodeStep(B)) /\ Lossy(r) = g[1]
    BY <2>3, LossyReads
  <2>6. DecodeOut(B)[s] = <<Decoded(s)>> /\ DecodeStep(B)[s] = Taken(s)
    BY DEF DecodeOut, DecodeStep
  <2> HIDE DEF r
  <2>7. ReadsAs(g, Rest(s, 1 + DecodeStep(B)[s]), DecodeOut(B), DecodeStep(B))
    BY <2>5, <2>6 DEF r
  <2>8. f[1] = Cat(DecodeOut(B)[s], g[1])
    BY <1>3, <2>4, <2>7, DecodingReads, ReadingSteps
  <2>9. Lossy(s) = Onto(Decoded(s), Lossy(r))
    BY <2>4, <2>5, <2>6, <2>8 DEF Cat, Onto
  <2> QED BY <2>1, <2>2, <2>3, <2>9 DEF r
<1> QED BY <1>1, <1>2, <1>3

\* No scalar's bytes, nor the first of them, are partly in a and partly in b.
Clean(B, a, b) ==
  \A x \in Scalars : \A c, d, e, f, g \in Seq(B) :
    a = Cat(c, d) /\ b = Cat(e, f) /\ Utf8[x] = Cat(d, Cat(e, g)) => d = << >> \/ e = << >>

\* This depends on the end of a.
LEMMA CleanEnd ==
  ASSUME NEW B, NEW a0 \in Seq(B), NEW a \in Seq(B), NEW b \in Seq(B), Clean(B, Cat(a0, a), b)
  PROVE  Clean(B, a, b)
<1> SUFFICES ASSUME NEW x \in Scalars, NEW c \in Seq(B), NEW d \in Seq(B), NEW e \in Seq(B),
                    NEW f \in Seq(B), NEW g \in Seq(B),
                    a = Cat(c, d), b = Cat(e, f), Utf8[x] = Cat(d, Cat(e, g))
             PROVE  d = << >> \/ e = << >>
  BY DEF Clean
<1>1. Cat(a0, c) \in Seq(B) /\ Cat(a0, a) = Cat(Cat(a0, c), d)
  BY ConsAlgebra
<1> QED BY <1>1 DEF Clean

\* Where a is decoded is not changed by what follows it.
LEMMA DecodedSame ==
  ASSUME NEW B, Bytewise(B), NEW a \in Seq(B), NEW b \in Seq(B), a # << >>, Clean(B, a, b)
  PROVE  Taken(Cat(a, b)) = Taken(a) /\ Decoded(Cat(a, b)) = Decoded(a)
<1> DEFINE c == Cat(a, b)
           n == Len(a)
<1>0. /\ c \in Seq(B) /\ Len(c) = n + Len(b) /\ n \in Nat /\ Len(b) \in Nat
      /\ SubSeq(c, 1, n) = a
      /\ \A k \in 0..n : SubSeq(c, 1, k) = SubSeq(a, 1, k)
  <2>1. /\ Cat(a, b) \in Seq(B) /\ Len(Cat(a, b)) = Len(a) + Len(b)
        /\ Len(a) \in Nat /\ Len(b) \in Nat
        /\ SubSeq(Cat(a, b), 1, Len(a)) = a
    BY CatParts
  <2>2. \A k \in 0..Len(a) : SubSeq(Cat(a, b), 1, k) = SubSeq(a, 1, k)
    BY CatParts
  <2> QED BY <2>1, <2>2
<1>1. ASSUME NEW k \in 0..Len(c), k > n, NEW x \in Scalars, IsPrefix(SubSeq(c, 1, k), Utf8[x])
      PROVE  FALSE
  <2> DEFINE p == SubSeq(c, 1, k)
             q == Rest(c, k + 1)
  <2>1. p \in Seq(B) /\ Len(p) = k /\ q \in Seq(B) /\ c = Cat(p, q)
    BY <1>0, FirstIs
  <2>0. IsPrefix(p, Utf8[x])
    BY <1>1
  <2>2. n \in 0..Len(p)
    BY <1>0, <1>1, <2>1
  <2>3. \A j \in 0..k : SubSeq(Cat(p, q), 1, j) = SubSeq(p, 1, j)
    <3> HIDE DEF p, q
    <3> QED BY <2>1, CatParts
  <2>4. SubSeq(p, 1, n) = a
    BY <1>0, <2>1, <2>2, <2>3
  <2> DEFINE e == Rest(p, n + 1)
  <2> HIDE DEF c, p, q, n
  <2>5. p = Cat(a, e) /\ e \in Seq(B)
    BY <2>1, <2>2, <2>4, FirstIs
  <2>6. e # << >>
    <3>1. e = << >> => p = a
      BY <2>5, ConsAlgebra
    <3> QED BY <1>0, <1>1, <2>1, <3>1 DEF n
  <2>7. b = Cat(e, q)
    <3>1. Cat(a, b) = Cat(a, Cat(e, q))
      BY <2>1, <2>5, ConsAlgebra DEF c
    <3>2. Rest(Cat(a, b), Len(a) + 1) = b /\ Cat(e, q) \in Seq(B)
      BY <2>1, <2>5, CatParts
    <3>3. Rest(Cat(a, Cat(e, q)), Len(a) + 1) = Cat(e, q)
      BY <3>2, CatParts
    <3> QED BY <3>1, <3>2, <3>3
  <2>8. PICK g \in Seq(B) : Utf8[x] = Cat(p, g)
    <3>1. Utf8[x] \in Seq(B)
      BY DEF Bytewise
    <3> QED BY <2>0, <2>1, <3>1, PrefixIs
  <2>9. Utf8[x] = Cat(a, Cat(e, g))
    BY <2>5, <2>8, ConsAlgebra
  <2>10. << >> \in Seq(B) /\ a = Cat(<< >>, a)
    BY ConsAlgebra
  <2>11. a = << >> \/ e = << >>
    BY <2>1, <2>5, <2>7, <2>8, <2>9, <2>10 DEF Clean
  <2> QED BY <2>6, <2>11
<1>2. ASSUME NEW k PROVE k \in Matches(c) <=> k \in Matches(a)
  <2>1. ASSUME k \in Matches(a) PROVE k \in Matches(c)
    <3>1. k \in 0..n
      BY <2>1 DEF Matches
    <3>2. k \in 0..Len(c) /\ SubSeq(c, 1, k) = SubSeq(a, 1, k)
      BY <1>0, <3>1
    <3> QED BY <2>1, <3>2 DEF Matches
  <2>2. ASSUME k \in Matches(c) PROVE k \in Matches(a)
    <3>1. k \in 0..Len(c)
      BY <2>2 DEF Matches
    <3>2. k <= n
      BY <1>0, <1>1, <2>2, <3>1 DEF Matches
    <3>3. k \in 0..n
      BY <1>0, <3>1, <3>2
    <3> QED BY <1>0, <2>2, <3>3 DEF Matches
  <2> QED BY <2>1, <2>2
<1> HIDE DEF c
<1>3. Matching(c, 1) = Matching(a, 1) /\ Matching(a, 1) \in 0..n
  <2>1. /\ Matching(c, 1) \in Matches(c) /\ \A k \in Matches(c) : k <= Matching(c, 1)
        /\ Matching(c, 1) \in 0..Len(c)
    BY <1>0, MatchingIs
  <2>2. /\ Matching(a, 1) \in Matches(a) /\ \A k \in Matches(a) : k <= Matching(a, 1)
        /\ Matching(a, 1) \in 0..n
    BY MatchingIs
  <2>3. Matching(c, 1) <= Matching(a, 1) /\ Matching(a, 1) <= Matching(c, 1)
    BY <1>2, <2>1, <2>2
  <2> QED BY <1>0, <2>1, <2>2, <2>3
<1>4. Found(c, Matching(c, 1)) = Found(a, Matching(a, 1))
  BY <1>0, <1>3 DEF Found
<1>5. Taken(c) = Taken(a)
  BY <1>3 DEF Taken
<1>6. Decoded(c) = Decoded(a)
  <2> DEFINE A == Found(a, Matching(a, 1))
             C == Found(c, Matching(c, 1))
  <2>1. Decoded(a) = IF A = {} THEN Replacement ELSE CHOOSE x \in A : TRUE
    BY DEF Decoded
  <2>2. Decoded(c) = IF C = {} THEN Replacement ELSE CHOOSE x \in C : TRUE
    BY DEF Decoded
  <2>3. A = C
    BY <1>4
  <2> HIDE DEF A, C
  <2> QED BY <2>1, <2>2, <2>3
<1> QED BY <1>5, <1>6 DEF c

\* Where no scalar is cut, both sides are decoded on their own.
LEMMA LossyCat ==
  ASSUME NEW B, Bytewise(B)
  PROVE  \A a, b \in Seq(B) : Clean(B, a, b) => Lossy(Cat(a, b)) = Cat(Lossy(a), Lossy(b))
<1> DEFINE Q == {a \in Seq(B) : \A b \in Seq(B) :
                   Clean(B, a, b) => Lossy(Cat(a, b)) = Cat(Lossy(a), Lossy(b))}
<1>1. ASSUME NEW a \in Seq(B), \A t \in Seq(B) : Len(t) < Len(a) => t \in Q
      PROVE  a \in Q
  <2> SUFFICES ASSUME NEW b \in Seq(B), Clean(B, a, b)
               PROVE  Lossy(Cat(a, b)) = Cat(Lossy(a), Lossy(b))
    OBVIOUS
  <2>0. Lossy(b) \in Seq(Chars)
    BY LossySteps
  <2>1. CASE a = << >>
    <3>1. Cat(a, b) = b /\ Cat(<< >>, Lossy(b)) = Lossy(b)
      BY <2>0, <2>1, ConsAlgebra
    <3> QED BY <2>1, <3>1, LossySteps
  <2>2. CASE a # << >>
    <3> DEFINE c == Cat(a, b)
               n == Taken(a)
               r == Rest(a, n + 1)
               x == Decoded(a)
               h == SubSeq(a, 1, n)
    <3>1. /\ n \in 1..Len(a) /\ x \in Chars /\ r \in Seq(B) /\ Lossy(a) = Onto(x, Lossy(r))
      BY <2>2, LossySteps
    <3>2. Len(a) \in Nat /\ n \in 0..Len(a)
      BY <3>1
    <3>3. h \in Seq(B) /\ Len(h) = n /\ a = Cat(h, r)
      BY <3>2, FirstIs
    <3>4. Taken(c) = n /\ Decoded(c) = x
      BY <2>2, DecodedSame
    <3> HIDE DEF n, r, x, h
    <3>5. c = Cat(h, Cat(r, b)) /\ Cat(r, b) \in Seq(B) /\ c \in Seq(B)
      BY <3>1, <3>3, ConsAlgebra
    <3>6. c # << >>
      BY <2>2, ConsAlgebra
    <3>7. Rest(c, n + 1) = Cat(r, b)
      <4>1. \A y \in Seq(B) : Rest(Cat(h, y), Len(h) + 1) = y
        BY <3>3, CatParts
      <4> HIDE DEF c
      <4> QED BY <3>3, <3>5, <4>1
    <3> HIDE DEF c
    <3>8. Lossy(c) = Onto(x, Lossy(Cat(r, b)))
      <4>1. Lossy(c) = Onto(Decoded(c), Lossy(Rest(c, Taken(c) + 1)))
        BY <3>5, <3>6, LossySteps
      <4> QED BY <3>4, <3>7, <4>1
    <3>9. Clean(B, r, b)
      BY <3>1, <3>3, CleanEnd
    <3>10. Len(r) < Len(a)
      <4>1. Len(Cat(h, r)) = Len(h) + Len(r) /\ Len(r) \in Nat
        BY <3>1, <3>3, CatParts
      <4> QED BY <3>1, <3>3, <4>1
    <3>11. Lossy(Cat(r, b)) = Cat(Lossy(r), Lossy(b))
      BY <1>1, <3>1, <3>9, <3>10
    <3>12. Lossy(r) \in Seq(Chars)
      BY <3>1, LossySteps
    <3>13. Onto(x, Cat(Lossy(r), Lossy(b))) = Cat(Onto(x, Lossy(r)), Lossy(b))
      BY <2>0, <3>1, <3>12, ConsAlgebra
    <3> QED BY <3>1, <3>8, <3>11, <3>13 DEF c
  <2> QED BY <2>1, <2>2
<1>2. \A a \in Seq(B) : a \in Q
  <2> HIDE DEF Q
  <2> QED BY <1>1, SeqInd
<1> QED BY <1>2

\* Of a scalar's bytes only the first is no continuation byte.
LEMMA Utf8Bytes ==
  ASSUME NEW x \in Scalars
  PROVE  /\ Len(Utf8[x]) \in 1..4 /\ Utf8[x] # << >>
         /\ Utf8[x][1] \notin Continuation
         /\ \A j \in 2..Len(Utf8[x]) : Utf8[x][j] \in Continuation
         /\ \A y \in Scalars : IsPrefix(Utf8[x], Utf8[y]) => x = y
<1>1. /\ Utf8[x] \in Seq(Elements(Utf8[x])) /\ Len(Utf8[x]) \in 1..4
      /\ Head(Utf8[x]) \notin Continuation
      /\ \A y \in Scalars : x # y => ~IsPrefix(Utf8[x], Utf8[y])
  BY ChunksAssumption
<1> DEFINE u == Utf8[x]
           W == Elements(Utf8[x])
<1>2. u \in Seq(W) /\ Len(u) \in 1..4
  BY <1>1
<1> HIDE DEF u, W
<1>3. u # << >> /\ Head(u) = u[1]
  BY <1>2
<1>4. \A j \in 2..Len(u) : u[j] \in Elements(Tail(u))
  <2> TAKE j \in 2..Len(u)
  <2>1. Tail(u) \in Seq(W) /\ Len(Tail(u)) = Len(u) - 1
    BY <1>2, <1>3
  <2>2. j - 1 \in 1..Len(u) - 1 /\ (j - 1) + 1 = j
    BY <1>2
  <2>3. Tail(u)[j - 1] = u[(j - 1) + 1]
    BY <1>2, <1>3, <2>2
  <2>4. j - 1 \in DOMAIN Tail(u)
    BY <2>1, <2>2
  <2> QED BY <2>2, <2>3, <2>4 DEF Elements
<1>5. Elements(Tail(u)) \subseteq Continuation
  BY DEF Continuation, u
<1> QED BY <1>1, <1>2, <1>3, <1>4, <1>5 DEF u

\* A scalar's bytes are read as that scalar.
LEMMA ScalarDecodes ==
  ASSUME NEW B, Bytewise(B), NEW x \in Scalars, NEW r \in Seq(B)
  PROVE  Lossy(Cat(Utf8[x], r)) = Onto(x, Lossy(r))
<1> DEFINE u == Utf8[x]
           s == Cat(u, r)
           n == Len(u)
<1>0. u \in Seq(B) /\ n \in 1..4 /\ u # << >>
  BY Utf8Bytes DEF Bytewise
<1> HIDE DEF u
<1>1. /\ s \in Seq(B) /\ Len(s) = n + Len(r) /\ Len(r) \in Nat
      /\ SubSeq(s, 1, n) = u /\ Rest(s, n + 1) = r
  <2>1. /\ Cat(u, r) \in Seq(B) /\ Len(Cat(u, r)) = Len(u) + Len(r) /\ Len(r) \in Nat
        /\ SubSeq(Cat(u, r), 1, Len(u)) = u /\ Rest(Cat(u, r), Len(u) + 1) = r
    BY <1>0, CatParts
  <2> QED BY <2>1
<1>2. n \in Matches(s)
  <2>1. IsPrefix(u, u)
    BY DEF IsPrefix
  <2>2. n \in 0..Len(s)
    BY <1>0, <1>1
  <2> QED BY <1>1, <2>1, <2>2 DEF Matches, u
<1>3. ASSUME NEW k \in Matches(s), k > n PROVE FALSE
  <2>1. k \in 0..Len(s) /\ k # 0
    BY <1>0, <1>3 DEF Matches
  <2> DEFINE p == SubSeq(s, 1, k)
  <2>2. PICK y \in Scalars : IsPrefix(p, Utf8[y])
    BY <1>3, <2>1 DEF Matches
  <2>3. p \in Seq(B) /\ Len(p) = k
    BY <1>1, <2>1, FirstIs
  <2>4. Utf8[y] \in Seq(B)
    BY DEF Bytewise
  <2>5. SubSeq(p, 1, n) = u
    <3>1. n \in 0..k
      BY <1>0, <1>3, <2>1
    <3>2. s = Cat(p, Rest(s, k + 1)) /\ Rest(s, k + 1) \in Seq(B)
      BY <1>1, <2>1, FirstIs
    <3>3. \A z \in Seq(B) : \A j \in 0..Len(p) : SubSeq(Cat(p, z), 1, j) = SubSeq(p, 1, j)
      <4> HIDE DEF p, s, n
      <4>1. p \in Seq(B)
        BY <2>3
      <4>2. \A w, z \in Seq(B) : \A j \in 0..Len(w) : SubSeq(Cat(w, z), 1, j) = SubSeq(w, 1, j)
        <5> TAKE w, z \in Seq(B)
        <5>1. w \in Seq(B) /\ z \in Seq(B)
          OBVIOUS
        <5> QED BY ONLY <5>1, CatParts
      <4> QED BY <4>1, <4>2
    <3> HIDE DEF p, s
    <3>4. SubSeq(s, 1, n) = SubSeq(p, 1, n)
      BY <2>3, <3>1, <3>2, <3>3
    <3> QED BY <1>1, <3>4
  <2> HIDE DEF p, s
  <2>6. PICK g \in Seq(B) : Utf8[y] = Cat(p, g)
    BY <2>2, <2>3, <2>4, PrefixIs
  <2>7. n \in 0..Len(p)
    BY <1>0, <1>3, <2>1, <2>3
  <2>8. p = Cat(u, Rest(p, n + 1)) /\ Rest(p, n + 1) \in Seq(B)
    BY <2>3, <2>5, <2>7, FirstIs
  <2>9. Utf8[y] = Cat(u, Cat(Rest(p, n + 1), g)) /\ Cat(Rest(p, n + 1), g) \in Seq(B)
    BY <1>0, <2>6, <2>8, ConsAlgebra
  <2>10. IsPrefix(u, Utf8[y])
    BY <1>0, <2>4, <2>9, PrefixIs
  <2>11. x = y
    BY <2>10, Utf8Bytes DEF u
  <2>12. Len(Utf8[y]) = Len(p) + Len(g) /\ Len(g) \in Nat
    <3>1. Len(Cat(p, g)) = Len(p) + Len(g) /\ Len(g) \in Nat
      BY <2>3, CatParts
    <3> QED BY <2>6, <3>1
  <2> QED BY <1>0, <1>3, <2>1, <2>3, <2>11, <2>12 DEF u
<1> HIDE DEF s
<1>4. Matching(s, 1) = n
  <2>1. Matching(s, 1) \in Matches(s) /\ n <= Matching(s, 1) /\ Matching(s, 1) \in 0..Len(s)
    BY <1>1, <1>2, MatchingIs
  <2>2. ~(Matching(s, 1) > n)
    BY <1>3, <2>1
  <2> QED BY <1>0, <2>1, <2>2
<1>5. Taken(s) = n
  BY <1>0, <1>1, <1>4, MatchingIs
<1>6. Decoded(s) = x
  <2> DEFINE A == Found(s, Matching(s, 1))
  <2>1. A = {x}
    <3>1. x \in A
      BY <1>1, <1>4 DEF Found, u
    <3>2. ASSUME NEW y \in A PROVE y = x
      <4>1. y \in Scalars /\ Utf8[y] = Utf8[x]
        BY <1>1, <1>4 DEF Found, u
      <4>2. IsPrefix(Utf8[x], Utf8[y])
        BY <4>1 DEF IsPrefix
      <4> QED BY <4>1, <4>2, Utf8Bytes
    <3> HIDE DEF A
    <3> QED BY <3>1, <3>2
  <2>2. Decoded(s) = IF A = {} THEN Replacement ELSE CHOOSE y \in A : TRUE
    BY DEF Decoded
  <2> HIDE DEF A
  <2> QED BY <2>1, <2>2
<1>7. s # << >>
  <2>1. Len(s) # 0
    BY <1>0, <1>1
  <2> QED BY <2>1
<1>8. Lossy(s) = Onto(Decoded(s), Lossy(Rest(s, Taken(s) + 1)))
  BY <1>1, <1>7, LossySteps
<1> QED BY <1>1, <1>5, <1>6, <1>8 DEF s, u

\* A character that was not put for broken bytes is what was read.
LEMMA DecodedIs ==
  ASSUME NEW B, Bytewise(B), NEW s \in Seq(B), s # << >>, Decoded(s) # Replacement
  PROVE  Decoded(s) \in Scalars /\ s = Cat(Utf8[Decoded(s)], Rest(s, Taken(s) + 1))
<1> DEFINE m == Matching(s, 1)
           A == Found(s, m)
<1>1. Decoded(s) = IF A = {} THEN Replacement ELSE CHOOSE y \in A : TRUE
  BY DEF Decoded
<1>2. Decoded(s) \in A
  <2> HIDE DEF A
  <2> QED BY <1>1
<1>3. Decoded(s) \in Scalars /\ Utf8[Decoded(s)] = SubSeq(s, 1, m)
  BY <1>2 DEF Found
<1>4. m \in 0..Len(s) /\ Taken(s) = IF m = 0 THEN 1 ELSE m
  BY MatchingIs
<1>5. m # 0
  <2>1. SubSeq(s, 1, 0) = << >>
    OBVIOUS
  <2> QED BY <1>3, <2>1, Utf8Bytes
<1> HIDE DEF m
<1>6. s = Cat(SubSeq(s, 1, m), Rest(s, m + 1))
  BY <1>4, FirstIs
<1> QED BY <1>3, <1>4, <1>5, <1>6

\* Where the bytes of the file may be cut: at its ends, before a byte that
\* begins a scalar, after a newline, or after as many continuation bytes as no
\* scalar has.
Divides(s, p) ==
  \/ p = 0
  \/ p = Len(s)
  \/ s[p + 1] \notin Continuation
  \/ s[p] = Utf8[Newline][1]
  \/ p >= 4 /\ \A j \in p - 3..p : s[j] \in Continuation

\* No scalar is cut there.
LEMMA DividesCleanly ==
  ASSUME NEW B, Bytewise(B), NEW s \in Seq(B), NEW p \in 0..Len(s), Divides(s, p)
  PROVE  Clean(B, SubSeq(s, 1, p), Rest(s, p + 1))
<1> DEFINE a == SubSeq(s, 1, p)
           b == Rest(s, p + 1)
<1>0. a \in Seq(B) /\ b \in Seq(B) /\ Len(a) = p /\ s = Cat(a, b) /\ Len(s) \in Nat /\ p \in Nat
  BY FirstIs
<1>a. \A y, z \in Seq(B) :
        /\ Cat(y, z) \in Seq(B) /\ Len(Cat(y, z)) = Len(y) + Len(z)
        /\ Len(y) \in Nat /\ Len(z) \in Nat
        /\ \A j \in 1..Len(y) : Cat(y, z)[j] = y[j]
        /\ \A j \in 1..Len(z) : Cat(y, z)[Len(y) + j] = z[j]
  <2> TAKE y, z \in Seq(B)
  <2> QED BY CatParts, Zenon
<1>b. \A v \in Seq(B) : Len(v) >= 1 => SubSeq(v, 1, 1) = <<v[1]>>
  <2> TAKE v \in Seq(B)
  <2> SUFFICES ASSUME Len(v) >= 1 PROVE SubSeq(v, 1, 1) = <<v[1]>>
    OBVIOUS
  <2>1. Len(v) \in Nat /\ 1 \in 0..Len(v)
    OBVIOUS
  <2> DEFINE w == SubSeq(v, 1, 1)
  <2>2. w \in Seq(B) /\ Len(w) = 1
    BY <2>1, FirstIs
  <2>3. w[1] = v[1]
    OBVIOUS
  <2> HIDE DEF w
  <2>4. w = <<v[1]>>
    BY <2>2, <2>3
  <2> QED BY <2>4 DEF w
<1> SUFFICES ASSUME NEW x \in Scalars, NEW c \in Seq(B), NEW d \in Seq(B), NEW e \in Seq(B),
                    NEW f \in Seq(B), NEW g \in Seq(B),
                    a = Cat(c, d), b = Cat(e, f), Utf8[x] = Cat(d, Cat(e, g)),
                    d # << >>, e # << >>
             PROVE  FALSE
  BY DEF Clean
<1> DEFINE u == Utf8[x]
           n == Len(d)
<1> HIDE DEF a, b, u
<1>1. /\ n \in Nat /\ n > 0 /\ Len(e) \in Nat /\ Len(e) > 0 /\ Len(g) \in Nat /\ Len(f) \in Nat
      /\ Len(c) \in Nat
  <2>1. \A z \in Seq(B) : Len(z) \in Nat /\ (z # << >> => Len(z) > 0)
    OBVIOUS
  <2> QED BY <2>1
<1>2. /\ Len(u) = n + Len(Cat(e, g)) /\ \A j \in 1..n : u[j] = d[j]
      /\ \A j \in 1..Len(Cat(e, g)) : u[n + j] = Cat(e, g)[j]
  <2>1. Cat(e, g) \in Seq(B) /\ u = Cat(d, Cat(e, g))
    BY <1>a DEF u
  <2> DEFINE h == Cat(e, g)
  <2> HIDE DEF h
  <2>2. /\ Len(Cat(d, h)) = Len(d) + Len(h) /\ \A j \in 1..Len(d) : Cat(d, h)[j] = d[j]
        /\ \A j \in 1..Len(h) : Cat(d, h)[Len(d) + j] = h[j]
    BY <1>a, <2>1, Zenon DEF h
  <2> QED BY <2>1, <2>2, Zenon DEF h, n
<1>3. Len(Cat(e, g)) = Len(e) + Len(g) /\ \A j \in 1..Len(e) : Cat(e, g)[j] = e[j]
  BY <1>a
<1>4. p = Len(c) + n /\ \A j \in 1..n : a[Len(c) + j] = d[j]
  <2>1. /\ Len(Cat(c, d)) = Len(c) + Len(d)
        /\ \A j \in 1..Len(d) : Cat(c, d)[Len(c) + j] = d[j]
    BY <1>a, Zenon
  <2> QED BY <1>0, <2>1, Zenon
<1>5. Len(b) = Len(e) + Len(f) /\ \A j \in 1..Len(e) : b[j] = e[j]
  <2>1. /\ Len(Cat(e, f)) = Len(e) + Len(f)
        /\ \A j \in 1..Len(e) : Cat(e, f)[j] = e[j]
    BY <1>a, Zenon
  <2> QED BY <2>1, Zenon
<1>6. /\ Len(s) = p + Len(b) /\ \A j \in 1..p : s[j] = a[j]
      /\ \A j \in 1..Len(b) : s[p + j] = b[j]
  <2>0. a \in Seq(B) /\ b \in Seq(B)
    BY <1>0
  <2>1. /\ Len(Cat(a, b)) = Len(a) + Len(b)
        /\ \A j \in 1..Len(a) : Cat(a, b)[j] = a[j]
        /\ \A j \in 1..Len(b) : Cat(a, b)[Len(a) + j] = b[j]
    BY <1>a, <2>0, Zenon
  <2> QED BY <1>0, <2>1, Zenon
<1> HIDE DEF n
<1>7. u[n + 1] = s[p + 1] /\ n + 1 <= Len(u) /\ 0 < p /\ p < Len(s)
  <2>1. 1 \in 1..Len(e) /\ 1 \in 1..Len(b) /\ 1 \in 1..Len(Cat(e, g))
    BY <1>1, <1>3, <1>5
  <2>2. u[n + 1] = e[1] /\ s[p + 1] = e[1]
    BY <1>2, <1>3, <1>5, <1>6, <2>1
  <2> QED BY <1>1, <1>2, <1>3, <1>4, <1>5, <1>6, <2>2
<1>8. \A j \in 1..n : u[j] = s[p - n + j]
  <2> TAKE j \in 1..n
  <2>1. Len(c) + j \in 1..p /\ Len(c) + j = p - n + j
    BY <1>0, <1>1, <1>4
  <2> QED BY <1>2, <1>4, <1>6, <2>1
<1>9. /\ Len(u) \in 1..4 /\ u[1] \notin Continuation
      /\ \A j \in 2..Len(u) : u[j] \in Continuation
      /\ \A y \in Scalars : IsPrefix(u, Utf8[y]) => x = y
  BY Utf8Bytes DEF u
<1>10. s[p + 1] \in Continuation
  <2>1. n + 1 \in 2..Len(u)
    BY <1>1, <1>7, <1>9
  <2> QED BY <1>7, <1>9, <2>1
<1>11. s[p] # Utf8[Newline][1]
  <2> SUFFICES ASSUME s[p] = Utf8[Newline][1] PROVE FALSE
    OBVIOUS
  <2>1. n \in 1..n /\ p - n + n = p
    BY <1>0, <1>1
  <2>2. u[n] = Utf8[Newline][1]
    BY <1>8, <2>1
  <2>3. Newline \in Scalars /\ Len(Utf8[Newline]) = 1 /\ Utf8[Newline][1] \notin Continuation
    BY ChunksAssumption, Utf8Bytes
  <2>4. n = 1
    <3>1. n \notin 2..Len(u)
      BY <1>9, <2>2, <2>3
    <3> QED BY <1>1, <1>7, <1>9, <3>1
  <2>5. Utf8[Newline] \in Seq(B) /\ u \in Seq(B)
    BY <2>3 DEF Bytewise, u
  <2>6. SubSeq(u, 1, 1) = <<u[1]>> /\ Utf8[Newline] = <<Utf8[Newline][1]>>
    <3>1. \A v \in Seq(B) : Len(v) = 1 => v = <<v[1]>>
      OBVIOUS
    <3>3. SubSeq(u, 1, 1) = <<u[1]>>
      BY <1>9, <1>b, <2>5
    <3> QED BY <2>3, <2>5, <3>1, <3>3
  <2>7. IsPrefix(Utf8[Newline], u)
    BY <1>9, <2>2, <2>3, <2>4, <2>6 DEF IsPrefix
  <2>8. x = Newline
    BY <2>3, <2>7, Utf8Bytes DEF u
  <2>9. Len(u) = 1
    BY <2>3, <2>8 DEF u
  <2> QED BY <1>1, <1>7, <2>9
<1>12. ~(p >= 4 /\ \A j \in p - 3..p : s[j] \in Continuation)
  <2>0. Len(u) \in 1..4
    BY <1>9
  <2>1. 1 \in 1..n /\ n <= 3
    <3>1. \A m \in Nat, l \in 1..4 : m > 0 /\ m + 1 <= l => 1 \in 1..m /\ m <= 3
      OBVIOUS
    <3> QED BY <1>1, <1>7, <2>0, <3>1
  <2>2. u[1] = s[p - n + 1]
    BY <1>8, <2>1
  <2>3. p - n + 1 \in p - 3..p
    BY <1>0, <1>1, <2>1
  <2> QED BY <1>9, <2>2, <2>3
<1> QED BY <1>7, <1>10, <1>11, <1>12 DEF Divides

\* What follows b does not matter.
LEMMA CleanStart ==
  ASSUME NEW B, NEW a \in Seq(B), NEW b \in Seq(B), NEW r \in Seq(B), Clean(B, a, Cat(b, r))
  PROVE  Clean(B, a, b)
<1> SUFFICES ASSUME NEW x \in Scalars, NEW c \in Seq(B), NEW d \in Seq(B), NEW e \in Seq(B),
                    NEW f \in Seq(B), NEW g \in Seq(B),
                    a = Cat(c, d), b = Cat(e, f), Utf8[x] = Cat(d, Cat(e, g))
             PROVE  d = << >> \/ e = << >>
  BY DEF Clean
<1>1. Cat(f, r) \in Seq(B) /\ Cat(b, r) = Cat(e, Cat(f, r))
  BY ConsAlgebra
<1> QED BY <1>1 DEF Clean

-----------------------------------------------------------------------------
(* Reading and finding. *)

\* A part of a sequence.
LEMMA PartIs ==
  ASSUME NEW B, NEW s \in Seq(B), NEW a \in Nat, NEW b \in Nat, a <= b, b <= Len(s)
  PROVE  /\ SubSeq(s, a + 1, b) \in Seq(B) /\ Len(SubSeq(s, a + 1, b)) = b - a
         /\ \A j \in 1..b - a : SubSeq(s, a + 1, b)[j] = s[a + j]
<1> DEFINE r == SubSeq(s, a + 1, b)
<1>0. Len(s) \in Nat /\ b - a \in Nat /\ b - (a + 1) + 1 = b - a
  OBVIOUS
<1>1. r = [j \in 1..b - a |-> s[(a + 1) + j - 1]]
  BY <1>0 DEF SubSeq
<1>2. \A j \in 1..b - a : (a + 1) + j - 1 = a + j /\ a + j \in 1..Len(s)
  BY <1>0
<1>3. \A j \in 1..b - a : s[a + j] \in B
  BY <1>2
<1>4. \A j \in 1..b - a : r[j] = s[a + j]
  BY <1>1, <1>2
<1>5. r = [j \in 1..b - a |-> r[j]]
  BY <1>1
<1> DEFINE m == b - a
<1> HIDE DEF r, m
<1>6. m \in Nat /\ (\A j \in 1..m : r[j] \in B) /\ r = [j \in 1..m |-> r[j]]
  BY <1>0, <1>3, <1>4, <1>5 DEF m
<1>7. r \in Seq(B) /\ Len(r) = m
  BY <1>6
<1> QED BY <1>4, <1>7 DEF r, m

\* The lesser of two numbers.
LEMMA LesserOf ==
  ASSUME NEW a \in Nat, NEW b \in Nat
  PROVE  /\ Min({a, b}) = IF a <= b THEN a ELSE b
         /\ Max({a, b}) = IF a <= b THEN b ELSE a
<1>1. /\ Min({a, b}) \in {a, b} /\ \A x \in {a, b} : Min({a, b}) <= x
      /\ Max({a, b}) \in {a, b} /\ \A x \in {a, b} : x <= Max({a, b})
  <2> DEFINE S == {a, b}
             n == a + b
  <2>1. n \in Nat /\ S \in SUBSET (0..n) /\ S # {}
    OBVIOUS
  <2> HIDE DEF S, n
  <2>2. Max(S) \in S /\ (\A x \in S : x <= Max(S)) /\ Min(S) \in S /\ (\A x \in S : Min(S) <= x)
    BY <2>1, BoundsOf
  <2> QED BY <2>2 DEF S
<1> QED BY <1>1

\* What is read at an offset: as many bytes as are asked for, or the last ones.
LEMMA ReadIs ==
  ASSUME NEW B, NEW s \in Seq(B), NEW from \in Nat, NEW n \in Nat
  PROVE  LET r == Read(s, from, n)
         IN /\ r \in Seq(B) /\ \A j \in 1..Len(r) : r[j] = s[from + j]
            /\ from <= Len(s) => Len(r) = IF from + n <= Len(s) THEN n ELSE Len(s) - from
            /\ from > Len(s) => Len(r) = 0
<1> DEFINE b == Min({from + n, Len(s)})
<1>0. Len(s) \in Nat /\ from + n \in Nat
  OBVIOUS
<1>1. b = IF from + n <= Len(s) THEN from + n ELSE Len(s)
  BY <1>0, LesserOf
<1>2. b \in Nat /\ b <= Len(s) /\ Read(s, from, n) = SubSeq(s, from + 1, b)
  BY <1>0, <1>1 DEF Read
<1> HIDE DEF b
<1>3. CASE from <= b
  <2>1. /\ SubSeq(s, from + 1, b) \in Seq(B) /\ Len(SubSeq(s, from + 1, b)) = b - from
        /\ \A j \in 1..b - from : SubSeq(s, from + 1, b)[j] = s[from + j]
    BY <1>2, <1>3, PartIs
  <2> DEFINE r == SubSeq(s, from + 1, b)
  <2>2. Read(s, from, n) = r
    BY <1>2
  <2>3. r \in Seq(B) /\ Len(r) = b - from /\ \A j \in 1..Len(r) : r[j] = s[from + j]
    BY <2>1
  <2> HIDE DEF r
  <2>4. Len(r) = IF from + n <= Len(s) THEN n ELSE Len(s) - from
    BY <1>0, <1>1, <2>3
  <2>5. from <= Len(s)
    BY <1>0, <1>2, <1>3
  <2> QED BY <1>0, <2>2, <2>3, <2>4, <2>5
<1>4. CASE from > b
  <2>1. SubSeq(s, from + 1, b) = << >>
    BY <1>2, <1>4
  <2>2. from > Len(s)
    BY <1>0, <1>1, <1>4
  <2> QED BY <1>2, <2>1, <2>2
<1> QED BY <1>2, <1>3, <1>4

\* Where a sequence occurs.
LEMMA OccurrenceIs ==
  ASSUME NEW B, NEW t \in Seq(B), NEW s \in Seq(B), NEW p
  PROVE  /\ p \in Occurrences(t, s) <=>
              p \in Nat /\ p + Len(t) <= Len(s) /\ \A j \in 1..Len(t) : s[p + j] = t[j]
         /\ p \in Occurrences(t, s) <=>
              \E a, b \in Seq(B) : s = Cat(a, Cat(t, b)) /\ Len(a) = p
<1>0. Len(s) \in Nat /\ Len(t) \in Nat
  OBVIOUS
<1>1. ASSUME p \in Occurrences(t, s)
      PROVE  \E a, b \in Seq(B) : s = Cat(a, Cat(t, b)) /\ Len(a) = p
  <2>1. p \in Nat /\ p + Len(t) <= Len(s) /\ SubSeq(s, p + 1, p + Len(t)) = t
    BY <1>0, <1>1 DEF Occurrences
  <2> DEFINE a == SubSeq(s, 1, p)
             r == Rest(s, p + 1)
             b == Rest(r, Len(t) + 1)
  <2>2. p \in 0..Len(s)
    BY <1>0, <2>1
  <2>3. a \in Seq(B) /\ Len(a) = p /\ r \in Seq(B) /\ s = Cat(a, r)
    BY <2>2, FirstIs
  <2>4. Len(r) = Len(s) - p /\ \A j \in 1..Len(s) - p : r[j] = s[p + j]
    <3>1. p + 1 \in 1..Len(s) + 1 /\ Len(s) + 1 - (p + 1) = Len(s) - p
      BY <1>0, <2>2
    <3>2. /\ Len(r) = Len(s) + 1 - (p + 1)
          /\ \A j \in 1..Len(s) + 1 - (p + 1) : r[j] = s[(p + 1) + j - 1]
      BY <3>1, RestIs
    <3>3. \A j \in 1..Len(s) - p : (p + 1) + j - 1 = p + j
      BY <1>0, <2>2
    <3> HIDE DEF r
    <3> QED BY <3>1, <3>2, <3>3
  <2> HIDE DEF a, r
  <2>5. Len(t) \in 0..Len(r)
    BY <1>0, <2>1, <2>4
  <2>6. /\ SubSeq(r, 1, Len(t)) \in Seq(B) /\ Len(SubSeq(r, 1, Len(t))) = Len(t)
        /\ r = Cat(SubSeq(r, 1, Len(t)), b) /\ b \in Seq(B)
    BY <2>3, <2>5, FirstIs
  <2>7. SubSeq(r, 1, Len(t)) = t
    <3> DEFINE u == SubSeq(r, 1, Len(t))
               v == SubSeq(s, p + 1, p + Len(t))
    <3>1. \A j \in 1..Len(t) : u[j] = r[j]
      <4>1. r = Cat(u, b)
        BY <2>6
      <4> HIDE DEF b, u
      <4>2. u \in Seq(B) /\ Len(u) = Len(t)
        BY <2>6 DEF u
      <4>3. b \in Seq(B)
        BY <2>6
      <4>4. \A j \in 1..Len(u) : Cat(u, b)[j] = u[j]
        BY <4>2, <4>3, CatParts, Zenon
      <4> QED BY <4>1, <4>2, <4>4
    <3>2. \A j \in 1..Len(t) : v[j] = s[p + j]
      <4>1. p + Len(t) \in Nat /\ p <= p + Len(t) /\ (p + Len(t)) - p = Len(t)
        BY <1>0, <2>1
      <4>2. \A j \in 1..(p + Len(t)) - p : SubSeq(s, p + 1, p + Len(t))[j] = s[p + j]
        BY <2>1, <4>1, PartIs
      <4> QED BY <4>1, <4>2
    <3>3. v = t
      BY <2>1
    <3>4. \A j \in 1..Len(t) : j \in 1..Len(s) - p
      BY <1>0, <2>1
    <3> HIDE DEF v
    <3>5. \A j \in 1..Len(t) : u[j] = t[j]
      <4> HIDE DEF u
      <4> QED BY <2>4, <3>1, <3>2, <3>3, <3>4
    <3>6. u \in Seq(B) /\ Len(u) = Len(t)
      BY <2>6
    <3> HIDE DEF u
    <3>7. u = t
      BY <3>5, <3>6
    <3> QED BY <3>7 DEF u
  <2>8. s = Cat(a, Cat(t, b))
    BY <2>3, <2>6, <2>7
  <2> HIDE DEF b
  <2>9. b \in Seq(B)
    BY <2>6 DEF b
  <2> QED BY <2>3, <2>8, <2>9
<1>2. ASSUME NEW a \in Seq(B), NEW b \in Seq(B), s = Cat(a, Cat(t, b)), Len(a) = p
      PROVE  p \in Nat /\ p + Len(t) <= Len(s) /\ \A j \in 1..Len(t) : s[p + j] = t[j]
  <2> DEFINE c == Cat(t, b)
  <2>1. /\ c \in Seq(B) /\ Len(c) = Len(t) + Len(b) /\ Len(b) \in Nat
        /\ \A j \in 1..Len(t) : c[j] = t[j]
    BY CatParts, Zenon
  <2> HIDE DEF c
  <2>2. /\ Len(Cat(a, c)) = Len(a) + Len(c) /\ Len(a) \in Nat
        /\ \A j \in 1..Len(c) : Cat(a, c)[Len(a) + j] = c[j]
    <3>1. \A y, z \in Seq(B) :
            /\ Len(Cat(y, z)) = Len(y) + Len(z) /\ Len(y) \in Nat
            /\ \A j \in 1..Len(z) : Cat(y, z)[Len(y) + j] = z[j]
      <4> TAKE y, z \in Seq(B)
      <4> QED BY CatParts, Zenon
    <3>2. c \in Seq(B)
      BY <2>1
    <3> QED BY <3>1, <3>2, Zenon
  <2>3. s = Cat(a, c)
    BY <1>2 DEF c
  <2>4. p \in Nat /\ Len(s) = p + Len(c) /\ \A j \in 1..Len(c) : s[p + j] = c[j]
    BY <1>2, <2>2, <2>3, Zenon
  <2>5. \A j \in 1..Len(t) : j \in 1..Len(c)
    BY <1>0, <2>1
  <2>6. \A j \in 1..Len(t) : s[p + j] = t[j]
    BY <2>1, <2>4, <2>5, Zenon
  <2> QED BY <1>0, <2>1, <2>4, <2>6
<1>3. ASSUME p \in Nat, p + Len(t) <= Len(s), \A j \in 1..Len(t) : s[p + j] = t[j]
      PROVE  p \in Occurrences(t, s)
  <2> DEFINE v == SubSeq(s, p + 1, p + Len(t))
  <2>1. p + Len(t) \in Nat /\ p <= p + Len(t) /\ (p + Len(t)) - p = Len(t)
    BY <1>0, <1>3
  <2>2. /\ v \in Seq(B) /\ Len(v) = Len(t) /\ \A j \in 1..Len(t) : v[j] = s[p + j]
    <3>1. /\ v \in Seq(B) /\ Len(v) = (p + Len(t)) - p
          /\ \A j \in 1..(p + Len(t)) - p : v[j] = s[p + j]
      BY <1>3, <2>1, PartIs
    <3> HIDE DEF v
    <3> QED BY <2>1, <3>1
  <2> HIDE DEF v
  <2>a. \A j \in 1..Len(t) : v[j] = t[j]
    BY <1>3, <2>2, Zenon
  <2>3. v = t
    BY <2>2, <2>a
  <2>4. p \in 0..Len(s) - Len(t)
    BY <1>0, <1>3
  <2> QED BY <2>3, <2>4 DEF Occurrences, v
<1> QED BY <1>1, <1>2, <1>3

\* The first of the two.
LEMMA OccursAt ==
  ASSUME NEW B, NEW t \in Seq(B), NEW s \in Seq(B), NEW p
  PROVE  p \in Occurrences(t, s) <=>
           p \in Nat /\ p + Len(t) <= Len(s) /\ \A j \in 1..Len(t) : s[p + j] = t[j]
BY OccurrenceIs

\* The second.
LEMMA OccursIn ==
  ASSUME NEW B, NEW t \in Seq(B), NEW s \in Seq(B), NEW p
  PROVE  p \in Occurrences(t, s) <=>
           \E a, b \in Seq(B) : s = Cat(a, Cat(t, b)) /\ Len(a) = p
BY OccurrenceIs

-----------------------------------------------------------------------------
(* Where the file is cut. *)

\* The bytes of the file and those of the scalars.
JobBytes == Elements(job.file) \cup UNION {Elements(Utf8[x]) : x \in Scalars}

Size == Len(job.file)

\* What is assumed of a job, in those terms.
LEMMA JobIs ==
  ASSUME job \in Jobs
  PROVE  /\ job.file \in Seq(JobBytes) /\ Size \in Nat /\ Bytewise(JobBytes)
         /\ (job.file = << >> <=> Size = 0)
         /\ job.hint.by \in {"count", "size"} /\ job.hint.n \in Nat
         /\ job.op \in {"words", "ids", "bigrams"}
         /\ job.boundary \in {"auto", "eot", "line", "utf8"}
         /\ job.special \in Seq(Seq(Scalars)) /\ \A t \in DOMAIN job.special : IsText(job.special[t])
         /\ job.topK \in Nat /\ job.minFreq \in Int
<1>1. /\ job.file \in Seq(Elements(job.file))
      /\ job.hint.by \in {"count", "size"} /\ job.hint.n \in Nat
      /\ job.op \in {"words", "ids", "bigrams"}
      /\ job.boundary \in {"auto", "eot", "line", "utf8"}
      /\ job.special \in Seq(Seq(Scalars)) /\ \A t \in DOMAIN job.special : IsText(job.special[t])
      /\ job.topK \in Nat /\ job.minFreq \in Int
  BY JobsAssumption
<1>2. Elements(job.file) \subseteq JobBytes /\ \A x \in Scalars : Elements(Utf8[x]) \subseteq JobBytes
  BY DEF JobBytes
<1>3. \A V, W : V \subseteq W => Seq(V) \subseteq Seq(W)
  OBVIOUS
<1> DEFINE B == JobBytes
           f == job.file
<1> HIDE DEF B, f
<1>4. f \in Seq(B)
  BY <1>1, <1>2, <1>3 DEF f, B
<1>5. Len(f) \in Nat /\ (f = << >> <=> Len(f) = 0)
  BY <1>4
<1>6. \A x \in Scalars : Utf8[x] \in Seq(B)
  <2> TAKE x \in Scalars
  <2>1. Utf8[x] \in Seq(Elements(Utf8[x]))
    BY ChunksAssumption
  <2> QED BY <1>2, <1>3, <2>1 DEF B
<1> QED BY <1>1, <1>4, <1>5, <1>6 DEF f, B, Size, Bytewise

\* The bytes of a text.
LEMMA BytesIs ==
  ASSUME NEW B, Bytewise(B)
  PROVE  /\ Maps(Utf8, Scalars, B) /\ Bytes(<< >>) = << >>
         /\ \A t \in Seq(Scalars) : Bytes(t) = Mapped(Utf8, t) /\ Bytes(t) \in Seq(B)
         /\ \A x \in Scalars, t \in Seq(Scalars) : Bytes(Onto(x, t)) = Cat(Utf8[x], Bytes(t))
<1>1. Maps(Utf8, Scalars, B)
  BY DEF Bytewise, Maps
<1>2. \A t : Bytes(t) = Mapped(Utf8, t)
  BY DEF Bytes, Mapped
<1> QED BY <1>1, <1>2, MapCat

\* An end-of-text token has a byte, and its first one begins a scalar.
LEMMA TokenBytes ==
  ASSUME NEW B, Bytewise(B)
  PROVE  /\ Bytes(EndOfText) \in Seq(B) /\ Len(Bytes(EndOfText)) \in Nat
         /\ Len(Bytes(EndOfText)) > 0
         /\ Bytes(EndOfText)[1] \notin Continuation
<1>1. EndOfText \in Seq(Scalars) /\ EndOfText # << >>
  BY ChunksAssumption DEF IsText
<1>2. PICK x \in Scalars, t \in Seq(Scalars) : EndOfText = Onto(x, t)
  BY <1>1, ConsAlgebra
<1>3. Bytes(EndOfText) = Cat(Utf8[x], Bytes(t)) /\ Bytes(t) \in Seq(B)
  BY <1>2, BytesIs
<1>4. Utf8[x] \in Seq(B) /\ Utf8[x] # << >> /\ Utf8[x][1] \notin Continuation /\ Len(Utf8[x]) \in 1..4
  BY Utf8Bytes DEF Bytewise
<1> DEFINE u == Utf8[x]
           v == Bytes(t)
<1> HIDE DEF u, v
<1>5. u \in Seq(B) /\ v \in Seq(B)
  BY <1>3, <1>4 DEF u, v
<1>6. /\ Cat(u, v) \in Seq(B) /\ Len(Cat(u, v)) = Len(u) + Len(v) /\ Len(u) \in Nat /\ Len(v) \in Nat
      /\ \A j \in 1..Len(u) : Cat(u, v)[j] = u[j]
  BY <1>5, CatParts, Zenon
<1>7. Len(u) \in 1..4 /\ u[1] \notin Continuation
  BY <1>4 DEF u
<1>8. Len(Cat(u, v)) \in Nat /\ Len(Cat(u, v)) > 0 /\ Cat(u, v)[1] = u[1]
  <2>1. 1 \in 1..Len(u)
    BY <1>7
  <2>2. Cat(u, v)[1] = u[1]
    BY <1>6, <2>1, Zenon
  <2> QED BY <1>6, <1>7, <2>2
<1>9. Bytes(EndOfText) = Cat(u, v)
  BY <1>3 DEF u, v
<1> QED BY <1>6, <1>7, <1>8, <1>9

\* _align_utf8_boundary ends where the file may be cut.
LEMMA AlignedToScalar ==
  ASSUME job \in Jobs, NEW p \in 0..Size
  PROVE  Utf8Aligned(p) \in 0..Size /\ Divides(job.file, Utf8Aligned(p))
<1> DEFINE f == job.file
           ahead == Read(f, p, 4)
           starts == {k \in DOMAIN ahead : ahead[k] \notin Continuation}
<1>0. f \in Seq(JobBytes) /\ Len(f) = Size /\ Size \in Nat /\ p \in Nat /\ p <= Len(f)
  BY JobIs DEF Size
<1>1. Utf8Aligned(p) = IF ~Bounded(p) THEN p
                       ELSE IF starts # {} THEN p + Min(starts) - 1
                       ELSE Min({p + Len(ahead), Len(f)})
  BY DEF Utf8Aligned
<1> HIDE DEF f
<1>2. /\ ahead \in Seq(JobBytes) /\ \A j \in 1..Len(ahead) : ahead[j] = f[p + j]
      /\ Len(ahead) = IF p + 4 <= Len(f) THEN 4 ELSE Len(f) - p
  <2>1. f \in Seq(JobBytes) /\ p \in Nat /\ p <= Len(f) /\ 4 \in Nat
    BY <1>0
  <2>2. /\ ahead \in Seq(JobBytes) /\ \A j \in 1..Len(ahead) : ahead[j] = f[p + j]
        /\ p <= Len(f) => Len(ahead) = IF p + 4 <= Len(f) THEN 4 ELSE Len(f) - p
    BY <2>1, ReadIs, Zenon
  <2> HIDE DEF ahead
  <2> QED BY <2>1, <2>2
<1> HIDE DEF ahead
<1>3. Len(ahead) \in Nat /\ DOMAIN ahead = 1..Len(ahead) /\ p + Len(ahead) <= Len(f)
  <2>0. ahead \in Seq(JobBytes)
    BY <1>2
  <2>1. Len(ahead) \in Nat /\ DOMAIN ahead = 1..Len(ahead)
    BY <2>0
  <2> DEFINE l == Len(f)
             m == Len(ahead)
  <2>2. l \in Nat /\ p \in Nat /\ p <= l /\ m = IF p + 4 <= l THEN 4 ELSE l - p
    BY <1>0, <1>2
  <2> HIDE DEF l, m
  <2>3. p + m <= l
    BY <2>2
  <2> QED BY <2>1, <2>3 DEF l, m
<1>4. CASE ~Bounded(p)
  <2>1. p = 0 \/ p = Len(f)
    BY <1>0, <1>4 DEF Bounded, f
  <2> QED BY <1>0, <1>1, <1>4, <2>1 DEF Divides, f
<1>5. CASE Bounded(p) /\ starts # {}
  <2>1. starts \in SUBSET (1..Len(ahead))
    BY <1>3
  <2>2. Min(starts) \in starts
    BY <1>3, <1>5, <2>1, EndsOf
  <2>3. Min(starts) \in 1..Len(ahead) /\ ahead[Min(starts)] \notin Continuation
    BY <1>3, <2>2
  <2> DEFINE m == Min(starts)
             q == p + m - 1
  <2> HIDE DEF m, starts
  <2>4. q \in 0..Size /\ q + 1 = p + m
    BY <1>0, <1>3, <2>3 DEF m
  <2>5. f[q + 1] \notin Continuation
    BY <1>2, <2>3, <2>4 DEF m
  <2>6. Utf8Aligned(p) = q
    BY <1>1, <1>5 DEF m
  <2> QED BY <2>4, <2>5, <2>6 DEF Divides, f
<1>6. CASE Bounded(p) /\ starts = {}
  <2>1. \A j \in 1..Len(ahead) : f[p + j] \in Continuation
    BY <1>2, <1>3, <1>6
  <2> DEFINE q == p + Len(ahead)
  <2>2. Utf8Aligned(p) = q
    <3>1. q \in Nat /\ q <= Len(f) /\ Len(f) \in Nat
      BY <1>0, <1>3
    <3>2. Min({q, Len(f)}) = q
      BY <3>1, LesserOf
    <3> HIDE DEF starts
    <3> QED BY <1>1, <1>6, <3>2
  <2>3. q \in 0..Size
    BY <1>0, <1>3
  <2>4. CASE Len(ahead) = 4
    <3>1. \A j \in q - 3..q : j - p \in 1..Len(ahead) /\ p + (j - p) = j
      BY <1>0, <2>4
    <3>2. \A j \in q - 3..q : f[j] \in Continuation
      <4> HIDE DEF q
      <4> QED BY <2>1, <3>1
    <3>3. q >= 4
      BY <1>0, <2>4
    <3> QED BY <2>2, <2>3, <3>2, <3>3 DEF Divides, f
  <2>5. CASE Len(ahead) # 4
    <3>1. q = Len(f)
      BY <1>0, <1>2, <2>5
    <3> QED BY <2>2, <2>3, <3>1 DEF Divides, f
  <2> QED BY <2>4, <2>5
<1> QED BY <1>4, <1>5, <1>6

\* So does _align_line_boundary.
LEMMA AlignedToLine ==
  ASSUME job \in Jobs, NEW p \in 0..Size
  PROVE  LineAligned(p) \in 0..Size /\ Divides(job.file, LineAligned(p))
<1> DEFINE f == job.file
           ahead == Read(f, p, Window)
           lines == {k \in DOMAIN ahead : ahead[k] = Utf8[Newline][1]}
<1>0. f \in Seq(JobBytes) /\ Len(f) = Size /\ Size \in Nat /\ p \in Nat /\ p <= Len(f) /\ Window \in Nat
  BY JobIs, ChunksAssumption DEF Size
<1>1. LineAligned(p) = IF ~Bounded(p) \/ Byte(p - 1) = Utf8[Newline][1] THEN p
                       ELSE IF lines # {} THEN Min({p + Min(lines), Len(f)})
                       ELSE Utf8Aligned(p)
  BY DEF LineAligned
<1> HIDE DEF f
<1>2. /\ ahead \in Seq(JobBytes) /\ \A j \in 1..Len(ahead) : ahead[j] = f[p + j]
      /\ Len(ahead) = IF p + Window <= Len(f) THEN Window ELSE Len(f) - p
  <2>1. f \in Seq(JobBytes) /\ p \in Nat /\ p <= Len(f) /\ Window \in Nat
    BY <1>0
  <2>2. /\ ahead \in Seq(JobBytes) /\ \A j \in 1..Len(ahead) : ahead[j] = f[p + j]
        /\ p <= Len(f) => Len(ahead) = IF p + Window <= Len(f) THEN Window ELSE Len(f) - p
    BY <2>1, ReadIs, Zenon
  <2> HIDE DEF ahead
  <2> QED BY <2>1, <2>2
<1> HIDE DEF ahead
<1>3. Len(ahead) \in Nat /\ DOMAIN ahead = 1..Len(ahead) /\ p + Len(ahead) <= Len(f)
  <2>0. ahead \in Seq(JobBytes)
    BY <1>2
  <2>1. Len(ahead) \in Nat /\ DOMAIN ahead = 1..Len(ahead)
    BY <2>0
  <2> DEFINE l == Len(f)
             m == Len(ahead)
  <2>2. l \in Nat /\ p \in Nat /\ p <= l /\ m = IF p + Window <= l THEN Window ELSE l - p
    BY <1>0, <1>2
  <2> HIDE DEF l, m
  <2>3. p + m <= l
    BY <2>2
  <2> QED BY <2>1, <2>3 DEF l, m
<1>4. CASE ~Bounded(p) \/ Byte(p - 1) = Utf8[Newline][1]
  <2>1. LineAligned(p) = p
    BY <1>1, <1>4
  <2>2. CASE ~Bounded(p)
    <3>1. p = 0 \/ p = Len(f)
      BY <1>0, <2>2 DEF Bounded, f
    <3> QED BY <1>0, <2>1, <3>1 DEF Divides, f
  <2>3. CASE Byte(p - 1) = Utf8[Newline][1]
    <3>1. (p - 1) + 1 = p
      BY <1>0
    <3>2. job.file[p] = Utf8[Newline][1]
      BY <2>3, <3>1 DEF Byte
    <3> QED BY <2>1, <3>2 DEF Divides
  <2> QED BY <1>4, <2>2, <2>3
<1>5. CASE ~(~Bounded(p) \/ Byte(p - 1) = Utf8[Newline][1]) /\ lines # {}
  <2>1. lines \in SUBSET (1..Len(ahead))
    BY <1>3
  <2>2. Min(lines) \in lines
    BY <1>3, <1>5, <2>1, EndsOf
  <2>3. Min(lines) \in 1..Len(ahead) /\ ahead[Min(lines)] = Utf8[Newline][1]
    BY <1>3, <2>2
  <2> DEFINE m == Min(lines)
             q == p + m
  <2> HIDE DEF m, lines
  <2>4. q \in 0..Size /\ q <= Len(f) /\ q \in Nat
    BY <1>0, <1>3, <2>3 DEF m
  <2>5. f[q] = Utf8[Newline][1]
    BY <1>2, <2>3 DEF m
  <2>6. LineAligned(p) = q
    <3>1. Min({q, Len(f)}) = q
      BY <1>0, <2>4, LesserOf
    <3> QED BY <1>1, <1>5, <3>1 DEF m
  <2> QED BY <2>4, <2>5, <2>6 DEF Divides, f
<1>6. CASE ~(~Bounded(p) \/ Byte(p - 1) = Utf8[Newline][1]) /\ lines = {}
  <2>1. LineAligned(p) = Utf8Aligned(p)
    <3> HIDE DEF lines
    <3> QED BY <1>1, <1>6
  <2> QED BY <2>1, AlignedToScalar
<1> QED BY <1>4, <1>5, <1>6

\* Division.
LEMMA DivIs ==
  ASSUME NEW a \in Nat, NEW b \in Nat, b > 0
  PROVE  a \div b \in Nat /\ b * (a \div b) <= a /\ a < b * (a \div b) + b
OBVIOUS

\* Products grow with their factors.
LEMMA TimesGrows ==
  ASSUME NEW a \in Nat, NEW b \in Nat, NEW c \in Nat, b <= c
  PROVE  a * b <= a * c /\ a * b \in Nat
OBVIOUS

\* The boundaries the number or the size of chunks puts: from the beginning of
\* the file to its end.
LEMMA EvenlyIs ==
  ASSUME job \in Jobs, Size > 0, ChunkCount(job.hint, Size) > 1
  PROVE  /\ Evenly(job) \in Seq(0..Size) /\ Len(Evenly(job)) > 2
         /\ Evenly(job)[1] = 0 /\ Evenly(job)[Len(Evenly(job))] = Size
<1> DEFINE n == ChunkCount(job.hint, Size)
           h == job.hint.n
           c == ChunkSize(job.hint, Size)
           e == Evenly(job)
<1>0. Size \in Nat /\ h \in Nat /\ job.hint.by \in {"count", "size"}
  BY JobIs
<1>1. n \in Nat /\ n > 1 /\ c \in Nat /\ \A i \in 1..n : c * (i - 1) \in 0..Size
  <2>1. CASE job.hint.by = "count"
    <3>1. n = IF h <= 1 THEN 1 ELSE h
      <4>1. Max({h, 1}) = IF h <= 1 THEN 1 ELSE h
        BY <1>0, LesserOf
      <4> QED BY <2>1, <4>1 DEF ChunkCount
    <3>2. c = Size \div n
      BY <2>1 DEF ChunkSize
    <3> HIDE DEF n, c, h
    <3>3. n \in Nat /\ n > 1
      BY <1>0, <3>1 DEF n
    <3>4. c \in Nat /\ n * c <= Size
      BY <1>0, <3>2, <3>3, DivIs
    <3>5. \A i \in 1..n : c * (i - 1) \in 0..Size
      <4> TAKE i \in 1..n
      <4>1. i - 1 \in Nat /\ i - 1 <= n
        BY <3>3
      <4>2. c * (i - 1) <= c * n /\ c * (i - 1) \in Nat
        BY <3>3, <3>4, <4>1, TimesGrows
      <4>3. c * n = n * c /\ c * n \in Nat
        BY <3>3, <3>4
      <4> DEFINE y == c * (i - 1)
                 z == c * n
      <4>4. y \in Nat /\ y <= z /\ z <= Size /\ z \in Nat
        BY <3>4, <4>2, <4>3
      <4> HIDE DEF y, z
      <4>5. y \in 0..Size
        BY <1>0, <4>4
      <4> QED BY <4>5 DEF y
    <3> QED BY <3>3, <3>4, <3>5
  <2>2. CASE job.hint.by # "count"
    <3>1. n = (IF h = 0 \/ Size = 0 THEN 1 ELSE (Size + h - 1) \div h) /\ c = h
      BY <2>2 DEF ChunkCount, ChunkSize
    <3> HIDE DEF n, c, h
    <3>2. h # 0
      BY <3>1 DEF n
    <3>3. Size + h - 1 \in Nat /\ h > 0
      BY <1>0, <3>2
    <3>4. n \in Nat /\ h * n <= Size + h - 1 /\ n > 1
      <4>1. n = (Size + h - 1) \div h
        BY <3>1, <3>2 DEF n
      <4> QED BY <1>0, <3>3, <4>1, DivIs DEF n
    <3>5. \A i \in 1..n : c * (i - 1) \in 0..Size
      <4> TAKE i \in 1..n
      <4>1. i \in Nat /\ i - 1 \in Nat /\ i - 1 <= n - 1 /\ n - 1 \in Nat
        BY <3>4
      <4>2. h * (i - 1) <= h * (n - 1) /\ h * (i - 1) \in Nat
        BY <1>0, <4>1, TimesGrows
      <4>3. h * (n - 1) = h * n - h /\ h * n \in Nat
        BY <1>0, <3>4
      <4> DEFINE y == h * (i - 1)
                 z == h * n
      <4>4. y \in Nat /\ y <= z - h /\ z \in Nat /\ z <= Size + h - 1
        BY <3>4, <4>2, <4>3
      <4> HIDE DEF y, z
      <4>5. y \in 0..Size
        BY <1>0, <4>4
      <4> QED BY <3>1, <4>5 DEF y
    <3> QED BY <1>0, <3>1, <3>4, <3>5
  <2> QED BY <2>1, <2>2
<1>2. e = [i \in 1..n + 1 |-> IF i = n + 1 THEN Size ELSE c * (i - 1)]
  BY DEF Evenly, Size
<1> HIDE DEF n, c, e
<1>3. \A i \in 1..n + 1 : e[i] \in 0..Size
  <2> TAKE i \in 1..n + 1
  <2>1. e[i] = IF i = n + 1 THEN Size ELSE c * (i - 1)
    BY <1>2
  <2>2. CASE i = n + 1
    BY <1>0, <2>1, <2>2
  <2>3. CASE i # n + 1
    <3>1. i \in 1..n
      BY <1>1, <2>3
    <3> QED BY <1>1, <2>1, <2>3, <3>1
  <2> QED BY <2>2, <2>3
<1>4. n + 1 \in Nat /\ n + 1 > 2 /\ 1 \in 1..n + 1 /\ n + 1 \in 1..n + 1 /\ 1 # n + 1
  BY <1>1
<1>5. e = [i \in 1..n + 1 |-> e[i]]
  BY <1>2
<1>6. e \in Seq(0..Size) /\ Len(e) = n + 1
  <2> DEFINE m == n + 1
             S == 0..Size
  <2>1. m \in Nat /\ (\A i \in 1..m : e[i] \in S) /\ e = [i \in 1..m |-> e[i]]
    BY <1>3, <1>4, <1>5
  <2> HIDE DEF m, S
  <2>2. e \in Seq(S) /\ Len(e) = m
    BY <2>1
  <2> QED BY <2>2 DEF m, S
<1>7. e[n + 1] = Size
  BY <1>2, <1>4
<1>8. e[1] = 0
  <2>1. e[1] = c * (1 - 1)
    BY <1>2, <1>4
  <2> QED BY <1>1, <2>1
<1> QED BY <1>4, <1>6, <1>7, <1>8 DEF e

\* Where the token is in the file.
TokensAt == Occurrences(Bytes(EndOfText), job.file)

TokenLength == Len(Bytes(EndOfText))

\* A boundary that needs no more aligning.
SettledAt(p) == IF byToken THEN p = Size \/ p \in TokensAt ELSE Divides(job.file, p)

BoundariesInv ==
  /\ job \in Jobs /\ phase \in {"searching", "aligning", "reading", "done"}
  /\ offset \in Nat /\ byToken \in BOOLEAN
  /\ boundaries \in Seq(0..Size) /\ at \in 2..Len(boundaries)
  /\ boundaries[1] = 0 /\ boundaries[Len(boundaries)] = Size
  /\ Size = 0 => Len(boundaries) = 2
  /\ phase = "searching" => at = 2 /\ ~byToken
  /\ \A i \in 2..at - 1 : SettledAt(boundaries[i])

\* How much of the file was searched.
Seen == IF offset < Size THEN offset ELSE Size

\* What is kept of the bytes that were searched, and that the token is not in
\* them. Where it is nowhere, "eot" cuts nothing.
SearchInv ==
  /\ phase = "searching" =>
       /\ job.boundary \in {"auto", "eot"}
       /\ overlap \in Seq(JobBytes)
       /\ Len(overlap) = IF Seen < TokenLength THEN Seen ELSE TokenLength - 1
       /\ \A j \in 1..Len(overlap) : overlap[j] = job.file[Seen - Len(overlap) + j]
       /\ \A p \in TokensAt : p + TokenLength > Seen
  /\ phase # "searching" /\ ~byToken /\ job.boundary \in {"auto", "eot"} =>
       \/ Len(boundaries) = 2
       \/ job.boundary = "auto" /\ TokensAt = {}

ChunksAt(cuts) == [k \in 1..Len(cuts) - 1 |-> [from |-> cuts[k], to |-> cuts[k + 1]]]

Cuts == IF job.file = << >> THEN boundaries ELSE InOrder(Elements(boundaries))

CutsInv ==
  IF phase \in {"reading", "done"}
  THEN at = Len(boundaries) /\ chunks = ChunksAt(Cuts)
  ELSE chunks = << >> /\ parts = {}

CutInv == BoundariesInv /\ SearchInv /\ CutsInv

\* Initially.
LEMMA CutInvInit == Init => CutInv
<1> SUFFICES ASSUME Init PROVE CutInv
  OBVIOUS
<1> DEFINE n == ChunkCount(job.hint, Size)
           one == n <= 1 \/ job.file = << >>
<1>1. /\ job \in Jobs /\ at = 2 /\ offset = 0 /\ overlap = << >> /\ byToken = FALSE
      /\ chunks = << >> /\ parts = {}
      /\ boundaries = IF one THEN Whole(job) ELSE Evenly(job)
      /\ phase = IF ~one /\ job.boundary \in {"auto", "eot"} THEN "searching" ELSE "aligning"
  BY DEF Init, Size
<1>2. /\ Size \in Nat /\ (job.file = << >> <=> Size = 0) /\ job.hint.by \in {"count", "size"}
      /\ job.hint.n \in Nat /\ job.file \in Seq(JobBytes) /\ Bytewise(JobBytes)
  BY <1>1, JobIs
<1>3. n \in Nat
  <2>1. CASE job.hint.by = "count"
    <3>1. Max({job.hint.n, 1}) \in Nat
      <4>1. \A h \in Nat : Max({h, 1}) \in Nat
        <5> TAKE h \in Nat
        <5>1. Max({h, 1}) = IF h <= 1 THEN 1 ELSE h
          BY LesserOf
        <5> QED BY <5>1
      <4> QED BY <1>2, <4>1
    <3> QED BY <2>1, <3>1 DEF ChunkCount
  <2>2. CASE job.hint.by # "count" /\ (job.hint.n = 0 \/ Size = 0)
    <3>1. n = 1
      BY <2>2 DEF ChunkCount
    <3> QED BY <3>1
  <2>3. CASE job.hint.by # "count" /\ ~(job.hint.n = 0 \/ Size = 0)
    <3>1. n = (Size + job.hint.n - 1) \div job.hint.n
      BY <2>3 DEF ChunkCount
    <3>2. Size + job.hint.n - 1 \in Nat /\ job.hint.n > 0
      BY <1>2, <2>3
    <3> HIDE DEF n
    <3> QED BY <1>2, <3>1, <3>2, DivIs
  <2> QED BY <2>1, <2>2, <2>3
<1> HIDE DEF n
<1>4. /\ boundaries \in Seq(0..Size) /\ Len(boundaries) >= 2
      /\ boundaries[1] = 0 /\ boundaries[Len(boundaries)] = Size
      /\ Size = 0 => Len(boundaries) = 2
      /\ one => Len(boundaries) = 2
  <2>1. CASE one
    <3>1. boundaries = <<0, Size>>
      BY <1>1, <2>1 DEF Whole, Size
    <3>2. 0 \in 0..Size /\ Size \in 0..Size
      BY <1>2
    <3> HIDE DEF one
    <3> QED BY <3>1, <3>2
  <2>2. CASE ~one
    <3>1. Size > 0 /\ n > 1
      BY <1>2, <1>3, <2>2
    <3>2. boundaries = Evenly(job)
      BY <1>1, <2>2
    <3> QED BY <1>1, <2>2, <3>1, <3>2, EvenlyIs DEF n
  <2> QED BY <2>1, <2>2
<1>5. BoundariesInv
  <2>1. 2 \in 2..Len(boundaries) /\ 2..2 - 1 = {}
    BY <1>4
  <2> QED BY <1>1, <1>2, <1>4, <2>1 DEF BoundariesInv
<1>6. SearchInv
  <2>1. TokenLength \in Nat /\ TokenLength > 0 /\ Bytes(EndOfText) \in Seq(JobBytes)
    BY <1>2, TokenBytes DEF TokenLength
  <2>2. Seen = 0
    BY <1>1, <1>2 DEF Seen
  <2>3. \A p \in TokensAt : p \in Nat
    BY <1>2, <2>1, OccurrenceIs DEF TokensAt
  <2>4. \A p \in TokensAt : p + TokenLength > Seen
    BY <2>1, <2>2, <2>3
  <2>5. overlap \in Seq(JobBytes) /\ Len(overlap) = 0
    BY <1>1
  <2>6. Len(overlap) = IF Seen < TokenLength THEN Seen ELSE TokenLength - 1
    BY <2>1, <2>2, <2>5
  <2>7. \A j \in 1..Len(overlap) : FALSE
    BY <2>5
  <2>8. phase = "searching" => job.boundary \in {"auto", "eot"}
    BY <1>1
  <2>9. phase # "searching" /\ job.boundary \in {"auto", "eot"} => one
    BY <1>1
  <2> HIDE DEF one
  <2> QED BY <1>4, <2>4, <2>5, <2>6, <2>7, <2>8, <2>9 DEF SearchInv
<1>7. CutsInv
  BY <1>1 DEF CutsInv
<1> QED BY <1>5, <1>6, <1>7 DEF CutInv

\* A boundary is settled.
LEMMA CutInvSettle ==
  ASSUME CutInv, phase = "aligning", Interior, NEW q \in 0..Size, SettledAt(q), Settle(q),
         UNCHANGED <<job, phase, overlap, byToken, chunks, parts>>
  PROVE  CutInv'
<1>1. /\ job \in Jobs /\ byToken \in BOOLEAN
      /\ boundaries \in Seq(0..Size) /\ at \in 2..Len(boundaries)
      /\ boundaries[1] = 0 /\ boundaries[Len(boundaries)] = Size
      /\ Size = 0 => Len(boundaries) = 2
      /\ \A i \in 2..at - 1 : SettledAt(boundaries[i])
  BY DEF CutInv, BoundariesInv
<1>2. /\ boundaries' = [boundaries EXCEPT ![at] = q] /\ at' = at + 1 /\ offset' = boundaries[at + 1]
      /\ job' = job /\ phase' = "aligning" /\ byToken' = byToken /\ chunks' = chunks /\ parts' = parts
      /\ at < Len(boundaries)
  BY DEF Settle, Interior
<1>3. Size' = Size /\ TokensAt' = TokensAt /\ \A p : SettledAt(p)' <=> SettledAt(p)
  BY <1>2 DEF Size, TokensAt, SettledAt
<1> DEFINE b == boundaries
           c == boundaries'
<1>4. Len(b) \in Nat /\ at \in Nat /\ at >= 2 /\ DOMAIN b = 1..Len(b)
  BY <1>1
<1>a. at < Len(b)
  BY <1>2
<1> DEFINE S == 0..Size
<1>5. /\ c \in Seq(S) /\ Len(c) = Len(b) /\ c[at] = q
      /\ \A i \in 1..Len(b) : i # at => c[i] = b[i]
  <2>1. b \in Seq(S) /\ q \in S /\ at \in 1..Len(b) /\ c = [b EXCEPT ![at] = q]
    BY <1>1, <1>2, <1>4
  <2> HIDE DEF S, b, c
  <2> QED BY <2>1
<1>6. /\ at + 1 \in 2..Len(b) /\ at + 1 \in 1..Len(b) /\ 1 # at /\ Len(b) # at
      /\ 1 \in 1..Len(b) /\ Len(b) \in 1..Len(b)
  <2> DEFINE l == Len(b)
             a == at
  <2>1. l \in Nat /\ a \in Nat /\ a >= 2 /\ a < l
    BY <1>4, <1>a
  <2> HIDE DEF l, a
  <2>2. a + 1 \in 2..l /\ a + 1 \in 1..l /\ 1 # a /\ l # a /\ 1 \in 1..l /\ l \in 1..l
    BY <2>1
  <2> QED BY <2>2 DEF l, a
<1>7. offset' \in Nat
  <2>1. b[at + 1] \in S
    <3>1. b \in Seq(S)
      BY <1>1
    <3> HIDE DEF b, S
    <3> QED BY <1>6, <3>1
  <2>2. S \subseteq Nat
    BY <1>1, JobIs
  <2> QED BY <1>2, <2>1, <2>2
<1>8. \A i \in 2..(at + 1) - 1 : SettledAt(c[i])
  <2> TAKE i \in 2..(at + 1) - 1
  <2>1. i = at \/ (i \in 2..at - 1 /\ i \in 1..Len(b) /\ i # at)
    BY <1>2, <1>4
  <2> HIDE DEF c
  <2> QED BY <1>1, <1>5, <2>1
<1> HIDE DEF b, c, S
<1>9. BoundariesInv'
  <2>1. c[1] = 0 /\ c[Len(c)] = Size /\ (Size = 0 => Len(c) = 2) /\ at' \in 2..Len(c)
    BY <1>1, <1>2, <1>5, <1>6 DEF b
  <2>2. \A i \in 2..at' - 1 : SettledAt(boundaries[i])'
    <3>1. at' - 1 = (at + 1) - 1
      BY <1>2
    <3> QED BY <1>2, <1>3, <1>8, <3>1 DEF c, SettledAt
  <2>3. c \in Seq(0..Size')
    BY <1>3, <1>5 DEF S
  <2> QED BY <1>1, <1>2, <1>3, <1>7, <2>1, <2>2, <2>3 DEF BoundariesInv, c
<1>10. SearchInv'
  <2>1. ~byToken /\ job.boundary \in {"auto", "eot"} =>
          Len(b) = 2 \/ (job.boundary = "auto" /\ TokensAt = {})
    BY DEF CutInv, SearchInv, b
  <2> QED BY <1>2, <1>3, <1>5, <2>1 DEF SearchInv, b, c
<1>11. CutsInv'
  <2>1. chunks = << >> /\ parts = {}
    BY DEF CutInv, CutsInv
  <2> QED BY <1>2, <2>1 DEF CutsInv
<1> QED BY <1>9, <1>10, <1>11 DEF CutInv

\* The search goes on: what is searched is the end of what was seen, with the
\* window behind it.
LEMMA SearchedIs ==
  ASSUME CutInv, phase = "searching", Read(job.file, offset, Window) # << >>
  PROVE  LET n == Len(overlap)
             w == Len(Read(job.file, offset, Window))
         IN /\ Searched \in Seq(JobBytes) /\ Len(Searched) = n + w /\ n \in Nat /\ w \in Nat
            /\ Seen = offset /\ n <= offset /\ offset < Size
            /\ w = IF offset + Window <= Size THEN Window ELSE Size - offset
            /\ \A j \in 1..n + w : Searched[j] = job.file[offset - n + j]
<1> DEFINE f == job.file
           r == Read(f, offset, Window)
           n == Len(overlap)
           w == Len(r)
<1>1. /\ f \in Seq(JobBytes) /\ Size \in Nat /\ Size = Len(f) /\ offset \in Nat
      /\ Window \in Nat /\ Window > 0 /\ Bytewise(JobBytes)
  BY JobIs, ChunksAssumption DEF CutInv, BoundariesInv, Size
<1>2. /\ overlap \in Seq(JobBytes)
      /\ n = IF Seen < TokenLength THEN Seen ELSE TokenLength - 1
      /\ \A j \in 1..n : overlap[j] = f[Seen - n + j]
  BY DEF CutInv, SearchInv
<1>3. TokenLength \in Nat /\ TokenLength > 0
  BY <1>1, TokenBytes DEF TokenLength
<1> HIDE DEF f
<1>4. /\ r \in Seq(JobBytes) /\ \A j \in 1..Len(r) : r[j] = f[offset + j]
      /\ offset <= Len(f) => Len(r) = IF offset + Window <= Len(f) THEN Window ELSE Len(f) - offset
      /\ offset > Len(f) => Len(r) = 0
  BY <1>1, ReadIs
<1>5. r # << >>
  BY DEF f
<1> HIDE DEF r
<1>6. w \in Nat /\ w > 0
  BY <1>4, <1>5
<1>7. offset < Size
  <2>1. CASE offset > Size
    BY <1>1, <1>4, <1>6, <2>1
  <2>2. CASE offset = Size
    <3>1. w = Size - offset
      BY <1>1, <1>4, <2>2
    <3> QED BY <1>1, <1>6, <2>2, <3>1
  <2> QED BY <1>1, <2>1, <2>2
<1>8. Seen = offset
  BY <1>7 DEF Seen
<1>9. n \in Nat /\ n <= offset
  BY <1>1, <1>2, <1>3, <1>8
<1>10. w = IF offset + Window <= Size THEN Window ELSE Size - offset
  BY <1>1, <1>4, <1>7
<1>11. Searched = Cat(overlap, r)
  BY DEF Searched, Cat, r, f
<1>12. /\ Cat(overlap, r) \in Seq(JobBytes) /\ Len(Cat(overlap, r)) = n + w
       /\ \A j \in 1..n : Cat(overlap, r)[j] = overlap[j]
       /\ \A j \in 1..w : Cat(overlap, r)[n + j] = r[j]
  <2>1. r \in Seq(JobBytes) /\ overlap \in Seq(JobBytes)
    BY <1>2, <1>4
  <2>2. /\ Cat(overlap, r) \in Seq(JobBytes) /\ Len(Cat(overlap, r)) = Len(overlap) + Len(r)
        /\ Len(overlap) \in Nat /\ Len(r) \in Nat
        /\ \A j \in 1..Len(overlap) : Cat(overlap, r)[j] = overlap[j]
        /\ \A j \in 1..Len(r) : Cat(overlap, r)[Len(overlap) + j] = r[j]
    <3> HIDE DEF r
    <3> QED BY ONLY <2>1, CatParts, Zenon
  <2> QED BY <2>2
<1> HIDE DEF n, w
<1>13. \A j \in 1..n + w : Searched[j] = f[offset - n + j]
  <2> TAKE j \in 1..n + w
  <2>1. CASE j <= n
    <3>1. j \in 1..n
      BY <1>6, <1>9, <2>1
    <3> QED BY <1>2, <1>8, <1>11, <1>12, <3>1 DEF n
  <2>2. CASE j > n
    <3>1. j - n \in 1..w /\ n + (j - n) = j /\ offset + (j - n) = offset - n + j
      BY <1>1, <1>6, <1>9, <2>2
    <3>2. Cat(overlap, r)[n + (j - n)] = r[j - n]
      BY <1>12, <3>1
    <3>3. r[j - n] = f[offset + (j - n)]
      BY <1>4, <3>1 DEF w
    <3> QED BY <1>11, <3>1, <3>2, <3>3
  <2> QED BY <1>6, <1>9, <2>1, <2>2
<1> QED BY <1>6, <1>7, <1>8, <1>9, <1>10, <1>11, <1>12, <1>13 DEF n, w, r, f

\* A token that ends in the window was searched.
LEMMA SearchedAll ==
  ASSUME CutInv, phase = "searching", Read(job.file, offset, Window) # << >>,
         Occurrences(Bytes(EndOfText), Searched) = {},
         NEW p \in TokensAt
  PROVE  p + TokenLength > offset + Len(Read(job.file, offset, Window))
<1> DEFINE f == job.file
           n == Len(overlap)
           w == Len(Read(f, offset, Window))
           t == Bytes(EndOfText)
<1>1. /\ f \in Seq(JobBytes) /\ Size \in Nat /\ Size = Len(f) /\ offset \in Nat /\ Bytewise(JobBytes)
  BY JobIs DEF CutInv, BoundariesInv, Size
<1>2. /\ Searched \in Seq(JobBytes) /\ Len(Searched) = n + w /\ n \in Nat /\ w \in Nat
      /\ Seen = offset /\ n <= offset
      /\ \A j \in 1..n + w : Searched[j] = f[offset - n + j]
  BY SearchedIs
<1>3. n = (IF Seen < TokenLength THEN Seen ELSE TokenLength - 1) /\ p + TokenLength > Seen
  BY DEF CutInv, SearchInv
<1>4. t \in Seq(JobBytes) /\ TokenLength = Len(t) /\ TokenLength \in Nat /\ TokenLength > 0
  BY <1>1, TokenBytes DEF TokenLength
<1> HIDE DEF f, n, w, t
<1>5. p \in Nat /\ p + TokenLength <= Size /\ \A j \in 1..TokenLength : f[p + j] = t[j]
  <2>1. p \in Occurrences(t, f)
    BY DEF TokensAt, f, t
  <2>2. t \in Seq(JobBytes) /\ f \in Seq(JobBytes)
    BY <1>1, <1>4
  <2>3. p \in Occurrences(t, f) <=>
          p \in Nat /\ p + Len(t) <= Len(f) /\ \A j \in 1..Len(t) : f[p + j] = t[j]
    BY <2>2, OccursAt
  <2> QED BY <1>1, <1>4, <2>1, <2>3
<1> SUFFICES ASSUME p + TokenLength <= offset + w PROVE FALSE
  BY <1>1, <1>2, <1>4, <1>5 DEF w, f
<1> DEFINE q == p - (offset - n)
<1>6. q \in Nat /\ q + TokenLength <= n + w
  <2>1. p >= offset - n
    BY <1>1, <1>2, <1>3, <1>4, <1>5
  <2> QED BY <1>1, <1>2, <1>4, <1>5, <2>1
<1>a. p = q + (offset - n) /\ offset - n \in Int
  BY <1>1, <1>2, <1>5
<1> HIDE DEF q
<1>7. \A j \in 1..TokenLength : Searched[q + j] = t[j]
  <2> TAKE j \in 1..TokenLength
  <2>1. q + j \in 1..n + w /\ (offset - n) + (q + j) = p + j
    BY <1>1, <1>2, <1>4, <1>5, <1>6, <1>a
  <2> QED BY <1>2, <1>5, <2>1
<1>8. q \in Occurrences(t, Searched)
  <2>1. t \in Seq(JobBytes) /\ Searched \in Seq(JobBytes)
    BY <1>2, <1>4
  <2>2. q \in Occurrences(t, Searched) <=>
          q \in Nat /\ q + Len(t) <= Len(Searched) /\ \A j \in 1..Len(t) : Searched[q + j] = t[j]
    BY <2>1, OccursAt
  <2> QED BY <1>2, <1>4, <1>6, <1>7, <2>2
<1> QED BY <1>8 DEF t

\* What is kept for the next window.
LEMMA LastBytesIs ==
  ASSUME NEW B, NEW s \in Seq(B), TokenLength \in Nat, TokenLength > 0
  PROVE  LET k == Len(LastBytes(s))
         IN /\ LastBytes(s) \in Seq(B) /\ k \in Nat
            /\ k = IF Len(s) < TokenLength THEN Len(s) ELSE TokenLength - 1
            /\ \A j \in 1..k : LastBytes(s)[j] = s[Len(s) - k + j]
<1> DEFINE n == Min({TokenLength - 1, Len(s)})
           a == Len(s) - n
           r == SubSeq(s, a + 1, Len(s))
<1>1. Len(s) \in Nat /\ TokenLength - 1 \in Nat
  OBVIOUS
<1>2. n = IF TokenLength - 1 <= Len(s) THEN TokenLength - 1 ELSE Len(s)
  BY <1>1, LesserOf
<1>3. LastBytes(s) = r
  BY DEF LastBytes, TokenLength
<1> HIDE DEF n
<1>4. n = (IF Len(s) < TokenLength THEN Len(s) ELSE TokenLength - 1) /\ n \in Nat /\ n <= Len(s)
  BY <1>1, <1>2
<1>5. a \in Nat /\ a <= Len(s) /\ Len(s) - a = n
  BY <1>1, <1>4
<1> HIDE DEF a
<1>6. /\ r \in Seq(B) /\ Len(r) = Len(s) - a
      /\ \A j \in 1..Len(s) - a : r[j] = s[a + j]
  BY <1>1, <1>5, PartIs
<1> HIDE DEF r
<1>7. Len(r) = n /\ \A j \in 1..n : r[j] = s[Len(s) - n + j]
  BY <1>5, <1>6 DEF a
<1> QED BY <1>3, <1>4, <1>6, <1>7

\* A window is searched, or the search ends.
LEMMA CutInvSearch ==
  ASSUME CutInv, Search
  PROVE  CutInv'
<1> DEFINE f == job.file
           r == Read(f, offset, Window)
           found == Occurrences(Bytes(EndOfText), Searched)
<1>0. /\ f \in Seq(JobBytes) /\ Size \in Nat /\ Size = Len(f) /\ offset \in Nat /\ Bytewise(JobBytes)
      /\ Window \in Nat /\ Window > 0
  BY JobIs, ChunksAssumption DEF CutInv, BoundariesInv, Size
<1>1. /\ phase = "searching"
      /\ UNCHANGED <<job, at, chunks, parts, result>>
      /\ \/ /\ r # << >>
            /\ IF found # {}
               THEN phase' = "aligning" /\ byToken' = TRUE /\ offset' = boundaries[2]
               ELSE offset' = offset + Window /\ UNCHANGED <<phase, byToken>>
            /\ overlap' = LastBytes(Searched)
            /\ UNCHANGED boundaries
         \/ /\ r = << >>
            /\ phase' = "aligning"
            /\ offset' = boundaries[2]
            /\ boundaries' = IF job.boundary = "eot" THEN Whole(job) ELSE boundaries
            /\ UNCHANGED <<overlap, byToken>>
  BY DEF Search
<1>2. /\ Size' = Size /\ TokensAt' = TokensAt /\ JobBytes' = JobBytes
  BY <1>1 DEF Size, TokensAt, JobBytes
<1>3. /\ job \in Jobs
      /\ boundaries \in Seq(0..Size) /\ 2 \in 2..Len(boundaries) /\ at = 2 /\ byToken = FALSE
      /\ boundaries[1] = 0 /\ boundaries[Len(boundaries)] = Size
      /\ Size = 0 => Len(boundaries) = 2
  BY <1>1 DEF CutInv, BoundariesInv
<1>4. /\ job.boundary \in {"auto", "eot"}
      /\ overlap \in Seq(JobBytes)
      /\ Len(overlap) = IF Seen < TokenLength THEN Seen ELSE TokenLength - 1
      /\ \A j \in 1..Len(overlap) : overlap[j] = f[Seen - Len(overlap) + j]
      /\ \A p \in TokensAt : p + TokenLength > Seen
  BY <1>1 DEF CutInv, SearchInv
<1>5. CutsInv'
  BY <1>1 DEF CutInv, CutsInv
<1>6. boundaries[2] \in Nat
  <2>1. \A b \in Seq(0..Size) : 2 \in 2..Len(b) => b[2] \in Nat
    BY <1>0
  <2> QED BY <1>3, <2>1
<1>7. TokenLength \in Nat /\ TokenLength > 0
  BY <1>0, TokenBytes DEF TokenLength
<1> HIDE DEF f, r, found
<1>8. CASE r # << >> /\ found # {}
  <2>1. phase' = "aligning" /\ byToken' = TRUE /\ offset' = boundaries[2] /\ boundaries' = boundaries
    BY <1>1, <1>8
  <2>2. BoundariesInv'
    <3>1. 2..2 - 1 = {}
      OBVIOUS
    <3> QED BY <1>1, <1>2, <1>3, <1>6, <2>1, <3>1 DEF BoundariesInv
  <2>3. SearchInv'
    BY <2>1 DEF SearchInv
  <2> QED BY <1>5, <2>2, <2>3 DEF CutInv
<1>9. CASE r # << >> /\ found = {}
  <2>1. /\ phase' = "searching" /\ byToken' = FALSE /\ offset' = offset + Window
        /\ boundaries' = boundaries /\ overlap' = LastBytes(Searched)
    BY <1>1, <1>3, <1>9
  <2>2. BoundariesInv'
    <3>1. 2..2 - 1 = {}
      OBVIOUS
    <3>2. offset' \in Nat
      BY <1>0, <2>1
    <3> QED BY <1>1, <1>2, <1>3, <2>1, <3>1, <3>2 DEF BoundariesInv
  <2> DEFINE n == Len(overlap)
             w == Len(r)
  <2>3. /\ Searched \in Seq(JobBytes) /\ Len(Searched) = n + w /\ n \in Nat /\ w \in Nat
        /\ Seen = offset /\ n <= offset /\ offset < Size
        /\ w = IF offset + Window <= Size THEN Window ELSE Size - offset
        /\ \A j \in 1..n + w : Searched[j] = f[offset - n + j]
    BY <1>1, <1>9, SearchedIs DEF r, f
  <2>4. \A p \in TokensAt : p + TokenLength > offset + w
    BY <1>1, <1>9, SearchedAll DEF r, f, found
  <2> DEFINE k == Len(LastBytes(Searched))
  <2>5. /\ LastBytes(Searched) \in Seq(JobBytes) /\ k \in Nat
        /\ k = IF Len(Searched) < TokenLength THEN Len(Searched) ELSE TokenLength - 1
        /\ \A j \in 1..k : LastBytes(Searched)[j] = Searched[Len(Searched) - k + j]
    BY <1>7, <2>3, LastBytesIs
  <2>a. n = IF offset < TokenLength THEN offset ELSE TokenLength - 1
    BY <1>4, <2>3
  <2>b. Seen' = IF offset + Window < Size THEN offset + Window ELSE Size
    BY <1>2, <2>1 DEF Seen
  <2> HIDE DEF n, w, k
  <2>6. Seen' = offset + w
    BY <1>0, <2>3, <2>b
  <2>c. /\ n \in Nat /\ w \in Nat /\ k \in Nat /\ offset \in Nat /\ n <= offset
        /\ TokenLength \in Nat /\ TokenLength > 0
        /\ n = IF offset < TokenLength THEN offset ELSE TokenLength - 1
        /\ k = IF n + w < TokenLength THEN n + w ELSE TokenLength - 1
    <3>1. k = IF n + w < TokenLength THEN n + w ELSE TokenLength - 1
      BY <2>3, <2>5
    <3> QED BY <1>0, <1>7, <2>3, <2>5, <2>a, <3>1
  <2>7. k = IF Seen' < TokenLength THEN Seen' ELSE TokenLength - 1
    BY <2>6, <2>c
  <2>8. \A j \in 1..k : LastBytes(Searched)[j] = f[Seen' - k + j]
    <3> TAKE j \in 1..k
    <3>0. k <= n + w
      BY <2>c
    <3>1. (n + w) - k + j \in 1..n + w /\ offset - n + ((n + w) - k + j) = (offset + w) - k + j
      BY <2>c, <3>0
    <3>2. LastBytes(Searched)[j] = Searched[(n + w) - k + j]
      BY <2>3, <2>5
    <3>3. Searched[(n + w) - k + j] = f[offset - n + ((n + w) - k + j)]
      BY <2>3, <3>1
    <3> QED BY <2>6, <3>1, <3>2, <3>3
  <2>9. \A p \in TokensAt : p + TokenLength > Seen'
    BY <2>4, <2>6
  <2>10. SearchInv'
    <3>1. overlap' \in Seq(JobBytes') /\ Len(overlap') = k /\ job' = job
      BY <1>1, <1>2, <2>1, <2>5 DEF k
    <3>2. \A j \in 1..Len(overlap') : overlap'[j] = job'.file[Seen' - Len(overlap') + j]
      BY <2>1, <2>8, <3>1 DEF f
    <3>3. \A p \in TokensAt' : p + TokenLength > Seen'
      BY <1>2, <2>9
    <3>4. Len(overlap') = IF Seen' < TokenLength THEN Seen' ELSE TokenLength - 1
      BY <2>7, <3>1
    <3> QED BY <1>4, <2>1, <3>1, <3>2, <3>3, <3>4 DEF SearchInv
  <2> QED BY <1>5, <2>2, <2>10 DEF CutInv
<1>10. CASE r = << >>
  <2>1. /\ phase' = "aligning" /\ byToken' = FALSE /\ offset' = boundaries[2] /\ job' = job /\ at' = 2
        /\ boundaries' = IF job.boundary = "eot" THEN Whole(job) ELSE boundaries
    BY <1>1, <1>3, <1>10
  <2>2. Whole(job) = <<0, Size>>
    BY DEF Whole, Size
  <2>3. BoundariesInv'
    <3>1. 2..2 - 1 = {} /\ 0 \in 0..Size /\ Size \in 0..Size
      BY <1>0
    <3>2. /\ boundaries' \in Seq(0..Size) /\ 2 \in 2..Len(boundaries')
          /\ boundaries'[1] = 0 /\ boundaries'[Len(boundaries')] = Size
          /\ Size = 0 => Len(boundaries') = 2
      <4>1. CASE job.boundary = "eot"
        <5>1. boundaries' = <<0, Size>>
          BY <2>1, <2>2, <4>1
        <5> QED BY <3>1, <5>1
      <4>2. CASE job.boundary # "eot"
        BY <1>3, <2>1, <4>2
      <4> QED BY <4>1, <4>2
    <3> QED BY <1>2, <1>3, <1>6, <2>1, <3>1, <3>2 DEF BoundariesInv
  <2>4. TokensAt = {}
    <3>1. Seen = Size
      <4>1. Len(r) = 0 /\ offset <= Size => offset = Size
        <5>1. r = Read(f, offset, Window)
          BY DEF r
        <5>2. offset <= Len(f) => Len(r) = IF offset + Window <= Len(f) THEN Window ELSE Len(f) - offset
          BY <1>0, <5>1, ReadIs
        <5> QED BY <1>0, <5>2
      <4>2. Len(r) = 0
        BY <1>10
      <4> QED BY <1>0, <4>1, <4>2 DEF Seen
    <3>2. ASSUME NEW p \in TokensAt PROVE FALSE
      <4>1. Bytes(EndOfText) \in Seq(JobBytes)
        BY <1>0, TokenBytes
      <4>2. p \in Occurrences(Bytes(EndOfText), f)
        BY DEF TokensAt, f
      <4>3. p \in Nat /\ p + TokenLength <= Size
        BY <1>0, <4>1, <4>2, OccursAt DEF TokenLength
      <4>4. p + TokenLength > Size
        BY <1>4, <3>1
      <4> QED BY <1>0, <1>7, <4>3, <4>4
    <3> QED BY <3>2
  <2>5. SearchInv'
    <3>1. job.boundary = "eot" => Len(boundaries') = 2
      BY <2>1, <2>2
    <3> QED BY <1>2, <1>4, <2>1, <2>4, <3>1 DEF SearchInv
  <2> QED BY <1>5, <2>3, <2>5 DEF CutInv
<1> QED BY <1>8, <1>9, <1>10

\* A boundary moves to a token, or the search for one goes on.
LEMMA CutInvAlignToToken ==
  ASSUME CutInv, AlignToToken
  PROVE  CutInv'
<1> DEFINE f == job.file
           r == Read(f, offset, Window)
           t == Bytes(EndOfText)
           found == Occurrences(t, r)
<1>0. /\ f \in Seq(JobBytes) /\ Size \in Nat /\ Size = Len(f) /\ offset \in Nat /\ Bytewise(JobBytes)
      /\ Window \in Nat /\ Window > 0 /\ t \in Seq(JobBytes)
  BY JobIs, ChunksAssumption, TokenBytes DEF CutInv, BoundariesInv, Size
<1>1. /\ phase = "aligning" /\ Interior /\ byToken
      /\ UNCHANGED <<job, phase, overlap, byToken, chunks, parts, result>>
      /\ \/ Len(r) < Window /\ Settle(Len(f))
         \/ Len(r) = Window /\ found # {} /\ Settle(offset + Min(found))
         \/ Len(r) = Window /\ found = {} /\ offset' = offset + Window /\ UNCHANGED <<boundaries, at>>
  BY DEF AlignToToken
<1> HIDE DEF f, t
<1>2. /\ r \in Seq(JobBytes) /\ \A j \in 1..Len(r) : r[j] = f[offset + j]
      /\ offset <= Len(f) => Len(r) = IF offset + Window <= Len(f) THEN Window ELSE Len(f) - offset
      /\ offset > Len(f) => Len(r) = 0
  BY <1>0, ReadIs
<1> HIDE DEF r, found
<1>3. CASE Len(r) < Window /\ Settle(Len(f))
  <2>1. SettledAt(Len(f)) /\ Len(f) \in 0..Size
    BY <1>0, <1>1 DEF SettledAt
  <2> QED BY <1>1, <1>3, <2>1, CutInvSettle
<1>4. CASE Len(r) = Window /\ found # {} /\ Settle(offset + Min(found))
  <2>1. \A q \in found : q \in Nat /\ q + Len(t) <= Len(r) /\ \A j \in 1..Len(t) : r[q + j] = t[j]
    <3> TAKE q \in found
    <3>1. q \in Occurrences(t, r)
      BY DEF found
    <3> QED BY <1>0, <1>2, <3>1, OccursAt
  <2>2. Len(t) \in Nat /\ Len(r) \in Nat
    BY <1>0, <1>2
  <2>3. found \in SUBSET (0..Len(r))
    <3>1. \A q \in found : q \in 0..Len(r)
      BY <2>1, <2>2
    <3> QED BY <3>1
  <2>4. Min(found) \in found
    BY <1>4, <2>2, <2>3, BoundsOf
  <2> DEFINE q == Min(found)
             p == offset + q
  <2>5. q \in Nat /\ q + Len(t) <= Len(r) /\ \A j \in 1..Len(t) : r[q + j] = t[j]
    BY <2>1, <2>4
  <2> HIDE DEF q
  <2>6. offset + Window <= Len(f)
    <3> DEFINE l == Len(f)
               m == Len(r)
    <3>1. /\ offset <= l => m = IF offset + Window <= l THEN Window ELSE l - offset
          /\ offset > l => m = 0
          /\ m = Window /\ l \in Nat
      BY <1>0, <1>2, <1>4
    <3> HIDE DEF l, m
    <3>2. offset + Window <= l
      BY <1>0, <3>1
    <3> QED BY <3>2 DEF l
  <2>7. p \in Nat /\ p + Len(t) <= Len(f) /\ p \in 0..Size
    BY <1>0, <1>4, <2>2, <2>5, <2>6
  <2>8. \A j \in 1..Len(t) : f[p + j] = t[j]
    <3> TAKE j \in 1..Len(t)
    <3>1. q + j \in 1..Len(r) /\ offset + (q + j) = p + j
      BY <1>0, <2>2, <2>5
    <3> HIDE DEF p
    <3> QED BY <1>2, <2>5, <3>1
  <2> HIDE DEF p
  <2>9. p \in Occurrences(t, f)
    BY <1>0, <2>7, <2>8, OccursAt
  <2>10. SettledAt(p)
    BY <1>1, <2>9 DEF SettledAt, TokensAt, t, f
  <2>11. Settle(p)
    BY <1>4 DEF p, q
  <2> QED BY <1>1, <2>7, <2>10, <2>11, CutInvSettle
<1>5. CASE Len(r) = Window /\ found = {} /\ offset' = offset + Window /\ UNCHANGED <<boundaries, at>>
  <2>1. /\ job' = job /\ phase' = phase /\ byToken' = byToken /\ boundaries' = boundaries /\ at' = at
        /\ chunks' = chunks /\ parts' = parts /\ phase = "aligning"
    BY <1>1, <1>5
  <2>2. Size' = Size /\ TokensAt' = TokensAt
    BY <2>1 DEF Size, TokensAt
  <2>3. offset' \in Nat
    BY <1>0, <1>5
  <2>4. BoundariesInv'
    <3>1. \A i \in 2..at - 1 : SettledAt(boundaries[i])
      BY DEF CutInv, BoundariesInv
    <3>2. \A i \in 2..at' - 1 : SettledAt(boundaries[i])'
      BY <2>1, <2>2, <3>1 DEF SettledAt
    <3> QED BY <2>1, <2>2, <2>3, <3>2 DEF CutInv, BoundariesInv
  <2>5. SearchInv'
    BY <2>1, <2>2 DEF CutInv, SearchInv
  <2>6. CutsInv'
    BY <2>1 DEF CutInv, CutsInv
  <2> QED BY <2>4, <2>5, <2>6 DEF CutInv
<1> QED BY <1>1, <1>3, <1>4, <1>5

\* A boundary moves to a line or a scalar.
LEMMA CutInvAlignToText ==
  ASSUME CutInv, AlignToText
  PROVE  CutInv'
<1> DEFINE q == IF job.boundary = "utf8" THEN Utf8Aligned(boundaries[at]) ELSE LineAligned(boundaries[at])
<1>1. /\ phase = "aligning" /\ Interior /\ ~byToken
      /\ Settle(q)
      /\ UNCHANGED <<job, phase, overlap, byToken, chunks, parts, result>>
  BY DEF AlignToText
<1>2. job \in Jobs /\ boundaries[at] \in 0..Size
  <2>1. job \in Jobs /\ boundaries \in Seq(0..Size) /\ at \in 2..Len(boundaries)
    BY DEF CutInv, BoundariesInv
  <2>2. \A S : \A b \in Seq(S) : \A i \in 2..Len(b) : b[i] \in S
    OBVIOUS
  <2> QED BY <2>1, <2>2
<1>3. q \in 0..Size /\ Divides(job.file, q)
  BY <1>2, AlignedToScalar, AlignedToLine
<1> HIDE DEF q
<1>4. SettledAt(q)
  BY <1>1, <1>3 DEF SettledAt
<1> QED BY <1>1, <1>3, <1>4, CutInvSettle

\* What the invariant is about does not change any more.
LEMMA CutInvKept ==
  ASSUME CutInv, UNCHANGED <<job, offset, overlap, boundaries, at, byToken, chunks>>,
         \/ phase' = phase /\ phase \in {"reading", "done"}
         \/ phase' = phase /\ parts' = parts
         \/ phase = "reading" /\ phase' = "done"
  PROVE  CutInv'
<1>1. /\ Size' = Size /\ TokensAt' = TokensAt /\ JobBytes' = JobBytes /\ Seen' = Seen
  BY DEF Size, TokensAt, JobBytes, Seen
<1>2. BoundariesInv'
  <2>1. \A i \in 2..at - 1 : SettledAt(boundaries[i])
    BY DEF CutInv, BoundariesInv
  <2>2. \A i \in 2..at' - 1 : SettledAt(boundaries[i])'
    BY <1>1, <2>1 DEF SettledAt
  <2>3. phase' \in {"searching", "aligning", "reading", "done"} /\ (phase' = "searching" => phase = "searching")
    BY DEF CutInv, BoundariesInv
  <2> QED BY <1>1, <2>2, <2>3 DEF CutInv, BoundariesInv
<1>3. SearchInv'
  <2>1. (phase' = "searching" <=> phase = "searching") /\ job' = job /\ overlap' = overlap
        /\ boundaries' = boundaries /\ byToken' = byToken
    OBVIOUS
  <2> QED BY <1>1, <2>1 DEF CutInv, SearchInv
<1>4. CutsInv'
  <2>1. Cuts' = Cuts
    BY DEF Cuts
  <2> QED BY <2>1 DEF CutInv, CutsInv
<1> QED BY <1>2, <1>3, <1>4 DEF CutInv

\* The chunks are cut.
LEMMA CutInvCut ==
  ASSUME CutInv, Cut
  PROVE  CutInv'
<1>1. /\ phase = "aligning" /\ ~Interior /\ phase' = "reading"
      /\ chunks' = ChunksAt(Cuts)
      /\ UNCHANGED <<job, offset, overlap, boundaries, at, byToken, parts, result>>
  BY DEF Cut, ChunksAt, Cuts
<1>2. /\ Size' = Size /\ TokensAt' = TokensAt /\ JobBytes' = JobBytes /\ Cuts' = Cuts
  BY <1>1 DEF Size, TokensAt, JobBytes, Cuts
<1>3. BoundariesInv'
  <2>1. \A i \in 2..at - 1 : SettledAt(boundaries[i])
    BY DEF CutInv, BoundariesInv
  <2>2. \A i \in 2..at' - 1 : SettledAt(boundaries[i])'
    BY <1>1, <1>2, <2>1 DEF SettledAt
  <2> QED BY <1>1, <1>2, <2>2 DEF CutInv, BoundariesInv
<1>4. SearchInv'
  BY <1>1, <1>2 DEF CutInv, SearchInv
<1>5. CutsInv'
  <2>1. at = Len(boundaries)
    <3>1. at \in 2..Len(boundaries) /\ boundaries \in Seq(0..Size)
      BY DEF CutInv, BoundariesInv
    <3>2. Len(boundaries) \in Nat
      BY <3>1
    <3> QED BY <1>1, <3>1, <3>2 DEF Interior
  <2>2. ChunksAt(Cuts)' = ChunksAt(Cuts)
    BY <1>2 DEF ChunksAt
  <2> QED BY <1>1, <2>1, <2>2 DEF CutsInv
<1> QED BY <1>3, <1>4, <1>5 DEF CutInv

\* Every step keeps it.
LEMMA CutInvNext == CutInv /\ [Next]_vars => CutInv'
<1> SUFFICES ASSUME CutInv, [Next]_vars PROVE CutInv'
  OBVIOUS
<1>1. CASE Search
  BY <1>1, CutInvSearch
<1>2. CASE AlignToToken
  BY <1>2, CutInvAlignToToken
<1>3. CASE AlignToText
  BY <1>3, CutInvAlignToText
<1>4. CASE Cut
  BY <1>4, CutInvCut
<1>5. ASSUME NEW k \in DOMAIN chunks, ReadChunk(k) PROVE CutInv'
  BY <1>5, CutInvKept DEF ReadChunk
<1>6. ASSUME NEW p \in parts, NEW q \in parts, Join(p, q) PROVE CutInv'
  BY <1>6, CutInvKept DEF Join
<1>7. CASE Finish
  BY <1>7, CutInvKept DEF Finish
<1>8. CASE Done
  BY <1>8, CutInvKept DEF Done, vars
<1>9. CASE UNCHANGED vars
  BY <1>9, CutInvKept DEF vars
<1> QED BY <1>1, <1>2, <1>3, <1>4, <1>5, <1>6, <1>7, <1>8, <1>9 DEF Next

-----------------------------------------------------------------------------
(* The chunks are the file. *)

\* The cuts begin where the file begins, end where it ends, and are settled.
LEMMA CutsAre ==
  ASSUME CutInv, phase \in {"reading", "done"}
  PROVE  /\ Cuts \in Seq(0..Size) /\ Len(Cuts) \in Nat /\ Len(Cuts) >= 2
         /\ Cuts[1] = 0 /\ Cuts[Len(Cuts)] = Size
         /\ \A k \in 1..Len(Cuts) - 1 : Cuts[k] <= Cuts[k + 1]
         /\ \A k \in 2..Len(Cuts) - 1 : SettledAt(Cuts[k])
         /\ Len(boundaries) = 2 => Len(Cuts) = 2
         /\ chunks = ChunksAt(Cuts)
<1>1. /\ boundaries \in Seq(0..Size) /\ at \in 2..Len(boundaries)
      /\ boundaries[1] = 0 /\ boundaries[Len(boundaries)] = Size
      /\ Size = 0 => Len(boundaries) = 2
      /\ \A i \in 2..at - 1 : SettledAt(boundaries[i])
      /\ at = Len(boundaries) /\ chunks = ChunksAt(Cuts)
      /\ Size \in Nat /\ (job.file = << >> <=> Size = 0)
  BY JobIs DEF CutInv, BoundariesInv, CutsInv
<1> DEFINE b == boundaries
           n == Len(b)
<1>2. n \in Nat /\ n >= 2 /\ b[1] = 0 /\ b[n] = Size /\ DOMAIN b = 1..n
  BY <1>1
<1> HIDE DEF n
<1>3. CASE job.file = << >>
  <2>1. Cuts = b /\ n = 2 /\ Size = 0
    BY <1>1, <1>3 DEF Cuts, n
  <2>2. 2..2 - 1 = {} /\ 1..2 - 1 = {1} /\ 1 + 1 = 2
    OBVIOUS
  <2>3. \A k \in 1..n - 1 : b[k] <= b[k + 1]
    <3>1. b[1] <= b[1 + 1]
      BY <1>1, <1>2, <2>1
    <3> HIDE DEF b
    <3> QED BY <2>1, <2>2, <3>1
  <2>4. \A k \in 2..n - 1 : SettledAt(b[k])
    BY <2>1, <2>2
  <2> QED BY <1>1, <1>2, <2>1, <2>3, <2>4 DEF n
<1>4. CASE job.file # << >>
  <2> DEFINE S == Elements(b)
             c == InOrder(S)
             m == Len(c)
  <2>1. Cuts = c /\ Size > 0
    BY <1>1, <1>4 DEF Cuts
  <2>2. S \subseteq 0..Size /\ S \in SUBSET Int /\ IsFiniteSet(S)
    <3>1. \A i \in 1..n : b[i] \in 0..Size
      BY <1>1 DEF n
    <3>2. S \subseteq 0..Size
      BY <1>2, <3>1 DEF Elements
    <3>3. IsFiniteSet(0..Size)
      BY <1>1, FS_Interval
    <3>4. 0..Size \subseteq Int
      BY <1>1
    <3> HIDE DEF S
    <3> QED BY <3>2, <3>3, <3>4, FS_Subset
  <2>3. 0 \in S /\ Size \in S
    <3>1. 1 \in DOMAIN b /\ n \in DOMAIN b
      BY <1>2
    <3> QED BY <1>2, <3>1 DEF Elements
  <2>4. \A x \in S : x # 0 /\ x # Size => SettledAt(x) /\ n # 2
    <3> TAKE x \in S
    <3>1. PICK i \in 1..n : x = b[i]
      BY <1>2 DEF Elements
    <3>2. x # 0 /\ x # Size => i # 1 /\ i # n
      BY <1>2, <3>1
    <3>3. i # 1 /\ i # n => i \in 2..at - 1 /\ n # 2
      <4>1. at = n
        BY <1>1 DEF n
      <4> HIDE DEF n
      <4> QED BY <1>2, <4>1
    <3> QED BY <1>1, <3>1, <3>2, <3>3
  <2> HIDE DEF S, b
  <2>5. c \in Seq(Int) /\ Ascending(c) /\ Elements(c) = S
    BY <2>2, Ordered
  <2>6. m \in Nat /\ DOMAIN c = 1..m
    BY <2>5
  <2> HIDE DEF c, m
  <2>7. \A k \in 1..m : c[k] \in S
    BY <2>5, <2>6 DEF Elements
  <2>8. \A i, j \in 1..m : i < j => c[i] < c[j]
    BY <2>5 DEF Ascending, m
  <2>9. \A k \in 1..m : c[k] \in Int /\ 0 <= c[k] /\ c[k] <= Size
    <3>1. \A x \in S : x \in Int /\ 0 <= x /\ x <= Size
      BY <1>1, <2>2
    <3> QED BY <2>7, <3>1
  <2>10. PICK i \in 1..m : c[i] = 0
    BY <2>3, <2>5, <2>6 DEF Elements
  <2>11. PICK j \in 1..m : c[j] = Size
    BY <2>3, <2>5, <2>6 DEF Elements
  <2>12. 1 \in 1..m /\ m \in 1..m
    BY <2>6, <2>10
  <2>13. i = 1
    <3>1. i > 1 => c[1] < c[i]
      BY <2>8, <2>12
    <3> QED BY <2>9, <2>10, <2>12, <3>1
  <2>14. j = m
    <3>1. j < m => c[j] < c[m]
      BY <2>6, <2>8, <2>12
    <3> QED BY <1>1, <2>6, <2>9, <2>11, <2>12, <3>1
  <2>15. m >= 2
    BY <2>1, <2>6, <2>10, <2>11, <2>13, <2>14
  <2>16. \A k \in 1..m - 1 : c[k] <= c[k + 1]
    <3> TAKE k \in 1..m - 1
    <3>1. k \in 1..m /\ k + 1 \in 1..m /\ k < k + 1
      BY <2>6
    <3>2. c[k] < c[k + 1]
      BY <2>8, <3>1
    <3> QED BY <2>9, <3>1, <3>2
  <2>17. \A k \in 2..m - 1 : c[k] \in S /\ c[k] # 0 /\ c[k] # Size
    <3> TAKE k \in 2..m - 1
    <3>1. k \in 1..m /\ 1 < k /\ k < m
      BY <2>6
    <3>2. c[1] < c[k] /\ c[k] < c[m]
      BY <2>8, <2>12, <3>1
    <3>3. c[1] = 0 /\ c[m] = Size /\ c[k] \in Int /\ Size \in Nat
      BY <1>1, <2>9, <2>10, <2>11, <2>13, <2>14, <3>1
    <3>4. c[k] # 0 /\ c[k] # Size
      BY <3>2, <3>3
    <3> QED BY <2>7, <3>1, <3>4
  <2>18. n = 2 => m = 2
    <3>1. m # 2 => 2 \in 2..m - 1
      BY <2>6, <2>15
    <3> QED BY <2>4, <2>17, <3>1
  <2>19. c \in Seq(0..Size)
    <3> DEFINE T == 0..Size
    <3>1. \A k \in 1..m : c[k] \in T
      BY <2>2, <2>7
    <3>2. c = [k \in 1..m |-> c[k]]
      BY <2>5, <2>6
    <3> HIDE DEF T
    <3>3. c \in Seq(T)
      BY <2>6, <3>1, <3>2
    <3> QED BY <3>3 DEF T
  <2> QED BY <1>1, <2>1, <2>4, <2>6, <2>10, <2>11, <2>13, <2>14, <2>15, <2>16, <2>17, <2>18, <2>19 DEF m, n, b
<1> QED BY <1>3, <1>4

\* A part, and what comes behind it.
LEMMA RestParts ==
  ASSUME NEW B, NEW s \in Seq(B), NEW a \in Nat, NEW b \in Nat, a <= b, b <= Len(s)
  PROVE  /\ SubSeq(s, a + 1, b) \in Seq(B) /\ Rest(s, b + 1) \in Seq(B)
         /\ SubSeq(s, 1, a) \in Seq(B)
         /\ Rest(s, a + 1) = Cat(SubSeq(s, a + 1, b), Rest(s, b + 1))
         /\ SubSeq(s, 1, b) = Cat(SubSeq(s, 1, a), SubSeq(s, a + 1, b))
<1> DEFINE r == Rest(s, a + 1)
           k == b - a
           p == SubSeq(s, a + 1, b)
<1>0. /\ Len(s) \in Nat /\ k \in Nat /\ a + 1 \in 1..Len(s) + 1 /\ Len(s) + 1 - (a + 1) = Len(s) - a
      /\ k <= Len(s) - a /\ b = a + k
  OBVIOUS
<1>1. /\ r \in Seq(B) /\ Len(r) = Len(s) - a
      /\ \A j \in 1..Len(s) - a : r[j] = s[(a + 1) + j - 1]
      /\ \A j \in 1..Len(s) + 2 - (a + 1) : Rest(r, j) = Rest(s, (a + 1) + j - 1)
  <2>1. /\ r \in Seq(B) /\ Len(r) = Len(s) + 1 - (a + 1)
        /\ \A j \in 1..Len(s) + 1 - (a + 1) : r[j] = s[(a + 1) + j - 1]
        /\ \A j \in 1..Len(s) + 2 - (a + 1) : Rest(r, j) = Rest(s, (a + 1) + j - 1)
    BY <1>0, RestIs
  <2> QED BY <1>0, <2>1
<1>2. Rest(r, k + 1) = Rest(s, b + 1)
  <2>1. k + 1 \in 1..Len(s) + 2 - (a + 1) /\ (a + 1) + (k + 1) - 1 = b + 1
    BY <1>0
  <2> HIDE DEF r, k
  <2> QED BY <1>1, <2>1
<1>3. p \in Seq(B) /\ Len(p) = k /\ \A j \in 1..k : p[j] = s[a + j]
  BY PartIs
<1> HIDE DEF r, k, p
<1>4. /\ SubSeq(r, 1, k) \in Seq(B) /\ Len(SubSeq(r, 1, k)) = k
      /\ r = Cat(SubSeq(r, 1, k), Rest(r, k + 1)) /\ Rest(r, k + 1) \in Seq(B)
  <2>1. k \in 0..Len(r)
    BY <1>0, <1>1
  <2> QED BY <1>1, <2>1, FirstIs
<1>5. SubSeq(r, 1, k) = p
  <2> DEFINE u == SubSeq(r, 1, k)
             z == Rest(r, k + 1)
  <2>1. r = Cat(u, z) /\ u \in Seq(B) /\ z \in Seq(B) /\ Len(u) = k
    BY <1>4
  <2> HIDE DEF u, z
  <2>2. \A j \in 1..Len(u) : Cat(u, z)[j] = u[j]
    BY <2>1, CatParts, Zenon
  <2>3. \A j \in 1..k : u[j] = s[a + j]
    <3> TAKE j \in 1..k
    <3>1. j \in 1..Len(s) - a /\ (a + 1) + j - 1 = a + j
      BY <1>0
    <3>2. u[j] = r[j]
      BY <2>1, <2>2
    <3> QED BY <1>1, <3>1, <3>2
  <2>a. \A j \in 1..k : u[j] = p[j]
    BY <1>3, <2>3
  <2>4. u = p
    BY <1>3, <2>1, <2>a
  <2> QED BY <2>4 DEF u
<1>6. SubSeq(s, 1, a) \in Seq(B) /\ Len(SubSeq(s, 1, a)) = a /\ s = Cat(SubSeq(s, 1, a), r)
  <2>1. a \in 0..Len(s)
    BY <1>0
  <2> QED BY <2>1, FirstIs DEF r
<1>7. SubSeq(s, 1, b) = Cat(SubSeq(s, 1, a), p)
  <2> DEFINE h == SubSeq(s, 1, a)
             z == Rest(s, b + 1)
             y == Cat(h, p)
  <2>1. h \in Seq(B) /\ Len(h) = a /\ z \in Seq(B) /\ s = Cat(h, Cat(p, z))
    BY <1>2, <1>4, <1>5, <1>6
  <2> HIDE DEF h, z
  <2>2. y \in Seq(B) /\ s = Cat(y, z)
    BY <1>3, <2>1, ConsAlgebra
  <2>3. Len(y) = b
    <3>1. Len(Cat(h, p)) = Len(h) + Len(p) /\ Len(h) \in Nat
      BY <1>3, <2>1, CatParts
    <3> QED BY <1>0, <1>3, <2>1, <3>1
  <2> HIDE DEF y
  <2>4. SubSeq(Cat(y, z), 1, Len(y)) = y
    BY <2>1, <2>2, CatParts
  <2>5. SubSeq(s, 1, b) = y
    BY <2>2, <2>3, <2>4
  <2> QED BY <2>5 DEF y, h
<1> QED BY <1>2, <1>3, <1>4, <1>5, <1>6, <1>7 DEF r, p

\* One more element.
LEMMA AppendIs ==
  ASSUME NEW W, NEW d \in Nat, NEW m, m = d + 1, NEW b \in Seq(W), Len(b) = d, NEW x \in W
  PROVE  /\ Append(b, x) \in Seq(W) /\ Len(Append(b, x)) = m
         /\ \A k \in 1..m : Append(b, x)[k] = IF k <= d THEN b[k] ELSE x
OBVIOUS

\* What is told piece by piece: g[k] is left of the whole when the first k - 1
\* of the n pieces are told.
Told(U, n, f, g) ==
  /\ n \in Nat /\ f \in Seq(Seq(U)) /\ n = Len(f) /\ g[n + 1] = << >>
  /\ \A k \in 1..n + 1 : g[k] \in Seq(U)
  /\ \A k \in 1..n : g[k] = Cat(f[k], g[k + 1])

\* The pieces are the whole.
LEMMA PieceByPiece ==
  ASSUME NEW U, NEW n, NEW f, NEW g, Told(U, n, f, g)
  PROVE  g[1] \in Seq(U) /\ FlattenSeq(f) = g[1]
<1> DEFINE h(d) == [k \in 1..d |-> f[k]]
           S == {d \in Nat : d <= n => Cat(FlattenSeq(h(d)), g[d + 1]) = g[1]}
<1> /\ n \in Nat /\ f \in Seq(Seq(U)) /\ n = Len(f) /\ g[n + 1] = << >>
    /\ \A k \in 1..n + 1 : g[k] \in Seq(U)
    /\ \A k \in 1..n : g[k] = Cat(f[k], g[k + 1])
  BY DEF Told
<1>00. \A k \in 1..n : f[k] \in Seq(U)
  <2> DEFINE W == Seq(U)
  <2>1. f \in Seq(W)
    OBVIOUS
  <2> HIDE DEF W
  <2>2. \A k \in 1..n : f[k] \in W
    BY <2>1
  <2> QED BY <2>2 DEF W
<1>0. \A d \in Nat : d <= n => h(d) \in Seq(Seq(U))
  <2> TAKE d \in Nat
  <2> SUFFICES ASSUME d <= n PROVE h(d) \in Seq(Seq(U))
    OBVIOUS
  <2>1. \A k \in 1..d : f[k] \in Seq(U)
    BY <1>00
  <2> QED BY <2>1
<1>1. 0 \in S
  <2>1. h(0) = << >>
    OBVIOUS
  <2>2. FlattenSeq(<< >>) = << >> /\ << >> \in Seq(U)
    BY FlattenCat
  <2>3. Cat(<< >>, g[1]) = g[1] /\ 0 + 1 = 1
    BY ConsAlgebra
  <2> HIDE DEF h
  <2> QED BY <2>1, <2>2, <2>3
<1>2. ASSUME NEW d \in S PROVE d + 1 \in S
  <2> SUFFICES ASSUME d + 1 <= n PROVE Cat(FlattenSeq(h(d + 1)), g[(d + 1) + 1]) = g[1]
    OBVIOUS
  <2>1. d \in Nat /\ d <= n /\ Cat(FlattenSeq(h(d)), g[d + 1]) = g[1]
    OBVIOUS
  <2>2. d + 1 \in 1..n /\ (d + 1) + 1 \in 1..n + 1
    BY <2>1
  <2>3. f[d + 1] \in Seq(U) /\ g[d + 1] = Cat(f[d + 1], g[(d + 1) + 1]) /\ g[(d + 1) + 1] \in Seq(U)
    BY <1>00, <2>2
  <2>4. h(d + 1) = Append(h(d), f[d + 1])
    <3>1. \A k \in 1..d : k \in 1..d + 1 /\ k # d + 1
      BY <2>1
    <3>2. \A k \in 1..d + 1 : k # d + 1 => k \in 1..d
      BY <2>1
    <3>3. h(d) \in Seq(Seq(U)) /\ Len(h(d)) = d /\ h(d + 1) \in Seq(Seq(U)) /\ Len(h(d + 1)) = d + 1
      BY <1>0, <2>1
    <3>4. \A k \in 1..d + 1 : h(d + 1)[k] = f[k]
      OBVIOUS
    <3>5. \A k \in 1..d : h(d)[k] = f[k]
      OBVIOUS
    <3> DEFINE W == Seq(U)
               b == h(d)
               c == h(d + 1)
               x == f[d + 1]
               m == d + 1
               a == Append(b, x)
    <3>6. /\ b \in Seq(W) /\ Len(b) = d /\ c \in Seq(W) /\ Len(c) = m /\ x \in W
          /\ d \in Nat /\ m = d + 1
      BY <2>1, <2>3, <3>3
    <3>7. (\A k \in 1..m : c[k] = f[k]) /\ (\A k \in 1..d : b[k] = f[k]) /\ x = f[m]
      BY <3>4, <3>5
    <3> HIDE DEF h, W, b, c, x, m
    <3>8. a \in Seq(W) /\ Len(a) = m /\ \A k \in 1..m : a[k] = IF k <= d THEN b[k] ELSE x
      BY <3>6, AppendIs
    <3>9. \A k \in 1..m : a[k] = c[k]
      <4> TAKE k \in 1..m
      <4>1. CASE k <= d
        <5>1. k \in 1..d
          BY <3>6, <4>1
        <5> QED BY <3>7, <3>8, <4>1, <5>1
      <4>2. CASE ~(k <= d)
        <5>1. k = m
          BY <3>6, <4>2
        <5> QED BY <3>7, <3>8, <4>2, <5>1
      <4> QED BY <4>1, <4>2
    <3> HIDE DEF a
    <3>10. c = a
      BY <3>6, <3>8, <3>9
    <3> QED BY <3>10 DEF a, b, c, x, m
  <2>5. h(d) \in Seq(Seq(U))
    BY <1>0, <2>1
  <2> HIDE DEF h, S
  <2>6. FlattenSeq(h(d + 1)) = Cat(FlattenSeq(h(d)), f[d + 1]) /\ FlattenSeq(h(d)) \in Seq(U)
    BY <2>3, <2>4, <2>5, Flattened DEF Cat
  <2> DEFINE F == FlattenSeq(h(d))
             x == f[d + 1]
             y == g[(d + 1) + 1]
  <2>7. F \in Seq(U) /\ x \in Seq(U) /\ y \in Seq(U)
    BY <2>3, <2>6
  <2>8. Cat(F, Cat(x, y)) = g[1] /\ FlattenSeq(h(d + 1)) = Cat(F, x)
    BY <2>1, <2>3, <2>6
  <2> HIDE DEF F, x
  <2>9. Cat(Cat(F, x), y) = g[1]
    <3> HIDE DEF y
    <3>1. \A u, v, w \in Seq(U) : Cat(Cat(u, v), w) = Cat(u, Cat(v, w))
      BY ConsAlgebra, Zenon
    <3>2. Cat(Cat(F, x), y) = Cat(F, Cat(x, y))
      BY <2>7, <3>1
    <3> QED BY <2>8, <3>2
  <2> QED BY <2>8, <2>9
<1>3. S = Nat
  <2>1. S \in SUBSET Nat
    OBVIOUS
  <2> HIDE DEF S
  <2> QED BY <1>1, <1>2, <2>1, NatInd
<1>4. Cat(FlattenSeq(h(n)), g[n + 1]) = g[1]
  <2>1. n \in S
    BY <1>3
  <2> HIDE DEF h
  <2> QED BY <2>1
<1>5. FlattenSeq(h(n)) \in Seq(U)
  <2>1. h(n) \in Seq(Seq(U))
    BY <1>0
  <2> HIDE DEF h
  <2> QED BY <2>1, Flattened
<1>6. Cat(FlattenSeq(h(n)), << >>) = FlattenSeq(h(n))
  <2> HIDE DEF h
  <2> QED BY <1>5, ConsAlgebra
<1>7. g[1] \in Seq(U)
  OBVIOUS
<1>8. h(n) = f
  <2> DEFINE W == Seq(U)
  <2>1. f \in Seq(W)
    OBVIOUS
  <2> HIDE DEF W
  <2> QED BY <2>1
<1> HIDE DEF h
<1> QED BY <1>4, <1>6, <1>7, <1>8

\* The bytes of a chunk, and all from where it begins.
PieceOf(k) == SubSeq(job.file, Cuts[k] + 1, Cuts[k + 1])

FileFrom(k) == Rest(job.file, Cuts[k] + 1)

\* Settled boundaries cut no scalar.
LEMMA SettledDivides ==
  ASSUME job \in Jobs, NEW p \in 0..Size, SettledAt(p)
  PROVE  Divides(job.file, p)
<1>1. /\ job.file \in Seq(JobBytes) /\ Size \in Nat /\ Size = Len(job.file) /\ Bytewise(JobBytes)
  BY JobIs DEF Size
<1>2. CASE p \in TokensAt
  <2> DEFINE t == Bytes(EndOfText)
  <2>1. t \in Seq(JobBytes) /\ Len(t) \in Nat /\ Len(t) > 0 /\ t[1] \notin Continuation
    BY <1>1, TokenBytes
  <2> HIDE DEF t
  <2>2. \A j \in 1..Len(t) : job.file[p + j] = t[j]
    <3>1. p \in Occurrences(t, job.file)
      BY <1>2 DEF TokensAt, t
    <3> QED BY <1>1, <2>1, <3>1, OccursAt
  <2>3. 1 \in 1..Len(t)
    BY <2>1
  <2> QED BY <2>1, <2>2, <2>3 DEF Divides
<1>3. CASE p \notin TokensAt
  <2>1. p = Size \/ Divides(job.file, p)
    BY <1>3 DEF SettledAt
  <2> QED BY <1>1, <2>1 DEF Divides
<1> QED BY <1>2, <1>3

\* A chunk is read as part of the file, and decoded as such.
LEMMA ChunkIs ==
  ASSUME CutInv, phase \in {"reading", "done"}
  PROVE  /\ DOMAIN chunks = 1..Len(Cuts) - 1
         /\ \A k \in 1..Len(Cuts) : FileFrom(k) \in Seq(JobBytes)
         /\ FileFrom(1) = job.file /\ FileFrom(Len(Cuts)) = << >>
         /\ \A k \in 1..Len(Cuts) - 1 :
              /\ Read(job.file, chunks[k].from, chunks[k].to - chunks[k].from) = PieceOf(k)
              /\ PieceOf(k) \in Seq(JobBytes)
              /\ FileFrom(k) = Cat(PieceOf(k), FileFrom(k + 1))
              /\ Lossy(FileFrom(k)) = Cat(Lossy(PieceOf(k)), Lossy(FileFrom(k + 1)))
<1> DEFINE f == job.file
           n == Len(Cuts)
           c == Cuts
<1>0. /\ f \in Seq(JobBytes) /\ Size \in Nat /\ Size = Len(f) /\ Bytewise(JobBytes) /\ job \in Jobs
  BY JobIs DEF CutInv, BoundariesInv, Size
<1>1. /\ c \in Seq(0..Size) /\ n \in Nat /\ n >= 2 /\ c[1] = 0 /\ c[n] = Size
      /\ \A k \in 1..n - 1 : c[k] <= c[k + 1]
      /\ \A k \in 2..n - 1 : SettledAt(c[k])
      /\ chunks = ChunksAt(c)
  BY CutsAre
<1>2. \A k \in 1..n : c[k] \in 0..Size
  <2> DEFINE S == 0..Size
  <2>1. c \in Seq(S) /\ n = Len(c)
    BY <1>1
  <2> HIDE DEF S, c, n
  <2>2. \A k \in 1..n : c[k] \in S
    BY <2>1
  <2> QED BY <2>2 DEF S
<1> HIDE DEF f, c, n
<1>3. \A k \in 1..n : c[k] \in Nat /\ c[k] <= Len(f)
  BY <1>0, <1>2
<1>4. chunks = [k \in 1..n - 1 |-> [from |-> c[k], to |-> c[k + 1]]]
  BY <1>1 DEF ChunksAt, c, n
<1>5. \A k \in 1..n - 1 : k \in 1..n /\ k + 1 \in 1..n
  BY <1>1
<1>6. \A k \in 1..n : FileFrom(k) \in Seq(JobBytes)
  <2> TAKE k \in 1..n
  <2>1. c[k] + 1 \in 1..Len(f) + 1
    BY <1>0, <1>3
  <2>2. Rest(f, c[k] + 1) \in Seq(JobBytes)
    BY <1>0, <2>1, RestIs
  <2> QED BY <2>2 DEF FileFrom, f, c
<1>7. FileFrom(1) = f
  <2>1. Rest(f, 0 + 1) = f
    BY <1>0 DEF Rest
  <2> QED BY <1>1, <2>1 DEF FileFrom, f, c
<1>8. FileFrom(n) = << >>
  <2>1. Size + 1 \in 1..Len(f) + 1 /\ Size + 1 = Len(f) + 1
    BY <1>0
  <2>2. Rest(f, Size + 1) = << >>
    BY <1>0, <2>1, RestIs
  <2> QED BY <1>1, <2>2 DEF FileFrom, f, c
<1>9. ASSUME NEW k \in 1..n - 1
      PROVE  /\ Read(f, chunks[k].from, chunks[k].to - chunks[k].from) = PieceOf(k)
             /\ PieceOf(k) \in Seq(JobBytes)
             /\ FileFrom(k) = Cat(PieceOf(k), FileFrom(k + 1))
             /\ Lossy(FileFrom(k)) = Cat(Lossy(PieceOf(k)), Lossy(FileFrom(k + 1)))
  <2> DEFINE a == c[k]
             b == c[k + 1]
             p == SubSeq(f, a + 1, b)
             r == Rest(f, b + 1)
             h == SubSeq(f, 1, a)
  <2>1. a \in Nat /\ b \in Nat /\ a <= b /\ b <= Len(f) /\ k + 1 \in 1..n
    BY <1>1, <1>3, <1>5
  <2>2. chunks[k].from = a /\ chunks[k].to = b
    BY <1>4
  <2> HIDE DEF a, b
  <2>3. Read(f, a, b - a) = p
    <3>1. a + (b - a) = b /\ Len(f) \in Nat
      BY <1>0, <2>1
    <3>2. Min({b, Len(f)}) = b
      BY <2>1, <3>1, LesserOf
    <3> QED BY <3>1, <3>2 DEF Read
  <2>4. PieceOf(k) = p /\ FileFrom(k) = Rest(f, a + 1) /\ FileFrom(k + 1) = r
    BY DEF PieceOf, FileFrom, f, c, a, b
  <2>5. /\ p \in Seq(JobBytes) /\ r \in Seq(JobBytes) /\ h \in Seq(JobBytes)
        /\ Rest(f, a + 1) = Cat(p, r)
        /\ SubSeq(f, 1, b) = Cat(h, p)
    <3>1. f \in Seq(JobBytes) /\ a \in Nat /\ b \in Nat /\ a <= b /\ b <= Len(f)
      BY <1>0, <2>1
    <3> QED BY <3>1, RestParts
  <2> HIDE DEF p, r, h
  <2>6. Clean(JobBytes, p, r)
    <3>1. b \in 0..Size
      BY <1>0, <2>1
    <3>2. Divides(f, b)
      <4>1. CASE k + 1 = n
        <5>1. b = Len(f)
          BY <1>0, <1>1, <4>1 DEF b
        <5> QED BY <5>1 DEF Divides
      <4>2. CASE k + 1 # n
        <5>1. k + 1 \in 2..n - 1
          BY <1>1, <4>2
        <5>2. SettledAt(b)
          BY <1>1, <5>1 DEF b
        <5> QED BY <1>0, <3>1, <5>2, SettledDivides DEF f
      <4> QED BY <4>1, <4>2
    <3>3. b \in 0..Len(f)
      BY <1>0, <3>1
    <3>4. Clean(JobBytes, SubSeq(f, 1, b), Rest(f, b + 1))
      BY <1>0, <3>2, <3>3, DividesCleanly
    <3>5. Clean(JobBytes, Cat(h, p), r)
      BY <2>5, <3>4 DEF r
    <3> QED BY <2>5, <3>5, CleanEnd
  <2>7. Lossy(Cat(p, r)) = Cat(Lossy(p), Lossy(r))
    BY <1>0, <2>5, <2>6, LossyCat
  <2> QED BY <2>2, <2>3, <2>4, <2>5, <2>7
<1> QED BY <1>4, <1>6, <1>7, <1>8, <1>9 DEF f, n, c

\* The invariant says so.
LEMMA CutInvGives ==
  ASSUME CutInv
  PROVE  ChunksAreTheFile
<1> SUFFICES ASSUME phase = "reading"
             PROVE  FlattenSeq([k \in DOMAIN chunks |->
                      Lossy(Read(job.file, chunks[k].from, chunks[k].to - chunks[k].from))])
                        = Lossy(job.file)
  BY DEF ChunksAreTheFile
<1> DEFINE n == Len(Cuts) - 1
           f == [k \in DOMAIN chunks |->
                   Lossy(Read(job.file, chunks[k].from, chunks[k].to - chunks[k].from))]
           g == [k \in 1..n + 1 |-> Lossy(FileFrom(k))]
<1>1. Len(Cuts) \in Nat /\ Len(Cuts) >= 2
  BY CutsAre
<1>2. /\ DOMAIN chunks = 1..n
      /\ \A k \in 1..Len(Cuts) : FileFrom(k) \in Seq(JobBytes)
      /\ FileFrom(1) = job.file /\ FileFrom(Len(Cuts)) = << >>
      /\ \A k \in 1..n :
           /\ Read(job.file, chunks[k].from, chunks[k].to - chunks[k].from) = PieceOf(k)
           /\ PieceOf(k) \in Seq(JobBytes)
           /\ Lossy(FileFrom(k)) = Cat(Lossy(PieceOf(k)), Lossy(FileFrom(k + 1)))
  BY ChunkIs
<1>3. n \in Nat /\ n + 1 = Len(Cuts) /\ 1 \in 1..n + 1 /\ n + 1 \in 1..n + 1
      /\ \A k \in 1..n : k \in 1..n + 1 /\ k + 1 \in 1..n + 1
  BY <1>1
<1> HIDE DEF n
<1>4. Lossy(<< >>) = << >> /\ \A s \in Seq(JobBytes) : Lossy(s) \in Seq(Chars)
  BY LossySteps
<1>5. g[n + 1] = << >> /\ g[1] = Lossy(job.file) /\ \A k \in 1..n + 1 : g[k] \in Seq(Chars)
  BY <1>2, <1>3, <1>4
<1>6. \A k \in 1..n : f[k] \in Seq(Chars) /\ g[k] = Cat(f[k], g[k + 1])
  BY <1>2, <1>3, <1>4
<1>7. f \in Seq(Seq(Chars)) /\ Len(f) = n
  <2>1. f = [k \in 1..n |-> f[k]]
    BY <1>2
  <2> DEFINE W == Seq(Chars)
  <2>2. \A k \in 1..n : f[k] \in W
    BY <1>6
  <2> HIDE DEF f, W
  <2>3. f \in Seq(W) /\ Len(f) = n
    BY <1>3, <2>1, <2>2
  <2> QED BY <2>3 DEF W
<1> HIDE DEF g
<1>8. g[1] \in Seq(Chars) /\ FlattenSeq(f) = g[1]
  <2> HIDE DEF f
  <2>1. \A k \in 1..n : g[k] = Cat(f[k], g[k + 1])
    BY <1>6
  <2>2. n \in Nat /\ f \in Seq(Seq(Chars)) /\ n = Len(f)
    BY <1>3, <1>7
  <2>3. g[n + 1] = << >> /\ \A k \in 1..n + 1 : g[k] \in Seq(Chars)
    BY <1>5
  <2> HIDE DEF n
  <2>4. Told(Chars, n, f, g)
    BY <2>1, <2>2, <2>3 DEF Told
  <2> QED BY <2>4, PieceByPiece
<1> QED BY <1>5, <1>7, <1>8

\* However a file is cut, whatever its bytes, the chunks are all of it, in
\* order, and decode to what it decodes to (ChunksAreTheFile).
THEOREM CutsKeepTheFile == Spec => []ChunksAreTheFile
<1>1. CutInv => ChunksAreTheFile
  BY CutInvGives
<1> QED BY <1>1, CutInvInit, CutInvNext, PTL DEF Spec

-----------------------------------------------------------------------------
(* Splitting at special tokens. *)

\* A list of tokens, none of them empty.
Tokens(B, sp) == sp \in Seq(Seq(B)) /\ \A t \in DOMAIN sp : sp[t] # << >>

Piece(B) == [special : BOOLEAN, text : Seq(B)]

SpecialPiece(t) == [special |-> TRUE, text |-> t]

OrdinaryPiece(t) == [special |-> FALSE, text |-> t]

\* Where the first token is, and which one is at the beginning.
NextStart(sp, s) == Min({j \in 1..Len(s) : MatchesAt(s, sp, j) # {}} \cup {Len(s) + 1})

TokenAt(sp, s) == sp[Min(MatchesAt(s, sp, 1))]

SplitOut(B, sp) ==
  [s \in Seq(B) |-> IF NextStart(sp, s) = 1 THEN <<SpecialPiece(TokenAt(sp, s))>>
                    ELSE <<OrdinaryPiece(SubSeq(s, 1, NextStart(sp, s) - 1))>>]

SplitStep(B, sp) ==
  [s \in Seq(B) |-> IF NextStart(sp, s) = 1 THEN Len(TokenAt(sp, s)) ELSE NextStart(sp, s) - 1]

\* What occurs behind a position.
LEMMA OccursRest ==
  ASSUME NEW B, NEW t \in Seq(B), NEW s \in Seq(B), NEW i \in 1..Len(s) + 1, NEW p \in Nat
  PROVE  p \in Occurrences(t, Rest(s, i)) <=> p + i - 1 \in Occurrences(t, s)
<1> DEFINE r == Rest(s, i)
           n == Len(s)
           m == Len(t)
           q == p + i - 1
<1>0. n \in Nat /\ m \in Nat /\ i \in Nat /\ i >= 1 /\ i <= n + 1 /\ q \in Nat
  OBVIOUS
<1>1. /\ r \in Seq(B) /\ Len(r) = n + 1 - i
      /\ \A k \in 1..n + 1 - i : r[k] = s[i + k - 1]
  BY RestIs
<1>2. p \in Occurrences(t, r) <=> p \in Nat /\ p + m <= Len(r) /\ \A j \in 1..m : r[p + j] = t[j]
  <2>1. r \in Seq(B)
    BY <1>1
  <2> HIDE DEF r
  <2> QED BY ONLY <2>1, t \in Seq(B), OccursAt
<1>3. q \in Occurrences(t, s) <=> q \in Nat /\ q + m <= n /\ \A j \in 1..m : s[q + j] = t[j]
  <2> HIDE DEF q
  <2> QED BY OccursAt
<1> HIDE DEF r
<1>4. p + m <= Len(r) <=> q + m <= n
  BY <1>0, <1>1
<1>5. ASSUME p + m <= Len(r), NEW j \in 1..m
      PROVE  r[p + j] = s[q + j]
  <2>1. p + j \in 1..n + 1 - i /\ i + (p + j) - 1 = q + j
    BY <1>0, <1>1, <1>5
  <2> HIDE DEF q, n
  <2> QED BY <1>1, <2>1
<1> HIDE DEF q, n, m
<1>6. p \in Occurrences(t, r) <=> q \in Occurrences(t, s)
  BY <1>0, <1>2, <1>3, <1>4, <1>5
<1> QED BY <1>6 DEF r, q

\* The tokens that match there.
LEMMA MatchesShift ==
  ASSUME NEW B, NEW s \in Seq(B), NEW sp, Tokens(B, sp), NEW i \in 1..Len(s) + 1,
         NEW k \in 1..Len(s) + 2 - i
  PROVE  MatchesAt(Rest(s, i), sp, k) = MatchesAt(s, sp, i + k - 1) /\ s \in Seq(B)
<1>1. ASSUME NEW t \in DOMAIN sp
      PROVE  k - 1 \in Occurrences(sp[t], Rest(s, i)) <=> (i + k - 1) - 1 \in Occurrences(sp[t], s)
  <2>1. sp[t] \in Seq(B)
    BY DEF Tokens
  <2>2. k - 1 \in Nat /\ (k - 1) + i - 1 = (i + k - 1) - 1
    OBVIOUS
  <2>3. \A p \in Nat : p \in Occurrences(sp[t], Rest(s, i)) <=> p + i - 1 \in Occurrences(sp[t], s)
    BY <2>1, OccursRest
  <2> QED BY <2>2, <2>3
<1> QED BY <1>1 DEF MatchesAt

\* The first match.
LEMMA NextStartIs ==
  ASSUME NEW B, NEW s \in Seq(B), NEW sp
  PROVE  /\ s \in Seq(B) /\ NextStart(sp, s) \in 1..Len(s) + 1
         /\ \A j \in 1..Len(s) : j < NextStart(sp, s) => MatchesAt(s, sp, j) = {}
         /\ NextStart(sp, s) <= Len(s) => MatchesAt(s, sp, NextStart(sp, s)) # {}
         /\ \A m \in 1..Len(s) + 1 :
              (\A j \in 1..Len(s) : j < m => MatchesAt(s, sp, j) = {})
                /\ (m <= Len(s) => MatchesAt(s, sp, m) # {}) => m = NextStart(sp, s)
<1> DEFINE n == Len(s)
           M(j) == MatchesAt(s, sp, j)
           S == {j \in 1..n : M(j) # {}} \cup {n + 1}
           x == Min(S)
<1>0. n \in Nat /\ n + 1 \in Nat /\ n + 1 \in S
  OBVIOUS
<1>1. S \in SUBSET (1..n + 1) /\ S # {}
  BY <1>0
<1>2. x \in S /\ \A j \in S : x <= j
  <2> HIDE DEF S
  <2> QED BY <1>0, <1>1, EndsOf
<1>3. NextStart(sp, s) = x
  BY DEF NextStart
<1> HIDE DEF x
<1>4. x \in 1..n + 1
  BY <1>1, <1>2
<1>5. \A j \in 1..n : j < x => M(j) = {}
  <2> TAKE j \in 1..n
  <2>1. j < x => ~(x <= j)
    BY <1>4
  <2>2. M(j) # {} => j \in S
    OBVIOUS
  <2> QED BY <1>2, <2>1, <2>2
<1>6. x <= n => M(x) # {}
  <2>1. x <= n => x # n + 1
    BY <1>0, <1>4
  <2> QED BY <1>2, <2>1
<1>7. ASSUME NEW m \in 1..n + 1, \A j \in 1..n : j < m => M(j) = {}, m <= n => M(m) # {}
      PROVE  m = x
  <2>1. m \in S
    <3>1. CASE m <= n
      <4>1. m \in 1..n
        BY <1>0, <3>1
      <4> QED BY <1>7, <3>1, <4>1
    <3>2. CASE ~(m <= n)
      <4>1. m = n + 1
        BY <1>0, <3>2
      <4> QED BY <4>1
    <3> QED BY <3>1, <3>2
  <2>2. x <= m
    BY <1>2, <2>1
  <2>3. ~(x < m)
    <3>1. x < m => x \in 1..n
      BY <1>0, <1>4
    <3>2. x < m => x <= n
      BY <1>0, <1>4
    <3> HIDE DEF M
    <3> QED BY <1>6, <1>7, <3>1, <3>2
  <2> QED BY <1>0, <1>4, <2>2, <2>3
<1> QED BY <1>3, <1>4, <1>5, <1>6, <1>7

\* The first of the list that matches at the beginning.
LEMMA TokenAtIs ==
  ASSUME NEW B, NEW s \in Seq(B), NEW sp, Tokens(B, sp), MatchesAt(s, sp, 1) # {}
  PROVE  /\ TokenAt(sp, s) \in Seq(B) /\ TokenAt(sp, s) # << >>
         /\ Len(TokenAt(sp, s)) \in 1..Len(s) /\ 0 \in Occurrences(TokenAt(sp, s), s)
         /\ Min(MatchesAt(s, sp, 1)) \in MatchesAt(s, sp, 1)
         /\ \A t \in MatchesAt(s, sp, 1) : Min(MatchesAt(s, sp, 1)) <= t
<1> DEFINE M == MatchesAt(s, sp, 1)
           m == Min(M)
           n == Len(sp)
<1>1. n \in Nat /\ M \in SUBSET (1..n) /\ M # {}
  BY DEF MatchesAt, Tokens
<1>2. m \in M /\ \A t \in M : m <= t
  <2> HIDE DEF M
  <2> QED BY <1>1, EndsOf
<1> HIDE DEF m
<1>3. m \in DOMAIN sp /\ 1 - 1 \in Occurrences(sp[m], s)
  BY <1>2 DEF MatchesAt
<1>4. sp[m] \in Seq(B) /\ sp[m] # << >>
  BY <1>3 DEF Tokens
<1> DEFINE t == sp[m]
<1> HIDE DEF t
<1>5. t \in Seq(B) /\ t # << >> /\ 0 \in Occurrences(t, s)
  BY <1>3, <1>4 DEF t
<1>6. 0 + Len(t) <= Len(s)
  BY <1>5, OccursAt
<1>7. Len(t) \in 1..Len(s)
  BY <1>5, <1>6
<1> QED BY <1>2, <1>5, <1>7 DEF t, m, TokenAt

\* Splitting reads.
LEMMA SplitReads ==
  ASSUME NEW B, NEW sp, Tokens(B, sp)
  PROVE  Reads(B, Piece(B), SplitOut(B, sp), SplitStep(B, sp))
<1> SUFFICES ASSUME NEW s \in Seq(B), s # << >>
             PROVE  SplitOut(B, sp)[s] \in Seq(Piece(B)) /\ SplitStep(B, sp)[s] \in 1..Len(s)
  BY DEF Reads
<1> DEFINE m == NextStart(sp, s)
<1>1. m \in 1..Len(s) + 1 /\ (m <= Len(s) => MatchesAt(s, sp, m) # {})
  BY NextStartIs
<1>2. Len(s) \in Nat /\ Len(s) > 0
  OBVIOUS
<1>3. CASE m = 1
  <2>1. TokenAt(sp, s) \in Seq(B) /\ Len(TokenAt(sp, s)) \in 1..Len(s)
    BY <1>1, <1>2, <1>3, TokenAtIs
  <2>2. SpecialPiece(TokenAt(sp, s)) \in Piece(B)
    BY <2>1 DEF SpecialPiece, Piece
  <2> QED BY <1>3, <2>1, <2>2 DEF SplitOut, SplitStep
<1>4. CASE m # 1
  <2>1. m - 1 \in 1..Len(s) /\ m - 1 \in 0..Len(s)
    BY <1>1, <1>2, <1>4
  <2>2. SubSeq(s, 1, m - 1) \in Seq(B)
    BY <2>1, FirstIs
  <2>3. OrdinaryPiece(SubSeq(s, 1, m - 1)) \in Piece(B)
    BY <2>2 DEF OrdinaryPiece, Piece
  <2> HIDE DEF m
  <2>4. SplitOut(B, sp)[s] = <<OrdinaryPiece(SubSeq(s, 1, m - 1))>> /\ SplitStep(B, sp)[s] = m - 1
    BY <1>4 DEF SplitOut, SplitStep, m
  <2> QED BY <2>1, <2>3, <2>4
<1> QED BY <1>3, <1>4

\* split_special_tokens is such a reading.
LEMMA SplitIs ==
  ASSUME NEW B, NEW sp, Tokens(B, sp), NEW s \in Seq(B)
  PROVE  \E f : ReadsAs(f, s, SplitOut(B, sp), SplitStep(B, sp)) /\ SplitSpecial(s, sp) = f[1]
<1> DEFINE n == Len(s)
           Starts_(i) == {j \in i..n : MatchesAt(s, sp, j) # {}}
           Body(g, i) ==
             LET next == Min(Starts_(i) \cup {n + 1})
                 token == sp[Min(MatchesAt(s, sp, i))]
             IN IF i = n + 1 THEN << >>
                ELSE IF next = i THEN <<[special |-> TRUE, text |-> token]>> \o g[i + Len(token)]
                ELSE <<[special |-> FALSE, text |-> SubSeq(s, i, next - 1)]>> \o g[next]
           from == CHOOSE g : g = [i \in 1..n + 1 |-> Body(g, i)]
<1>0. n \in Nat
  OBVIOUS
<1>1. \A i \in 1..n + 1 : \A g : Body(g, i) = ReadFrom(g, s, SplitOut(B, sp), SplitStep(B, sp), i)
  <2> TAKE i \in 1..n + 1
  <2> TAKE g
  <2> DEFINE r == Rest(s, i)
             m == NextStart(sp, r)
             next == Min(Starts_(i) \cup {n + 1})
  <2>1. r \in Seq(B) /\ Len(r) = n + 1 - i
    BY RestIs
  <2>2. \A k \in 1..n + 2 - i : MatchesAt(r, sp, k) = MatchesAt(s, sp, i + k - 1)
    BY MatchesShift
  <2> HIDE DEF r
  <2>3. m \in 1..Len(r) + 1
        /\ (\A j \in 1..Len(r) : j < m => MatchesAt(r, sp, j) = {})
        /\ (m <= Len(r) => MatchesAt(r, sp, m) # {})
    BY <2>1, NextStartIs
  <2> HIDE DEF m
  <2>4. next = i + m - 1
    <3> DEFINE T == Starts_(i) \cup {n + 1}
    <3>1. T \in SUBSET (1..n + 1) /\ T # {} /\ n + 1 \in Nat
      BY <1>0
    <3>2. Min(T) \in T /\ \A j \in T : Min(T) <= j
      <4> HIDE DEF T
      <4> QED BY <3>1, EndsOf
    <3> DEFINE x == Min(T)
               k == x + 1 - i
    <3>3. x \in i..n + 1
      <4>1. T \subseteq i..n + 1
        BY <1>0
      <4> HIDE DEF T
      <4> QED BY <3>2, <4>1
    <3> HIDE DEF x
    <3>4. k \in 1..Len(r) + 1 /\ i + k - 1 = x /\ k \in 1..n + 2 - i
      BY <1>0, <2>1, <3>3
    <3>5. \A j \in 1..Len(r) : j < k => MatchesAt(r, sp, j) = {}
      <4> TAKE j \in 1..Len(r)
      <4> SUFFICES ASSUME j < k PROVE MatchesAt(r, sp, j) = {}
        OBVIOUS
      <4>1. j \in 1..n + 2 - i /\ i + j - 1 \in i..n /\ ~(x <= i + j - 1)
        BY <1>0, <2>1, <3>3
      <4>2. i + j - 1 \in T => x <= i + j - 1
        BY <3>2 DEF x
      <4>3. MatchesAt(s, sp, i + j - 1) = {}
        BY <4>1, <4>2
      <4> QED BY <2>2, <4>1, <4>3
    <3>6. k <= Len(r) => MatchesAt(r, sp, k) # {}
      <4>1. k <= Len(r) => x # n + 1
        BY <1>0, <2>1, <3>3
      <4>2. x \in T
        BY <3>2 DEF x
      <4>3. x # n + 1 => MatchesAt(s, sp, x) # {}
        BY <4>2
      <4>4. MatchesAt(r, sp, k) = MatchesAt(s, sp, i + k - 1)
        BY <2>2, <3>4
      <4> HIDE DEF k
      <4> QED BY <3>4, <4>1, <4>3, <4>4
    <3> HIDE DEF k
    <3>7. k = m
      <4>1. \A z \in 1..Len(r) + 1 :
              (\A j \in 1..Len(r) : j < z => MatchesAt(r, sp, j) = {})
                /\ (z <= Len(r) => MatchesAt(r, sp, z) # {}) => z = m
        BY <2>1, NextStartIs DEF m
      <4> QED BY <3>4, <3>5, <3>6, <4>1
    <3> QED BY <3>4, <3>7 DEF x
  <2>5. MatchesAt(s, sp, i) = MatchesAt(r, sp, 1)
    <3>1. 1 \in 1..n + 2 - i /\ i + 1 - 1 = i
      BY <1>0
    <3> QED BY <2>2, <3>1
  <2> HIDE DEF next
  <2>6. Body(g, i) = IF i = n + 1 THEN << >>
                     ELSE IF next = i THEN Cat(<<SpecialPiece(TokenAt(sp, r))>>, g[i + Len(TokenAt(sp, r))])
                     ELSE Cat(<<OrdinaryPiece(SubSeq(s, i, next - 1))>>, g[next])
    BY <2>5 DEF next, Cat, SpecialPiece, OrdinaryPiece, TokenAt
  <2> HIDE DEF Body
  <2>7. ReadFrom(g, s, SplitOut(B, sp), SplitStep(B, sp), i)
          = IF i = n + 1 THEN << >> ELSE Cat(SplitOut(B, sp)[r], g[i + SplitStep(B, sp)[r]])
    BY DEF ReadFrom, r
  <2>8. CASE i = n + 1
    BY <2>6, <2>7, <2>8
  <2>9. CASE i # n + 1 /\ m = 1
    <3>1. next = i
      BY <1>0, <2>4, <2>9
    <3>2. SplitOut(B, sp)[r] = <<SpecialPiece(TokenAt(sp, r))>> /\ SplitStep(B, sp)[r] = Len(TokenAt(sp, r))
      BY <2>1, <2>9 DEF SplitOut, SplitStep, m
    <3> QED BY <2>6, <2>7, <2>9, <3>1, <3>2
  <2>10. CASE i # n + 1 /\ m # 1
    <3>1. next # i /\ next = i + (m - 1) /\ next - 1 = i + (m - 1) - 1
      BY <1>0, <2>1, <2>3, <2>4, <2>10
    <3>2. /\ SplitOut(B, sp)[r] = <<OrdinaryPiece(SubSeq(r, 1, m - 1))>>
          /\ SplitStep(B, sp)[r] = m - 1
      BY <2>1, <2>10 DEF SplitOut, SplitStep, m
    <3>3. m - 1 \in 0..Len(s) - i + 1
      BY <1>0, <2>1, <2>3
    <3>4. SubSeq(s, i, i + (m - 1) - 1) = SubSeq(r, 1, m - 1)
      BY <3>3, RestPiece DEF r
    <3> QED BY <2>6, <2>7, <2>10, <3>1, <3>2, <3>4
  <2> QED BY <2>8, <2>9, <2>10
<1>2. \E g : g = [i \in 1..n + 1 |-> Body(g, i)]
  <2>1. PICK g : ReadsAs(g, s, SplitOut(B, sp), SplitStep(B, sp))
    BY SplitReads, ReadingExists
  <2>2. g = [i \in 1..n + 1 |-> ReadFrom(g, s, SplitOut(B, sp), SplitStep(B, sp), i)]
    BY <2>1 DEF ReadsAs
  <2> HIDE DEF Body
  <2> QED BY <1>1, <2>2
<1>3. from = [i \in 1..n + 1 |-> Body(from, i)]
  <2> HIDE DEF Body
  <2> QED BY <1>2, Zenon
<1>4. ReadsAs(from, s, SplitOut(B, sp), SplitStep(B, sp))
  <2> HIDE DEF Body, from
  <2> QED BY <1>1, <1>3 DEF ReadsAs
<1>5. SplitSpecial(s, sp) = from[1]
  BY DEF SplitSpecial
<1> QED BY <1>4, <1>5

\* What a reading of every sequence does.
LEMMA ReadingOf ==
  ASSUME NEW E, NEW U, NEW out, NEW step, Reads(E, U, out, step), NEW F,
         \A s \in Seq(E) : \E f : ReadsAs(f, s, out, step) /\ F[s] = f[1]
  PROVE  /\ F[<< >>] = << >> /\ \A s \in Seq(E) : F[s] \in Seq(U)
         /\ \A s \in Seq(E) : s # << >> =>
              /\ step[s] \in 1..Len(s) /\ Rest(s, 1 + step[s]) \in Seq(E) /\ out[s] \in Seq(U)
              /\ F[s] = Cat(out[s], F[Rest(s, 1 + step[s])])
<1>1. ASSUME NEW s \in Seq(E) PROVE F[s] \in Seq(U) /\ (s = << >> => F[s] = << >>)
  <2>1. PICK f : ReadsAs(f, s, out, step) /\ F[s] = f[1]
    OBVIOUS
  <2> QED BY <2>1, ReadingSteps
<1>2. << >> \in Seq(E)
  OBVIOUS
<1>3. ASSUME NEW s \in Seq(E), s # << >>
      PROVE  /\ step[s] \in 1..Len(s) /\ Rest(s, 1 + step[s]) \in Seq(E) /\ out[s] \in Seq(U)
             /\ F[s] = Cat(out[s], F[Rest(s, 1 + step[s])])
  <2> DEFINE r == Rest(s, 1 + step[s])
  <2>1. step[s] \in 1..Len(s) /\ out[s] \in Seq(U)
    BY <1>3 DEF Reads
  <2>2. 1 + step[s] \in 1..Len(s) + 1
    <3>1. Len(s) \in Nat
      OBVIOUS
    <3> QED BY <2>1, <3>1
  <2>3. r \in Seq(E)
    BY <2>2, RestIs
  <2>4. PICK f : ReadsAs(f, s, out, step) /\ F[s] = f[1]
    OBVIOUS
  <2>5. PICK g : ReadsAs(g, r, out, step) /\ F[r] = g[1]
    BY <2>3
  <2>6. f[1] = Cat(out[s], g[1])
    BY <1>3, <2>4, <2>5, ReadingSteps
  <2> QED BY <2>1, <2>3, <2>4, <2>5, <2>6
<1> QED BY <1>1, <1>2, <1>3

\* The first piece, and how much of the text it is.
FirstPiece(sp, s) ==
  IF NextStart(sp, s) = 1 THEN SpecialPiece(TokenAt(sp, s))
  ELSE OrdinaryPiece(SubSeq(s, 1, NextStart(sp, s) - 1))

FirstStep(sp, s) == IF NextStart(sp, s) = 1 THEN Len(TokenAt(sp, s)) ELSE NextStart(sp, s) - 1

\* One piece after the other.
LEMMA SplitSteps ==
  ASSUME NEW B, NEW sp, Tokens(B, sp)
  PROVE  /\ SplitSpecial(<< >>, sp) = << >>
         /\ \A s \in Seq(B) : SplitSpecial(s, sp) \in Seq(Piece(B))
         /\ \A s \in Seq(B) : s # << >> =>
              /\ FirstStep(sp, s) \in 1..Len(s) /\ Rest(s, 1 + FirstStep(sp, s)) \in Seq(B)
              /\ FirstPiece(sp, s) \in Piece(B)
              /\ SplitSpecial(s, sp)
                   = Onto(FirstPiece(sp, s), SplitSpecial(Rest(s, 1 + FirstStep(sp, s)), sp))
<1> DEFINE F == [s \in Seq(B) |-> SplitSpecial(s, sp)]
           out == SplitOut(B, sp)
           step == SplitStep(B, sp)
<1>1. Reads(B, Piece(B), out, step)
  BY SplitReads
<1>2. \A s \in Seq(B) : \E f : ReadsAs(f, s, out, step) /\ F[s] = f[1]
  BY SplitIs
<1>3. \A s \in Seq(B) : out[s] = <<FirstPiece(sp, s)>> /\ step[s] = FirstStep(sp, s)
  BY DEF SplitOut, SplitStep, FirstPiece, FirstStep
<1>4. \A s \in Seq(B) : F[s] = SplitSpecial(s, sp)
  OBVIOUS
<1> HIDE DEF F, out, step
<1>5. /\ F[<< >>] = << >> /\ \A s \in Seq(B) : F[s] \in Seq(Piece(B))
      /\ \A s \in Seq(B) : s # << >> =>
           /\ step[s] \in 1..Len(s) /\ Rest(s, 1 + step[s]) \in Seq(B) /\ out[s] \in Seq(Piece(B))
           /\ F[s] = Cat(out[s], F[Rest(s, 1 + step[s])])
  BY <1>1, <1>2, ReadingOf
<1>6. << >> \in Seq(B)
  OBVIOUS
<1>7. ASSUME NEW s \in Seq(B), s # << >>
      PROVE  /\ FirstStep(sp, s) \in 1..Len(s) /\ Rest(s, 1 + FirstStep(sp, s)) \in Seq(B)
             /\ FirstPiece(sp, s) \in Piece(B)
             /\ SplitSpecial(s, sp)
                  = Onto(FirstPiece(sp, s), SplitSpecial(Rest(s, 1 + FirstStep(sp, s)), sp))
  <2>1. <<FirstPiece(sp, s)>> \in Seq(Piece(B))
    BY <1>3, <1>5, <1>7
  <2>2. FirstPiece(sp, s) \in Piece(B)
    BY <2>1
  <2> DEFINE r == Rest(s, 1 + FirstStep(sp, s))
  <2>3. FirstStep(sp, s) \in 1..Len(s) /\ r \in Seq(B) /\ F[s] = Cat(<<FirstPiece(sp, s)>>, F[r])
    BY <1>3, <1>5, <1>7
  <2> HIDE DEF r
  <2>4. SplitSpecial(s, sp) = Cat(<<FirstPiece(sp, s)>>, SplitSpecial(r, sp))
    BY <1>4, <2>3
  <2> QED BY <2>2, <2>3, <2>4 DEF Cat, Onto, r
<1> QED BY <1>4, <1>5, <1>6, <1>7

-----------------------------------------------------------------------------
(* Cutting a text into words. *)

\* How far the characters have the kind of the one at h.
Run(s, h) == Max({j \in h..Len(s) : \A k \in h..j : Kind(s[k]) = Kind(s[h])})

\* The characters from h to e are a run, and the next one does not belong to it.
IsRun(s, h, e) ==
  /\ e \in h..Len(s) /\ \A k \in h..e : Kind(s[k]) = Kind(s[h])
  /\ e = Len(s) \/ Kind(s[e + 1]) # Kind(s[h])

\* There is one such run.
LEMMA RunIs ==
  ASSUME NEW B, NEW s \in Seq(B), NEW h \in 1..Len(s)
  PROVE  /\ s \in Seq(B) /\ IsRun(s, h, Run(s, h)) /\ Run(s, h) \in 1..Len(s)
         /\ \A e : IsRun(s, h, e) => e = Run(s, h)
<1> DEFINE n == Len(s)
           S == {j \in h..n : \A k \in h..j : Kind(s[k]) = Kind(s[h])}
           x == Max(S)
<1>0. n \in Nat /\ h \in Nat /\ 1 <= h /\ h <= n
  OBVIOUS
<1>1. S \in SUBSET (1..n) /\ h \in S
  <2>1. \A k \in h..h : k = h
    BY <1>0
  <2>2. h \in h..n /\ h..n \subseteq 1..n
    BY <1>0
  <2> QED BY <2>1, <2>2
<1>2. x \in S /\ \A j \in S : j <= x
  <2>1. S # {}
    BY <1>1
  <2> HIDE DEF S
  <2> QED BY <1>0, <1>1, <2>1, EndsOf
<1>3. Run(s, h) = x
  BY DEF Run
<1> HIDE DEF x
<1>4. x \in h..n /\ x \in 1..n /\ \A k \in h..x : Kind(s[k]) = Kind(s[h])
  BY <1>1, <1>2
<1>5. x = n \/ Kind(s[x + 1]) # Kind(s[h])
  <2> SUFFICES ASSUME x # n, Kind(s[x + 1]) = Kind(s[h]) PROVE FALSE
    OBVIOUS
  <2>1. x + 1 \in h..n /\ ~(x + 1 <= x) /\ \A k \in h..x + 1 : k \in h..x \/ k = x + 1
    BY <1>0, <1>4
  <2>2. x + 1 \in S
    BY <1>4, <2>1
  <2> QED BY <1>2, <2>1, <2>2
<1>6. ASSUME NEW e, IsRun(s, h, e)
      PROVE  e = x
  <2>1. /\ e \in h..n /\ \A k \in h..e : Kind(s[k]) = Kind(s[h])
        /\ e = n \/ Kind(s[e + 1]) # Kind(s[h])
    BY <1>6 DEF IsRun
  <2>2. e \in S
    BY <2>1
  <2>3. e <= x
    BY <1>2, <2>2
  <2>4. ~(e < x)
    <3> SUFFICES ASSUME e < x PROVE FALSE
      OBVIOUS
    <3>1. e + 1 \in h..x /\ e # n
      BY <1>0, <1>4, <2>1
    <3> QED BY <1>4, <2>1, <3>1
  <2> QED BY <1>0, <1>4, <2>1, <2>3, <2>4
<1> QED BY <1>3, <1>4, <1>5, <1>6 DEF IsRun

\* Where the word at the beginning has the first character that is not the space
\* before it.
HeadOf(s) == IF s[1] = Space /\ 1 < Len(s) /\ Kind(s[2]) # "blank" THEN 2 ELSE 1

\* The word at the beginning.
LEMMA WordIs ==
  ASSUME NEW B, NEW s \in Seq(B), s # << >>
  PROVE  /\ s \in Seq(B) /\ HeadOf(s) \in 1..Len(s)
         /\ WordEnd(s, 1) = LET run == Run(s, HeadOf(s))
                            IN IF Kind(s[HeadOf(s)]) # "blank" \/ run \in {Len(s), HeadOf(s)}
                               THEN run ELSE run - 1
         /\ WordEnd(s, 1) \in HeadOf(s)..Len(s) /\ WordEnd(s, 1) \in 1..Len(s)
<1> DEFINE n == Len(s)
           h == HeadOf(s)
           run == Run(s, h)
           e == IF Kind(s[h]) # "blank" \/ run \in {n, h} THEN run ELSE run - 1
<1>0. n \in Nat /\ 1 <= n
  OBVIOUS
<1>1. h \in 1..n
  BY <1>0 DEF HeadOf
<1>2. 1 + 1 = 2
  OBVIOUS
<1>3. WordEnd(s, 1) = e
  BY <1>2 DEF WordEnd, HeadOf, Run
<1> HIDE DEF h
<1>4. run \in h..n
  BY <1>1, RunIs DEF IsRun
<1> HIDE DEF run
<1>5. e \in h..n /\ e \in 1..n
  BY <1>0, <1>1, <1>4
<1> QED BY <1>1, <1>3, <1>5 DEF h, run

\* A word is where it is, whatever comes before it.
LEMMA WordShift ==
  ASSUME NEW B, NEW s \in Seq(B), NEW i \in 1..Len(s)
  PROVE  /\ WordEnd(s, i) = i - 1 + WordEnd(Rest(s, i), 1)
         /\ s \in Seq(B) /\ Rest(s, i) \in Seq(B) /\ Rest(s, i) # << >>
<1> DEFINE n == Len(s)
           r == Rest(s, i)
           d == i - 1
           h == HeadOf(r)
           head == IF s[i] = Space /\ i < n /\ Kind(s[i + 1]) # "blank" THEN i + 1 ELSE i
<1>0. n \in Nat /\ i \in Nat /\ 1 <= i /\ i <= n /\ i \in 1..n + 1 /\ i # n + 1 /\ d \in Nat
  OBVIOUS
<1>1. /\ r \in Seq(B) /\ r # << >> /\ Len(r) = n - d
      /\ \A k \in 1..n - d : r[k] = s[d + k]
  <2>1. /\ r \in Seq(B) /\ r # << >> /\ Len(r) = n + 1 - i
        /\ \A k \in 1..n + 1 - i : r[k] = s[i + k - 1]
    BY <1>0, RestIs
  <2>2. n + 1 - i = n - d /\ \A k \in 1..n - d : i + k - 1 = d + k
    BY <1>0
  <2> HIDE DEF r, n, d
  <2> QED BY <2>1, <2>2
<1> HIDE DEF r, n
<1>2. head = d + h /\ h \in 1..n - d
  <2>1. r[1] = s[i]
    <3>1. 1 \in 1..n - d /\ d + 1 = i
      BY <1>0
    <3> QED BY <1>1, <3>1
  <2>2. 1 < Len(r) <=> i < n
    BY <1>0, <1>1
  <2>3. i < n => r[2] = s[i + 1]
    <3>1. i < n => 2 \in 1..n - d /\ d + 2 = i + 1
      BY <1>0
    <3> HIDE DEF d
    <3> QED BY <1>1, <3>1
  <2>4. h = IF s[i] = Space /\ i < n /\ Kind(s[i + 1]) # "blank" THEN 2 ELSE 1
    BY <2>1, <2>2, <2>3 DEF HeadOf
  <2> HIDE DEF h
  <2> QED BY <1>0, <2>4
<1> HIDE DEF head, h
<1>3. head \in 1..n /\ s[head] = r[h]
  BY <1>0, <1>1, <1>2
<1> DEFINE e == Run(r, h)
<1>4. e \in h..n - d /\ (\A k \in h..e : Kind(r[k]) = Kind(r[h]))
      /\ (e = n - d \/ Kind(r[e + 1]) # Kind(r[h]))
  <2>1. h \in 1..Len(r) /\ r \in Seq(B)
    BY <1>1, <1>2
  <2>2. IsRun(r, h, e)
    BY <2>1, RunIs
  <2> HIDE DEF e
  <2> QED BY <1>1, <2>2 DEF IsRun
<1> HIDE DEF e
<1>5. Run(s, head) = d + e
  <2>1. d + e \in head..n
    BY <1>0, <1>2, <1>4
  <2>2. \A k \in head..d + e : Kind(s[k]) = Kind(s[head])
    <3> TAKE k \in head..d + e
    <3>1. k - d \in h..e /\ k - d \in 1..n - d /\ d + (k - d) = k
      BY <1>0, <1>2, <1>4
    <3>2. r[k - d] = s[k]
      BY <1>1, <3>1
    <3> QED BY <1>3, <1>4, <3>1, <3>2
  <2>3. d + e = n \/ Kind(s[d + e + 1]) # Kind(s[head])
    <3>1. e # n - d => e + 1 \in 1..n - d /\ d + (e + 1) = d + e + 1
      BY <1>0, <1>2, <1>4
    <3>2. e # n - d => r[e + 1] = s[d + e + 1]
      BY <1>1, <3>1
    <3>3. e = n - d => d + e = n
      BY <1>0
    <3> QED BY <1>3, <1>4, <3>2, <3>3
  <2>4. IsRun(s, head, d + e)
    BY <2>1, <2>2, <2>3 DEF IsRun, n
  <2> QED BY <1>3, <2>4, RunIs DEF n
<1>6. WordEnd(s, i) = IF Kind(s[head]) # "blank" \/ Run(s, head) \in {n, head}
                      THEN Run(s, head) ELSE Run(s, head) - 1
  BY DEF WordEnd, Run, head, n
<1>7. WordEnd(r, 1) = IF Kind(r[h]) # "blank" \/ e \in {Len(r), h} THEN e ELSE e - 1
  BY <1>1, WordIs DEF h, e
<1>8. d + e \in {n, head} <=> e \in {Len(r), h}
  BY <1>0, <1>1, <1>2, <1>4
<1>9. WordEnd(s, i) = d + WordEnd(r, 1)
  <2>1. d \in Int /\ e \in Int
    BY <1>0, <1>2, <1>4
  <2> HIDE DEF d
  <2>2. CASE Kind(s[head]) # "blank" \/ d + e \in {n, head}
    <3>1. WordEnd(s, i) = d + e
      BY <1>5, <1>6, <2>2
    <3>2. WordEnd(r, 1) = e
      BY <1>3, <1>7, <1>8, <2>2
    <3> QED BY <3>1, <3>2
  <2>3. CASE ~(Kind(s[head]) # "blank" \/ d + e \in {n, head})
    <3>1. WordEnd(s, i) = (d + e) - 1
      <4> DEFINE x == d + e
      <4>1. Run(s, head) = x /\ ~(Kind(s[head]) # "blank" \/ x \in {n, head})
        BY <1>5, <2>3
      <4> HIDE DEF x
      <4>2. WordEnd(s, i) = x - 1
        BY <1>6, <4>1
      <4> QED BY <4>2 DEF x
    <3>2. WordEnd(r, 1) = e - 1
      BY <1>3, <1>7, <1>8, <2>3
    <3> QED BY <2>1, <3>1, <3>2
  <2> QED BY <2>2, <2>3
<1> QED BY <1>1, <1>9 DEF r, d

\* Segments are parts of their word.
LEMMA SegmentsAre ==
  ASSUME NEW B, NEW w \in Seq(B), w # << >>
  PROVE  SegmentsOf(w) \in Seq(Seq(B)) /\ FlattenSeq(SegmentsOf(w)) = w
<1> DEFINE n == Len(w)
           S == {1} \cup {i \in 2..n : CutsBigram(w[i - 1], w[i])}
           cuts == InOrder(S)
<1>0. n \in Nat /\ 1 <= n
  OBVIOUS
<1>1. S \in SUBSET (1..n) /\ 1 \in S
  BY <1>0
<1>2. S \in SUBSET Int /\ IsFiniteSet(S)
  <2>1. IsFiniteSet(1..n) /\ 1..n \subseteq Int
    BY <1>0, FS_Interval
  <2> HIDE DEF S, n
  <2> QED BY <1>1, <2>1, FS_Subset
<1>3. SegmentsOf(w) = PiecesAt(w, cuts)
  BY DEF SegmentsOf, PiecesAt
<1> HIDE DEF S
<1>4. cuts \in Seq(Int) /\ Ascending(cuts) /\ Elements(cuts) = S
  BY <1>2, Ordered
<1> HIDE DEF cuts
<1>5. Len(cuts) \in Nat /\ \A k \in 1..Len(cuts) : cuts[k] \in 1..n
  <2>1. \A k \in 1..Len(cuts) : cuts[k] \in Elements(cuts)
    BY <1>4 DEF Elements
  <2> QED BY <1>1, <1>4, <2>1
<1>6. cuts # << >> /\ cuts[1] = 1
  <2>1. PICK k \in 1..Len(cuts) : cuts[k] = 1
    BY <1>1, <1>4 DEF Elements
  <2>2. 1 \in 1..Len(cuts) /\ k \in Nat /\ k >= 1
    BY <1>5, <2>1
  <2>3. cuts[1] \in 1..n
    BY <1>5, <2>2
  <2>4. k # 1 => cuts[1] < cuts[k]
    <3>1. k # 1 => 1 < k
      BY <2>2
    <3> QED BY <1>4, <2>1, <2>2, <3>1 DEF Ascending
  <2>5. k = 1
    BY <2>1, <2>3, <2>4
  <2> QED BY <2>1, <2>2, <2>5
<1> QED BY <1>3, <1>4, <1>5, <1>6, PiecesFlatten

WordOut(B) == [s \in Seq(B) |-> SegmentsOf(SubSeq(s, 1, WordEnd(s, 1)))]

WordStep(B) == [s \in Seq(B) |-> WordEnd(s, 1)]

\* Cutting into words reads.
LEMMA WordsRead ==
  ASSUME NEW B
  PROVE  Reads(B, Seq(B), WordOut(B), WordStep(B))
<1> SUFFICES ASSUME NEW s \in Seq(B), s # << >>
             PROVE  WordOut(B)[s] \in Seq(Seq(B)) /\ WordStep(B)[s] \in 1..Len(s)
  BY DEF Reads
<1> DEFINE e == WordEnd(s, 1)
           w == SubSeq(s, 1, e)
<1>1. e \in 1..Len(s)
  BY WordIs
<1> HIDE DEF e
<1>2. e \in 0..Len(s) /\ e # 0
  BY <1>1
<1>3. w \in Seq(B) /\ Len(w) = e
  BY <1>2, FirstIs
<1> HIDE DEF w
<1>4. w # << >>
  BY <1>2, <1>3
<1>5. SegmentsOf(w) \in Seq(Seq(B))
  BY <1>3, <1>4, SegmentsAre
<1> QED BY <1>1, <1>5 DEF WordOut, WordStep, e, w

\* The words of a text are such a reading.
LEMMA WordsAre ==
  ASSUME NEW B, NEW s \in Seq(B)
  PROVE  \E f : ReadsAs(f, s, WordOut(B), WordStep(B)) /\ WordsOf(s) = f[1]
<1> DEFINE n == Len(s)
           Body(g, i) ==
             IF i = n + 1 THEN << >>
             ELSE LET end == WordEnd(s, i)
                  IN SegmentsOf(SubSeq(s, i, end)) \o g[end + 1]
           from == CHOOSE g : g = [i \in 1..n + 1 |-> Body(g, i)]
<1>0. n \in Nat
  OBVIOUS
<1>1. \A i \in 1..n + 1 : \A g : Body(g, i) = ReadFrom(g, s, WordOut(B), WordStep(B), i)
  <2> TAKE i \in 1..n + 1
  <2> TAKE g
  <2>1. CASE i = n + 1
    BY <2>1 DEF ReadFrom
  <2>2. CASE i # n + 1
    <3> DEFINE r == Rest(s, i)
               e == WordEnd(r, 1)
    <3>1. i \in 1..n
      BY <1>0, <2>2
    <3>2. r \in Seq(B) /\ r # << >> /\ WordEnd(s, i) = i - 1 + e
      BY <3>1, WordShift
    <3>3. Len(r) = n + 1 - i
      BY RestIs
    <3> HIDE DEF r
    <3>4. e \in 1..Len(r)
      BY <3>2, WordIs
    <3>5. WordOut(B)[r] = SegmentsOf(SubSeq(r, 1, e)) /\ WordStep(B)[r] = e
      BY <3>2 DEF WordOut, WordStep
    <3> HIDE DEF e
    <3>6. e \in 0..Len(s) - i + 1 /\ i - 1 + e = i + e - 1 /\ (i + e - 1) + 1 = i + e
      BY <1>0, <3>1, <3>3, <3>4
    <3>7. SubSeq(s, i, i + e - 1) = SubSeq(r, 1, e)
      BY <3>6, RestPiece DEF r
    <3>8. Body(g, i) = SegmentsOf(SubSeq(s, i, WordEnd(s, i))) \o g[WordEnd(s, i) + 1]
      BY <2>2
    <3>9. Body(g, i) = SegmentsOf(SubSeq(r, 1, e)) \o g[i + e]
      <4> HIDE DEF Body
      <4> QED BY <3>2, <3>6, <3>7, <3>8
    <3>10. ReadFrom(g, s, WordOut(B), WordStep(B), i) = Cat(WordOut(B)[r], g[i + WordStep(B)[r]])
      BY <2>2 DEF ReadFrom, r
    <3> HIDE DEF Body
    <3> QED BY <3>5, <3>9, <3>10 DEF Cat
  <2> QED BY <2>1, <2>2
<1>2. \E g : g = [i \in 1..n + 1 |-> Body(g, i)]
  <2>1. PICK g : ReadsAs(g, s, WordOut(B), WordStep(B))
    BY WordsRead, ReadingExists
  <2>2. g = [i \in 1..n + 1 |-> ReadFrom(g, s, WordOut(B), WordStep(B), i)]
    BY <2>1 DEF ReadsAs
  <2> HIDE DEF Body
  <2> QED BY <1>1, <2>2
<1>3. from = [i \in 1..n + 1 |-> Body(from, i)]
  <2> HIDE DEF Body
  <2> QED BY <1>2, Zenon
<1>4. ReadsAs(from, s, WordOut(B), WordStep(B))
  <2> HIDE DEF Body, from
  <2> QED BY <1>1, <1>3 DEF ReadsAs
<1>5. WordsOf(s) = from[1]
  BY DEF WordsOf
<1> QED BY <1>4, <1>5

\* One word after the other.
LEMMA WordsSteps ==
  ASSUME NEW B
  PROVE  /\ WordsOf(<< >>) = << >>
         /\ \A s \in Seq(B) : WordsOf(s) \in Seq(Seq(B))
         /\ \A s \in Seq(B) : s # << >> =>
              /\ WordEnd(s, 1) \in 1..Len(s) /\ Rest(s, 1 + WordEnd(s, 1)) \in Seq(B)
              /\ SegmentsOf(SubSeq(s, 1, WordEnd(s, 1))) \in Seq(Seq(B))
              /\ WordsOf(s) = Cat(SegmentsOf(SubSeq(s, 1, WordEnd(s, 1))),
                                  WordsOf(Rest(s, 1 + WordEnd(s, 1))))
<1> DEFINE F == [s \in Seq(B) |-> WordsOf(s)]
           out == WordOut(B)
           step == WordStep(B)
<1>1. Reads(B, Seq(B), out, step)
  BY WordsRead
<1>2. \A s \in Seq(B) : \E f : ReadsAs(f, s, out, step) /\ F[s] = f[1]
  BY WordsAre
<1>3. \A s \in Seq(B) : out[s] = SegmentsOf(SubSeq(s, 1, WordEnd(s, 1))) /\ step[s] = WordEnd(s, 1)
  BY DEF WordOut, WordStep
<1>4. \A s \in Seq(B) : F[s] = WordsOf(s)
  OBVIOUS
<1> HIDE DEF F, out, step
<1>5. /\ F[<< >>] = << >> /\ \A s \in Seq(B) : F[s] \in Seq(Seq(B))
      /\ \A s \in Seq(B) : s # << >> =>
           /\ step[s] \in 1..Len(s) /\ Rest(s, 1 + step[s]) \in Seq(B) /\ out[s] \in Seq(Seq(B))
           /\ F[s] = Cat(out[s], F[Rest(s, 1 + step[s])])
  BY <1>1, <1>2, ReadingOf
<1>6. << >> \in Seq(B)
  OBVIOUS
<1>7. ASSUME NEW s \in Seq(B), s # << >>
      PROVE  /\ WordEnd(s, 1) \in 1..Len(s) /\ Rest(s, 1 + WordEnd(s, 1)) \in Seq(B)
             /\ SegmentsOf(SubSeq(s, 1, WordEnd(s, 1))) \in Seq(Seq(B))
             /\ WordsOf(s) = Cat(SegmentsOf(SubSeq(s, 1, WordEnd(s, 1))),
                                 WordsOf(Rest(s, 1 + WordEnd(s, 1))))
  <2> DEFINE o == SegmentsOf(SubSeq(s, 1, WordEnd(s, 1)))
             r == Rest(s, 1 + WordEnd(s, 1))
  <2>1. WordEnd(s, 1) \in 1..Len(s) /\ r \in Seq(B) /\ o \in Seq(Seq(B)) /\ F[s] = Cat(o, F[r])
    BY <1>3, <1>5, <1>7
  <2> HIDE DEF o, r
  <2>2. WordsOf(s) = Cat(o, WordsOf(r))
    BY <1>4, <2>1
  <2> QED BY <2>1, <2>2 DEF o, r
<1> QED BY <1>4, <1>5, <1>6, <1>7

-----------------------------------------------------------------------------
(* What is listed for a text. *)

WordPieces(B) ==
  [p \in Piece(B) |-> IF p.special THEN <<p>>
                      ELSE [k \in DOMAIN WordsOf(p.text) |-> OrdinaryPiece(WordsOf(p.text)[k])]]

TextsOf(B) == [p \in Piece(B) |-> IF p.special THEN << >> ELSE <<p.text>>]

BigramsIn(B) == [t \in Seq(B) |-> BigramsOf(t)]

\* What is listed.
Item(B, op) ==
  IF op = "words" THEN Seq(B) ELSE IF op = "ids" THEN Piece(B) ELSE B \X B

\* The functions that give pieces, texts and bigrams.
LEMMA ListingMaps ==
  ASSUME NEW B
  PROVE  /\ Maps(WordPieces(B), Piece(B), Piece(B))
         /\ Maps(TextsOf(B), Piece(B), Seq(B))
         /\ Maps(BigramsIn(B), Seq(B), B \X B)
<1>1. ASSUME NEW p \in Piece(B) PROVE WordPieces(B)[p] \in Seq(Piece(B))
  <2> DEFINE w == WordsOf(p.text)
             v == [k \in DOMAIN w |-> OrdinaryPiece(w[k])]
             W == Seq(B)
  <2>1. p.text \in W
    BY DEF Piece
  <2>2. w \in Seq(W)
    BY <2>1, WordsSteps
  <2>3. \A t \in W : OrdinaryPiece(t) \in Piece(B)
    BY DEF OrdinaryPiece, Piece
  <2>4. WordPieces(B)[p] = IF p.special THEN <<p>> ELSE v
    BY DEF WordPieces
  <2> HIDE DEF w, W
  <2>5. v \in Seq(Piece(B))
    <3>1. Len(w) \in Nat /\ DOMAIN w = 1..Len(w) /\ \A k \in 1..Len(w) : w[k] \in W
      BY <2>2
    <3>2. v = [k \in 1..Len(w) |-> OrdinaryPiece(w[k])]
      BY <3>1
    <3>3. \A k \in 1..Len(w) : OrdinaryPiece(w[k]) \in Piece(B)
      BY <2>3, <3>1
    <3> HIDE DEF v
    <3> QED BY <3>1, <3>2, <3>3
  <2>6. <<p>> \in Seq(Piece(B))
    OBVIOUS
  <2> QED BY <2>4, <2>5, <2>6
<1>2. ASSUME NEW p \in Piece(B) PROVE TextsOf(B)[p] \in Seq(Seq(B))
  <2>1. p.text \in Seq(B)
    BY DEF Piece
  <2>2. TextsOf(B)[p] = IF p.special THEN << >> ELSE <<p.text>>
    BY DEF TextsOf
  <2> DEFINE W == Seq(B)
  <2>3. << >> \in Seq(W) /\ <<p.text>> \in Seq(W)
    <3>1. p.text \in W
      BY <2>1
    <3> HIDE DEF W
    <3> QED BY <3>1
  <2> QED BY <2>2, <2>3
<1>3. ASSUME NEW t \in Seq(B) PROVE BigramsIn(B)[t] \in Seq(B \X B)
  <2> DEFINE n == Len(t) - 1
             f == [i \in 1..n |-> IF Elements(PairAt(t, i)) \subseteq Script THEN <<PairAt(t, i)>>
                                  ELSE << >>]
  <2>1. BigramsIn(B)[t] = FlattenSeq(f)
    BY DEF BigramsIn, BigramsOf
  <2>2. ASSUME NEW i \in 1..n PROVE f[i] \in Seq(B \X B)
    <3>1. i \in 1..Len(t) /\ i + 1 \in 1..Len(t)
      OBVIOUS
    <3> DEFINE x == PairAt(t, i)
               V == B \X B
    <3>2. x \in V
      BY <3>1 DEF PairAt
    <3>3. f[i] = IF Elements(x) \subseteq Script THEN <<x>> ELSE << >>
      OBVIOUS
    <3> HIDE DEF x, V, f
    <3>4. <<x>> \in Seq(V) /\ << >> \in Seq(V)
      BY <3>2
    <3>5. f[i] \in Seq(V)
      BY <3>3, <3>4
    <3> QED BY <3>5 DEF V
  <2>3. CASE t = << >>
    <3>1. 1..n = 1..0
      BY <2>3
    <3>2. f = [i \in 1..n |-> f[i]]
      OBVIOUS
    <3> HIDE DEF f, n
    <3>3. f = [i \in 1..0 |-> f[i]] /\ \A i \in 1..0 : f[i] \in Seq(B \X B)
      BY <2>2, <3>1, <3>2
    <3>4. FlattenSeq([i \in 1..0 |-> f[i]]) \in Seq(B \X B)
      BY <3>3, FlattenMap
    <3> QED BY <2>1, <3>3, <3>4
  <2>4. CASE t # << >>
    <3>1. n \in Nat
      BY <2>4
    <3>2. f = [i \in 1..n |-> f[i]]
      OBVIOUS
    <3> HIDE DEF f, n
    <3>3. FlattenSeq([i \in 1..n |-> f[i]]) \in Seq(B \X B)
      BY <2>2, <3>1, FlattenMap
    <3> QED BY <2>1, <3>2, <3>3
  <2> QED BY <2>3, <2>4
<1> QED BY <1>1, <1>2, <1>3 DEF Maps

\* What is listed is listed piece by piece.
LEMMA ListedIs ==
  ASSUME NEW B, NEW j, Tokens(B, j.special), NEW s \in Seq(B)
  PROVE  /\ SplitSpecial(s, j.special) \in Seq(Piece(B))
         /\ PiecesOf(s, j.special) = Mapped(WordPieces(B), SplitSpecial(s, j.special))
         /\ j.op = "words" => Listed(j, s) =
              Mapped(TextsOf(B), Mapped(WordPieces(B), SplitSpecial(s, j.special)))
         /\ j.op = "ids" => Listed(j, s) = Mapped(WordPieces(B), SplitSpecial(s, j.special))
         /\ j.op = "bigrams" => Listed(j, s) =
              Mapped(BigramsIn(B), Mapped(TextsOf(B), SplitSpecial(s, j.special)))
<1> DEFINE sp == j.special
           split == SplitSpecial(s, sp)
           P == Piece(B)
           Words(w) == [k \in DOMAIN w |-> [special |-> FALSE, text |-> w[k]]]
<1>1. split \in Seq(P)
  BY SplitSteps
<1>2. PiecesOf(s, sp) = FlattenSeq([i \in DOMAIN split |->
         IF split[i].special THEN <<split[i]>> ELSE Words(WordsOf(split[i].text))])
  BY DEF PiecesOf
<1> HIDE DEF split, sp, P
<1>3. \A i \in DOMAIN split : split[i] \in P
  BY <1>1
<1>4. PiecesOf(s, sp) = Mapped(WordPieces(B), split)
  <2>1. \A i \in DOMAIN split : WordPieces(B)[split[i]] =
          IF split[i].special THEN <<split[i]>> ELSE Words(WordsOf(split[i].text))
    BY <1>3 DEF WordPieces, OrdinaryPiece, P
  <2> HIDE DEF Words
  <2>2. [i \in DOMAIN split |-> WordPieces(B)[split[i]]] = [i \in DOMAIN split |->
          IF split[i].special THEN <<split[i]>> ELSE Words(WordsOf(split[i].text))]
    BY <2>1
  <2> QED BY <1>2, <2>2 DEF Mapped
<1>5. ASSUME NEW t \in Seq(P) PROVE Ordinary(t) = Mapped(TextsOf(B), t)
  <2>1. \A i \in DOMAIN t : t[i] \in P
    OBVIOUS
  <2>2. \A i \in DOMAIN t : TextsOf(B)[t[i]] = IF t[i].special THEN << >> ELSE <<t[i].text>>
    BY <2>1 DEF TextsOf, P
  <2>3. [i \in DOMAIN t |-> TextsOf(B)[t[i]]] = [i \in DOMAIN t |->
           IF t[i].special THEN << >> ELSE <<t[i].text>>]
    BY <2>2
  <2> QED BY <2>3 DEF Ordinary, Mapped
<1>6. Mapped(WordPieces(B), split) \in Seq(P) /\ Mapped(TextsOf(B), split) \in Seq(Seq(B))
  BY <1>1, ListingMaps, MapCat DEF P
<1>7. j.op = "words" => Listed(j, s) = Mapped(TextsOf(B), Mapped(WordPieces(B), split))
  <2>1. j.op = "words" => Listed(j, s) = Ordinary(PiecesOf(s, sp))
    BY DEF Listed, sp
  <2>2. Ordinary(PiecesOf(s, sp)) = Mapped(TextsOf(B), Mapped(WordPieces(B), split))
    BY <1>4, <1>5, <1>6
  <2> QED BY <2>1, <2>2
<1>8. j.op = "ids" => Listed(j, s) = Mapped(WordPieces(B), split)
  <2>1. j.op = "ids" => Listed(j, s) = PiecesOf(s, sp)
    BY DEF Listed, sp
  <2> QED BY <1>4, <2>1
<1>9. j.op = "bigrams" => Listed(j, s) = Mapped(BigramsIn(B), Mapped(TextsOf(B), split))
  <2> DEFINE regular == Ordinary(split)
  <2>1. j.op = "bigrams" => Listed(j, s) = FlattenSeq([i \in DOMAIN regular |-> BigramsOf(regular[i])])
    BY DEF Listed, sp, split
  <2>2. regular = Mapped(TextsOf(B), split)
    BY <1>1, <1>5
  <2>3. regular \in Seq(Seq(B))
    BY <1>6, <2>2
  <2> HIDE DEF regular
  <2>4. \A i \in DOMAIN regular : BigramsIn(B)[regular[i]] = BigramsOf(regular[i])
    <3> DEFINE W == Seq(B)
    <3>1. regular \in Seq(W)
      BY <2>3
    <3> HIDE DEF W
    <3>2. \A i \in DOMAIN regular : regular[i] \in W
      BY <3>1
    <3> QED BY <3>2 DEF BigramsIn, W
  <2>5. [i \in DOMAIN regular |-> BigramsIn(B)[regular[i]]] = [i \in DOMAIN regular |-> BigramsOf(regular[i])]
    BY <2>4
  <2>6. Mapped(BigramsIn(B), regular) = FlattenSeq([i \in DOMAIN regular |-> BigramsOf(regular[i])])
    BY <2>5 DEF Mapped
  <2> QED BY <2>1, <2>2, <2>6
<1> QED BY <1>1, <1>4, <1>7, <1>8, <1>9 DEF split, sp, P

\* A list of items, joined where the pieces are.
LEMMA ListedCat ==
  ASSUME NEW B, NEW j, Tokens(B, j.special), j.op \in {"words", "ids", "bigrams"}
  PROVE  /\ Listed(j, << >>) = << >>
         /\ \A s \in Seq(B) : Listed(j, s) \in Seq(Item(B, j.op))
         /\ \A a, b, c \in Seq(B) :
              SplitSpecial(c, j.special) = Cat(SplitSpecial(a, j.special), SplitSpecial(b, j.special))
                => Listed(j, c) = Cat(Listed(j, a), Listed(j, b))
<1> DEFINE P == Piece(B)
           W == Seq(B)
           w == WordPieces(B)
           o == TextsOf(B)
           b2 == BigramsIn(B)
           Split(s) == SplitSpecial(s, j.special)
<1>1. Maps(w, P, P) /\ Maps(o, P, W) /\ Maps(b2, W, B \X B)
  BY ListingMaps
<1>2. \A s \in Seq(B) :
        /\ Split(s) \in Seq(P)
        /\ j.op = "words" => Listed(j, s) = Mapped(o, Mapped(w, Split(s)))
        /\ j.op = "ids" => Listed(j, s) = Mapped(w, Split(s))
        /\ j.op = "bigrams" => Listed(j, s) = Mapped(b2, Mapped(o, Split(s)))
  BY ListedIs
<1>3. Split(<< >>) = << >> /\ << >> \in Seq(B)
  BY SplitSteps
<1> HIDE DEF P, W, w, o, b2, Split
<1>4. /\ Mapped(w, << >>) = << >> /\ Mapped(o, << >>) = << >> /\ Mapped(b2, << >>) = << >>
      /\ \A s \in Seq(P) : Mapped(w, s) \in Seq(P) /\ Mapped(o, s) \in Seq(W)
      /\ \A s \in Seq(W) : Mapped(b2, s) \in Seq(B \X B)
      /\ \A s, t \in Seq(P) : /\ Mapped(w, Cat(s, t)) = Cat(Mapped(w, s), Mapped(w, t))
                              /\ Mapped(o, Cat(s, t)) = Cat(Mapped(o, s), Mapped(o, t))
      /\ \A s, t \in Seq(W) : Mapped(b2, Cat(s, t)) = Cat(Mapped(b2, s), Mapped(b2, t))
  <2>1. /\ Mapped(w, << >>) = << >> /\ \A s \in Seq(P) : Mapped(w, s) \in Seq(P)
        /\ \A s, t \in Seq(P) : Mapped(w, Cat(s, t)) = Cat(Mapped(w, s), Mapped(w, t))
    BY <1>1, MapCat
  <2>2. /\ Mapped(o, << >>) = << >> /\ \A s \in Seq(P) : Mapped(o, s) \in Seq(W)
        /\ \A s, t \in Seq(P) : Mapped(o, Cat(s, t)) = Cat(Mapped(o, s), Mapped(o, t))
    BY <1>1, MapCat
  <2>3. /\ Mapped(b2, << >>) = << >> /\ \A s \in Seq(W) : Mapped(b2, s) \in Seq(B \X B)
        /\ \A s, t \in Seq(W) : Mapped(b2, Cat(s, t)) = Cat(Mapped(b2, s), Mapped(b2, t))
    BY <1>1, MapCat
  <2> QED BY <2>1, <2>2, <2>3
<1>5. CASE j.op = "words"
  <2>1. Item(B, j.op) = W
    BY <1>5 DEF Item, W
  <2>2. \A s \in Seq(B) : Listed(j, s) = Mapped(o, Mapped(w, Split(s))) /\ Split(s) \in Seq(P)
    BY <1>2, <1>5
  <2>3. Listed(j, << >>) = << >>
    BY <1>3, <1>4, <2>2
  <2>4. \A s \in Seq(B) : Listed(j, s) \in Seq(Item(B, j.op))
    BY <1>4, <2>1, <2>2
  <2>5. ASSUME NEW a \in Seq(B), NEW b \in Seq(B), NEW c \in Seq(B), Split(c) = Cat(Split(a), Split(b))
        PROVE  Listed(j, c) = Cat(Listed(j, a), Listed(j, b))
    BY <1>4, <2>2, <2>5
  <2> QED BY <2>3, <2>4, <2>5 DEF Split
<1>6. CASE j.op = "ids"
  <2>1. Item(B, j.op) = P
    BY <1>6 DEF Item, P
  <2>2. \A s \in Seq(B) : Listed(j, s) = Mapped(w, Split(s)) /\ Split(s) \in Seq(P)
    BY <1>2, <1>6
  <2>3. Listed(j, << >>) = << >>
    BY <1>3, <1>4, <2>2
  <2>4. \A s \in Seq(B) : Listed(j, s) \in Seq(Item(B, j.op))
    BY <1>4, <2>1, <2>2
  <2>5. ASSUME NEW a \in Seq(B), NEW b \in Seq(B), NEW c \in Seq(B), Split(c) = Cat(Split(a), Split(b))
        PROVE  Listed(j, c) = Cat(Listed(j, a), Listed(j, b))
    BY <1>4, <2>2, <2>5
  <2> QED BY <2>3, <2>4, <2>5 DEF Split
<1>7. CASE j.op = "bigrams"
  <2>1. Item(B, j.op) = B \X B
    BY <1>7 DEF Item
  <2>2. \A s \in Seq(B) : Listed(j, s) = Mapped(b2, Mapped(o, Split(s))) /\ Split(s) \in Seq(P)
    BY <1>2, <1>7
  <2>3. Listed(j, << >>) = << >>
    BY <1>3, <1>4, <2>2
  <2>4. \A s \in Seq(B) : Listed(j, s) \in Seq(Item(B, j.op))
    BY <1>4, <2>1, <2>2
  <2>5. ASSUME NEW a \in Seq(B), NEW b \in Seq(B), NEW c \in Seq(B), Split(c) = Cat(Split(a), Split(b))
        PROVE  Listed(j, c) = Cat(Listed(j, a), Listed(j, b))
    BY <1>4, <2>2, <2>5
  <2> QED BY <2>3, <2>4, <2>5 DEF Split
<1> QED BY <1>5, <1>6, <1>7

-----------------------------------------------------------------------------
(* Counts. *)

\* Counts of finitely many things.
Counts(b) == IsFiniteSet(DOMAIN b) /\ \A x \in DOMAIN b : b[x] \in Nat \ {0}

\* What a list counts.
LEMMA BagIs ==
  ASSUME NEW U, NEW s \in Seq(U)
  PROVE  /\ s \in Seq(U) /\ DOMAIN ToBag(s) = Elements(s) /\ Counts(ToBag(s))
         /\ ToBag(s) = [x \in Elements(s) |-> UnitCount(s, x)]
         /\ \A x : x \notin Elements(s) => UnitCount(s, x) = 0
<1>1. Range(s) = Elements(s)
  BY DEF Range, Elements
<1>2. ToBag(s) = [x \in Elements(s) |-> UnitCount(s, x)]
  BY <1>1 DEF ToBag, UnitCount
<1>3. \A x : UnitPositions(s, x) = {} <=> x \notin Elements(s)
  BY DEF UnitPositions, Elements
<1>4. \A x : /\ IsFiniteSet(UnitPositions(s, x)) /\ UnitCount(s, x) = Cardinality(UnitPositions(s, x))
             /\ UnitCount(s, x) \in Nat
  BY CountType
<1>5. \A x : UnitCount(s, x) = 0 <=> x \notin Elements(s)
  <2> TAKE x
  <2>1. Cardinality(UnitPositions(s, x)) = 0 <=> UnitPositions(s, x) = {}
    BY <1>4, FS_EmptySet
  <2> QED BY <1>3, <1>4, <2>1
<1>6. IsFiniteSet(Elements(s))
  <2>1. IsFiniteSet(1..Len(s)) /\ DOMAIN s = 1..Len(s)
    <3>1. Len(s) \in Nat /\ DOMAIN s = 1..Len(s)
      OBVIOUS
    <3> QED BY <3>1, FS_Interval
  <2> DEFINE S == 1..Len(s)
             T == Elements(s)
             f == [i \in S |-> s[i]]
  <2>2. f \in [S -> T] /\ \A y \in T : \E i \in S : f[i] = y
    BY <2>1 DEF Elements
  <2> HIDE DEF f, S, T
  <2>3. f \in Surjection(S, T)
    BY <2>2 DEF Surjection
  <2>4. IsFiniteSet(T)
    BY <2>1, <2>3, FS_Surjection DEF S
  <2> QED BY <2>4 DEF T
<1> DEFINE E == Elements(s)
           b == ToBag(s)
<1>7. DOMAIN b = E /\ \A x \in E : b[x] = UnitCount(s, x)
  BY <1>2
<1> HIDE DEF E, b
<1>8. Counts(b)
  <2>1. \A x \in E : b[x] \in Nat \ {0}
    BY <1>4, <1>5, <1>7 DEF E
  <2> QED BY <1>6, <1>7, <2>1 DEF Counts, E
<1> QED BY <1>2, <1>5, <1>7, <1>8 DEF E, b

\* Lists put together count what they count together.
LEMMA BagCat ==
  ASSUME NEW U, NEW s \in Seq(U), NEW t \in Seq(U)
  PROVE  s \in Seq(U) /\ t \in Seq(U) /\ ToBag(Cat(s, t)) = ToBag(s) (+) ToBag(t)
<1> DEFINE c == Cat(s, t)
           a == ToBag(s)
           b == ToBag(t)
<1>1. c \in Seq(U) /\ \A x : UnitCount(c, x) = UnitCount(s, x) + UnitCount(t, x)
  <2>1. c \in Seq(U)
    BY ConsAlgebra
  <2>2. \A x : UnitCount(s \o t, x) = UnitCount(s, x) + UnitCount(t, x)
    BY UnitCountConcat
  <2> QED BY <2>1, <2>2 DEF Cat
<1>2. Elements(c) = Elements(s) \cup Elements(t)
  <2>1. /\ Len(s) \in Nat /\ Len(t) \in Nat /\ Len(c) = Len(s) + Len(t)
        /\ \A j \in 1..Len(s) : c[j] = s[j]
        /\ \A j \in 1..Len(t) : c[Len(s) + j] = t[j]
    BY CatParts, Zenon
  <2>2. DOMAIN c = 1..Len(c) /\ DOMAIN s = 1..Len(s) /\ DOMAIN t = 1..Len(t)
    BY <1>1
  <2> DEFINE n == Len(s)
             m == Len(t)
  <2> HIDE DEF c, n, m
  <2>3. ASSUME NEW x \in Elements(c) PROVE x \in Elements(s) \cup Elements(t)
    <3>1. PICK j \in 1..n + m : x = c[j]
      BY <2>1, <2>2 DEF Elements, n, m
    <3>2. CASE j \in 1..n
      BY <2>1, <2>2, <3>1, <3>2 DEF Elements, n
    <3>3. CASE j \notin 1..n
      <4>1. j - n \in 1..m /\ n + (j - n) = j
        BY <2>1, <3>3 DEF n, m
      <4>2. c[n + (j - n)] = t[j - n]
        BY <2>1, <4>1 DEF n, m
      <4>3. t[j - n] \in Elements(t)
        BY <2>2, <4>1 DEF Elements, m
      <4> QED BY <3>1, <4>1, <4>2, <4>3
    <3> QED BY <3>2, <3>3
  <2>4. ASSUME NEW x \in Elements(s) PROVE x \in Elements(c)
    <3>1. PICK j \in 1..n : x = s[j]
      BY <2>2 DEF Elements, n
    <3>2. j \in 1..n + m
      BY <2>1 DEF n, m
    <3>3. c[j] = x
      BY <2>1, <3>1 DEF n
    <3> QED BY <2>1, <2>2, <3>2, <3>3 DEF Elements, n, m
  <2>5. ASSUME NEW x \in Elements(t) PROVE x \in Elements(c)
    <3>1. PICK j \in 1..m : x = t[j]
      BY <2>2 DEF Elements, m
    <3>2. n + j \in 1..n + m
      BY <2>1 DEF n, m
    <3>3. c[n + j] = x
      BY <2>1, <3>1 DEF n, m
    <3> QED BY <2>1, <2>2, <3>2, <3>3 DEF Elements, n, m
  <2> QED BY <2>3, <2>4, <2>5
<1> DEFINE S == Elements(s)
           T == Elements(t)
<1>3. /\ a = [x \in S |-> UnitCount(s, x)] /\ b = [x \in T |-> UnitCount(t, x)]
      /\ \A x : (x \notin S => UnitCount(s, x) = 0) /\ (x \notin T => UnitCount(t, x) = 0)
  BY BagIs
<1>4. \A x : UnitCount(s, x) \in Nat /\ UnitCount(t, x) \in Nat
  BY CountType
<1>5. ToBag(c) = [x \in S \cup T |-> UnitCount(c, x)]
  BY <1>1, <1>2, BagIs
<1> HIDE DEF S, T, c, a, b
<1>6. DOMAIN a = S /\ DOMAIN b = T
  BY <1>3
<1>7. \A x \in S \cup T : UnitCount(c, x) = (IF x \in S THEN a[x] ELSE 0) + (IF x \in T THEN b[x] ELSE 0)
  <2> TAKE x \in S \cup T
  <2>1. (IF x \in S THEN a[x] ELSE 0) = UnitCount(s, x)
    BY <1>3
  <2>2. (IF x \in T THEN b[x] ELSE 0) = UnitCount(t, x)
    BY <1>3
  <2> QED BY <1>1, <2>1, <2>2
<1>8. a (+) b = [x \in S \cup T |-> (IF x \in S THEN a[x] ELSE 0) + (IF x \in T THEN b[x] ELSE 0)]
  BY <1>6 DEF (+)
<1>9. ToBag(c) = a (+) b
  BY <1>5, <1>7, <1>8
<1> QED BY <1>9 DEF a, b, c

-----------------------------------------------------------------------------
(* What is made of the chunks. *)

\* What is listed for the chunks cs of a job.
Lists(j, cs) ==
  [k \in DOMAIN cs |-> Listed(j, Lossy(Read(j.file, cs[k].from, cs[k].to - cs[k].from)))]

Gathered(j, items) == IF j.op = "ids" THEN items ELSE ToBag(items)

Outcome(j, value) == IF j.op = "bigrams" THEN Selection(value, j.topK, j.minFreq) ELSE value

\* A part is what its chunks list, put together; the result is that of all.
PartsInv ==
  /\ \A p \in parts :
       /\ p.first \in 1..Len(chunks) /\ p.last \in p.first..Len(chunks)
       /\ p.value = Gathered(job, FlattenSeq(SubSeq(Lists(job, chunks), p.first, p.last)))
  /\ phase = "done" =>
       \E p \in parts : p.first = 1 /\ p.last = Len(chunks) /\ result = Outcome(job, p.value)

\* The special tokens of a job.
LEMMA JobTokens ==
  ASSUME job \in Jobs
  PROVE  Tokens(Chars, job.special) /\ job.op \in {"words", "ids", "bigrams"}
<1>1. /\ job.special \in Seq(Seq(Scalars)) /\ \A t \in DOMAIN job.special : IsText(job.special[t])
      /\ job.op \in {"words", "ids", "bigrams"}
  BY JobIs
<1> DEFINE sp == job.special
           V == Seq(Scalars)
           W == Seq(Chars)
<1>2. V \subseteq W
  <2>1. Scalars \subseteq Chars
    BY DEF Chars
  <2> HIDE DEF V, W
  <2> QED BY <2>1 DEF V, W
<1>3. sp \in Seq(V) /\ \A t \in DOMAIN sp : sp[t] # << >>
  BY <1>1 DEF IsText
<1> HIDE DEF sp, V, W
<1>4. sp \in Seq(W)
  BY <1>2, <1>3
<1> QED BY <1>1, <1>3, <1>4 DEF Tokens, sp, W

\* The chunks list items.
LEMMA ListsAre ==
  ASSUME CutInv, phase \in {"reading", "done"}
  PROVE  /\ Lists(job, chunks) \in Seq(Seq(Item(Chars, job.op)))
         /\ Len(Lists(job, chunks)) = Len(Cuts) - 1 /\ Len(chunks) = Len(Cuts) - 1
         /\ Len(Cuts) - 1 \in Nat /\ Len(Cuts) - 1 >= 1 /\ DOMAIN chunks = 1..Len(Cuts) - 1
         /\ \A k \in 1..Len(Cuts) - 1 : Lists(job, chunks)[k] = Listed(job, Lossy(PieceOf(k)))
<1> DEFINE n == Len(Cuts) - 1
           ls == Lists(job, chunks)
           W == Seq(Item(Chars, job.op))
<1>1. Len(Cuts) \in Nat /\ Len(Cuts) >= 2 /\ chunks = ChunksAt(Cuts)
  BY CutsAre
<1>2. /\ DOMAIN chunks = 1..n
      /\ \A k \in 1..n :
           /\ Read(job.file, chunks[k].from, chunks[k].to - chunks[k].from) = PieceOf(k)
           /\ PieceOf(k) \in Seq(JobBytes)
  BY ChunkIs
<1>3. n \in Nat /\ n >= 1
  BY <1>1
<1>4. job \in Jobs
  BY DEF CutInv, BoundariesInv
<1>5. \A s \in Seq(Chars) : Listed(job, s) \in W
  BY <1>4, JobTokens, ListedCat
<1>6. \A s \in Seq(JobBytes) : Lossy(s) \in Seq(Chars)
  BY LossySteps
<1>7. Len(chunks) = n
  <2>1. chunks = [k \in 1..n |-> [from |-> Cuts[k], to |-> Cuts[k + 1]]]
    BY <1>1 DEF ChunksAt
  <2> HIDE DEF n
  <2> QED BY <1>3, <2>1
<1> HIDE DEF n, W
<1>8. ls = [k \in 1..n |-> Listed(job, Lossy(PieceOf(k)))]
  BY <1>2 DEF Lists
<1>9. \A k \in 1..n : Listed(job, Lossy(PieceOf(k))) \in W
  BY <1>2, <1>5, <1>6
<1> HIDE DEF ls
<1>10. ls \in Seq(W) /\ Len(ls) = n
  BY <1>3, <1>8, <1>9
<1>11. \A k \in 1..n : ls[k] = Listed(job, Lossy(PieceOf(k)))
  BY <1>8
<1> QED BY <1>2, <1>3, <1>7, <1>10, <1>11 DEF n, ls, W

\* Two parts, one behind the other.
LEMMA PartsMeet ==
  ASSUME NEW B, NEW s \in Seq(B), NEW a \in Nat, NEW b \in Nat, NEW c \in Nat,
         1 <= a, a <= b, b <= c, c <= Len(s)
  PROVE  /\ SubSeq(s, a, b) \in Seq(B) /\ SubSeq(s, b + 1, c) \in Seq(B)
         /\ SubSeq(s, a, c) = Cat(SubSeq(s, a, b), SubSeq(s, b + 1, c))
<1> DEFINE x == SubSeq(s, a, b)
           y == SubSeq(s, b + 1, c)
           z == SubSeq(s, a, c)
           d == a - 1
<1>0. d \in Nat /\ d + 1 = a /\ d <= b /\ d <= c /\ b <= Len(s)
  OBVIOUS
<1>1. /\ x \in Seq(B) /\ Len(x) = b - d /\ \A j \in 1..b - d : x[j] = s[d + j]
      /\ z \in Seq(B) /\ Len(z) = c - d /\ \A j \in 1..c - d : z[j] = s[d + j]
  <2>1. /\ SubSeq(s, d + 1, b) \in Seq(B) /\ Len(SubSeq(s, d + 1, b)) = b - d
        /\ \A j \in 1..b - d : SubSeq(s, d + 1, b)[j] = s[d + j]
    <3> HIDE DEF d
    <3> QED BY <1>0, PartIs
  <2>2. /\ SubSeq(s, d + 1, c) \in Seq(B) /\ Len(SubSeq(s, d + 1, c)) = c - d
        /\ \A j \in 1..c - d : SubSeq(s, d + 1, c)[j] = s[d + j]
    <3> HIDE DEF d
    <3> QED BY <1>0, PartIs
  <2> HIDE DEF d
  <2> QED BY <1>0, <2>1, <2>2
<1>2. y \in Seq(B) /\ Len(y) = c - b /\ \A j \in 1..c - b : y[j] = s[b + j]
  BY PartIs
<1> HIDE DEF x, y, z, d
<1> DEFINE w == Cat(x, y)
<1>3. /\ w \in Seq(B) /\ Len(w) = Len(x) + Len(y)
      /\ \A j \in 1..Len(x) : w[j] = x[j]
      /\ \A j \in 1..Len(y) : w[Len(x) + j] = y[j]
  <2>1. x \in Seq(B) /\ y \in Seq(B)
    BY <1>1, <1>2
  <2>2. /\ Cat(x, y) \in Seq(B) /\ Len(Cat(x, y)) = Len(x) + Len(y)
        /\ \A j \in 1..Len(x) : Cat(x, y)[j] = x[j]
        /\ \A j \in 1..Len(y) : Cat(x, y)[Len(x) + j] = y[j]
    BY <2>1, CatParts, Zenon
  <2> QED BY <2>2 DEF w
<1> HIDE DEF w
<1>4. Len(w) = c - d
  BY <1>0, <1>1, <1>2, <1>3
<1>5. \A j \in 1..c - d : w[j] = z[j]
  <2> TAKE j \in 1..c - d
  <2>1. CASE j <= b - d
    <3>1. j \in 1..b - d
      BY <1>0, <2>1
    <3> QED BY <1>1, <1>3, <3>1
  <2>2. CASE ~(j <= b - d)
    <3> DEFINE k == j - (b - d)
    <3>1. k \in 1..c - b /\ (b - d) + k = j /\ b + k = d + j
      BY <1>0, <2>2
    <3> HIDE DEF k
    <3>2. w[(b - d) + k] = y[k]
      BY <1>1, <1>2, <1>3, <3>1
    <3>3. y[k] = s[b + k]
      BY <1>2, <3>1
    <3> QED BY <1>1, <3>1, <3>2, <3>3
  <2> QED BY <2>1, <2>2
<1>6. w = z
  <2> DEFINE m == c - d
  <2>1. w \in Seq(B) /\ z \in Seq(B) /\ Len(w) = m /\ Len(z) = m /\ m \in Nat /\ \A j \in 1..m : w[j] = z[j]
    BY <1>0, <1>1, <1>3, <1>4, <1>5
  <2> HIDE DEF m
  <2> QED BY ONLY <2>1
<1> QED BY <1>1, <1>2, <1>6 DEF w, x, y, z

\* Joined values are those of the joined chunks.
LEMMA JoinedAre ==
  ASSUME NEW V, NEW ls \in Seq(Seq(V)), NEW a \in Nat, NEW b \in Nat, NEW c \in Nat,
         1 <= a, a <= b, b <= c, c <= Len(ls)
  PROVE  ls \in Seq(Seq(V)) /\
         Joined(Gathered(job, FlattenSeq(SubSeq(ls, a, b))),
                Gathered(job, FlattenSeq(SubSeq(ls, b + 1, c))))
           = Gathered(job, FlattenSeq(SubSeq(ls, a, c)))
<1> DEFINE W == Seq(V)
           x == SubSeq(ls, a, b)
           y == SubSeq(ls, b + 1, c)
<1>1. /\ x \in Seq(W) /\ y \in Seq(W)
      /\ SubSeq(ls, a, c) = Cat(x, y)
  <2>1. ls \in Seq(W) /\ a \in Nat /\ b \in Nat /\ c \in Nat /\ 1 <= a /\ a <= b /\ b <= c /\ c <= Len(ls)
    OBVIOUS
  <2> HIDE DEF W
  <2>2. /\ SubSeq(ls, a, b) \in Seq(W) /\ SubSeq(ls, b + 1, c) \in Seq(W)
        /\ SubSeq(ls, a, c) = Cat(SubSeq(ls, a, b), SubSeq(ls, b + 1, c))
    <3>1. \A B : \A s \in Seq(B) : \A p, q, r \in Nat : 1 <= p /\ p <= q /\ q <= r /\ r <= Len(s) =>
            /\ SubSeq(s, p, q) \in Seq(B) /\ SubSeq(s, q + 1, r) \in Seq(B)
            /\ SubSeq(s, p, r) = Cat(SubSeq(s, p, q), SubSeq(s, q + 1, r))
      BY ONLY PartsMeet
    <3>2. \A s \in Seq(W) : \A p, q, r \in Nat : 1 <= p /\ p <= q /\ q <= r /\ r <= Len(s) =>
            /\ SubSeq(s, p, q) \in Seq(W) /\ SubSeq(s, q + 1, r) \in Seq(W)
            /\ SubSeq(s, p, r) = Cat(SubSeq(s, p, q), SubSeq(s, q + 1, r))
      BY ONLY <3>1
    <3> QED BY ONLY <2>1, <3>2
  <2> QED BY <2>2 DEF x, y
<1> HIDE DEF x, y
<1>2. FlattenSeq(Cat(x, y)) = Cat(FlattenSeq(x), FlattenSeq(y))
  BY <1>1, FlattenCat
<1>3. FlattenSeq(x) \in W /\ FlattenSeq(y) \in W
  BY <1>1, Flattened
<1>4. ToBag(Cat(FlattenSeq(x), FlattenSeq(y))) = ToBag(FlattenSeq(x)) (+) ToBag(FlattenSeq(y))
  BY <1>3, BagCat
<1>5. Joined(Gathered(job, FlattenSeq(x)), Gathered(job, FlattenSeq(y)))
        = Gathered(job, FlattenSeq(SubSeq(ls, a, c)))
  BY <1>1, <1>2, <1>4 DEF Joined, Gathered, Cat
<1> QED BY <1>5 DEF x, y

\* A chunk that is read is a part.
LEMMA ChunkGathered ==
  ASSUME CutInv, phase = "reading", NEW k \in DOMAIN chunks
  PROVE  /\ k \in 1..Len(chunks) /\ k \in k..Len(chunks)
         /\ ValueOfChunk(k) = Gathered(job, FlattenSeq(SubSeq(Lists(job, chunks), k, k)))
<1> DEFINE ls == Lists(job, chunks)
           V == Item(Chars, job.op)
           W == Seq(V)
<1>1. ls \in Seq(W) /\ Len(ls) = Len(chunks) /\ Len(chunks) \in Nat /\ DOMAIN chunks = 1..Len(chunks)
  BY ListsAre
<1>2. k \in 1..Len(chunks) /\ k \in Nat /\ k \in k..Len(chunks)
  BY <1>1
<1>3. ls[k] = Listed(job, Lossy(Read(job.file, chunks[k].from, chunks[k].to - chunks[k].from)))
  BY DEF Lists
<1>4. ValueOfChunk(k) = Gathered(job, ls[k])
  BY <1>3 DEF ValueOfChunk, ValueOf, Gathered
<1>5. SubSeq(ls, k, k) = <<ls[k]>>
  <2> DEFINE d == k - 1
             x == SubSeq(ls, k, k)
  <2>1. ls \in Seq(W) /\ d \in Nat /\ k \in Nat /\ d <= k /\ k <= Len(ls) /\ d + 1 = k /\ k - d = 1 /\ ls[k] \in W
    BY <1>1, <1>2
  <2> HIDE DEF d, ls, W
  <2>2. SubSeq(ls, d + 1, k) \in Seq(W) /\ Len(SubSeq(ls, d + 1, k)) = k - d
        /\ \A j \in 1..k - d : SubSeq(ls, d + 1, k)[j] = ls[d + j]
    BY ONLY <2>1, PartIs
  <2>3. x \in Seq(W) /\ Len(x) = 1 /\ x[1] = ls[k]
    <3>1. x \in Seq(W) /\ Len(x) = 1 /\ \A j \in 1..1 : x[j] = ls[d + j]
      BY ONLY <2>1, <2>2 DEF x
    <3>2. x[1] = ls[d + 1]
      BY <3>1
    <3> QED BY <3>1, <3>2, <2>1
  <2> HIDE DEF x
  <2>4. x = <<ls[k]>>
    BY ONLY <2>1, <2>3
  <2> QED BY <2>4 DEF x
<1>6. ls[k] \in W
  <2> HIDE DEF ls, W
  <2> QED BY <1>1, <1>2
<1>7. FlattenSeq(<<ls[k]>>) = ls[k]
  <2> HIDE DEF ls
  <2> QED BY <1>6, FlattenOne
<1> QED BY <1>2, <1>4, <1>5, <1>7

\* Every step keeps that.
LEMMA PartsInvNext == CutInv /\ PartsInv /\ [Next]_vars => PartsInv'
<1> SUFFICES ASSUME CutInv, PartsInv, [Next]_vars PROVE PartsInv'
  OBVIOUS
<1>0. phase \in {"searching", "aligning"} => parts = {}
  BY DEF CutInv, CutsInv
<1>1. CASE Search \/ AlignToToken \/ AlignToText \/ Cut
  <2>1. phase \in {"searching", "aligning"} /\ parts' = parts /\ phase' # "done"
    BY <1>1 DEF Search, AlignToToken, AlignToText, Cut
  <2> QED BY <1>0, <2>1 DEF PartsInv
<1>2. ASSUME NEW k \in DOMAIN chunks, ReadChunk(k) PROVE PartsInv'
  <2> DEFINE r == [first |-> k, last |-> k, value |-> ValueOfChunk(k)]
  <2>1. phase = "reading" /\ phase' = phase /\ job' = job /\ chunks' = chunks /\ parts' = parts \cup {r}
    BY <1>2 DEF ReadChunk
  <2>2. /\ k \in 1..Len(chunks) /\ k \in k..Len(chunks)
        /\ ValueOfChunk(k) = Gathered(job, FlattenSeq(SubSeq(Lists(job, chunks), k, k)))
    BY <2>1, ChunkGathered
  <2>3. /\ r.first \in 1..Len(chunks) /\ r.last \in r.first..Len(chunks)
        /\ r.value = Gathered(job, FlattenSeq(SubSeq(Lists(job, chunks), r.first, r.last)))
    BY <2>2
  <2> HIDE DEF r
  <2> QED BY <2>1, <2>3 DEF PartsInv
<1>3. ASSUME NEW p \in parts, NEW q \in parts, Join(p, q) PROVE PartsInv'
  <2> DEFINE r == [first |-> p.first, last |-> q.last, value |-> Joined(p.value, q.value)]
             ls == Lists(job, chunks)
             V == Item(Chars, job.op)
  <2>1. /\ phase = "reading" /\ phase' = phase /\ job' = job /\ chunks' = chunks
        /\ q.first = p.last + 1
        /\ parts' = (parts \ {p, q}) \cup {r}
    BY <1>3 DEF Join
  <2>2. ls \in Seq(Seq(V)) /\ Len(ls) = Len(chunks) /\ Len(chunks) \in Nat
    BY <2>1, ListsAre
  <2> HIDE DEF ls, V
  <2>3. /\ p.first \in 1..Len(chunks) /\ p.last \in p.first..Len(chunks)
        /\ q.first \in 1..Len(chunks) /\ q.last \in q.first..Len(chunks)
        /\ p.value = Gathered(job, FlattenSeq(SubSeq(ls, p.first, p.last)))
        /\ q.value = Gathered(job, FlattenSeq(SubSeq(ls, q.first, q.last)))
    BY DEF PartsInv, ls
  <2> DEFINE a == p.first
             b == p.last
             c == q.last
             n == Len(chunks)
  <2>a. a \in 1..n /\ b \in a..n /\ b + 1 \in 1..n /\ c \in b + 1..n /\ n \in Nat /\ n = Len(ls)
    BY <2>1, <2>2, <2>3
  <2>4. /\ a \in Nat /\ b \in Nat /\ c \in Nat /\ 1 <= a /\ a <= b /\ b <= c /\ c <= Len(ls)
        /\ a \in 1..n /\ c \in a..n
    <3> HIDE DEF a, b, c, n
    <3> QED BY ONLY <2>a
  <2>5. Joined(p.value, q.value) = Gathered(job, FlattenSeq(SubSeq(ls, a, c)))
    <3>1. Joined(Gathered(job, FlattenSeq(SubSeq(ls, a, b))), Gathered(job, FlattenSeq(SubSeq(ls, b + 1, c))))
            = Gathered(job, FlattenSeq(SubSeq(ls, a, c)))
      <4> HIDE DEF a, b, c
      <4> QED BY <2>2, <2>4, JoinedAre
    <3> QED BY <2>1, <2>3, <3>1
  <2>6. /\ r.first \in 1..Len(chunks) /\ r.last \in r.first..Len(chunks)
        /\ r.value = Gathered(job, FlattenSeq(SubSeq(ls, r.first, r.last)))
    BY <2>4, <2>5
  <2> HIDE DEF r
  <2> QED BY <2>1, <2>6 DEF PartsInv, ls
<1>4. CASE Finish
  <2>1. /\ phase' = "done" /\ job' = job /\ chunks' = chunks /\ parts' = parts
        /\ \E p \in parts :
             /\ p.first = 1 /\ p.last = Len(chunks)
             /\ result' = Outcome(job, p.value)
    BY <1>4 DEF Finish, Outcome
  <2> QED BY <2>1 DEF PartsInv
<1>5. CASE UNCHANGED vars
  BY <1>5 DEF PartsInv, vars
<1>6. CASE Done
  BY <1>5, <1>6 DEF Done
<1> QED BY <1>1, <1>2, <1>3, <1>4, <1>5, <1>6 DEF Next

\* Nothing is made of a file before it is read.
LEMMA PartsInvInit == Init => PartsInv
<1> SUFFICES ASSUME Init PROVE PartsInv
  OBVIOUS
<1>1. parts = {} /\ phase # "done"
  BY DEF Init
<1> QED BY <1>1 DEF PartsInv

-----------------------------------------------------------------------------
(* The selected bigrams. *)

\* Where the counts of a set of things are the least.
LEMMA LeastCounted ==
  ASSUME NEW T, T # {}, NEW c, \A x \in T : c[x] \in Nat
  PROVE  \E x \in T : \A y \in T : c[x] <= c[y]
<1> DEFINE N == {c[x] : x \in T}
<1>1. N \in SUBSET Nat /\ N # {}
  OBVIOUS
<1>2. \E n \in N : \A m \in N : n <= m
  <2> HIDE DEF N
  <2> QED BY <1>1, Least
<1> QED BY <1>2

\* A list of all of S, the greatest counts first.
Ranking(S, c, s) ==
  /\ s \in SetToSeqs(S)
  /\ \A i, j \in DOMAIN s : i < j => c[s[i]] >= c[s[j]]

\* Finitely many things can be ranked.
LEMMA RankingExists ==
  ASSUME NEW S, IsFiniteSet(S), NEW c, \A x \in S : c[x] \in Nat
  PROVE  \E s : Ranking(S, c, s)
<1> DEFINE Q == {T \in SUBSET S : \E s : Ranking(T, c, s)}
           N == {n \in Nat : \A T \in SUBSET S : Cardinality(T) = n => T \in Q}
<1>0. \A T \in SUBSET S : IsFiniteSet(T) /\ Cardinality(T) \in Nat
  BY FS_Subset, FS_CardinalityType
<1>1. 0 \in N
  <2> SUFFICES ASSUME NEW T \in SUBSET S, Cardinality(T) = 0 PROVE T \in Q
    OBVIOUS
  <2>1. T = {}
    BY <1>0, FS_EmptySet
  <2> DEFINE e == [i \in 1..0 |-> i]
  <2>2. e \in [1..0 -> {}] /\ \A i, j \in 1..0 : i # j => e[i] # e[j]
    OBVIOUS
  <2>3. Cardinality({}) = 0
    BY FS_EmptySet
  <2>4. e \in SetToSeqs({})
    <3> HIDE DEF e
    <3> QED BY <2>2, <2>3 DEF SetToSeqs
  <2>5. \A i, j \in DOMAIN e : i < j => c[e[i]] >= c[e[j]]
    OBVIOUS
  <2> HIDE DEF e
  <2>6. Ranking({}, c, e)
    BY <2>4, <2>5 DEF Ranking
  <2> QED BY <2>1, <2>6
<1>2. ASSUME NEW n \in N PROVE n + 1 \in N
  <2> SUFFICES ASSUME NEW T \in SUBSET S, Cardinality(T) = n + 1 PROVE T \in Q
    BY <1>2
  <2>1. n \in Nat /\ T # {}
    BY <1>2, FS_EmptySet
  <2>2. PICK x \in T : \A y \in T : c[x] <= c[y]
    BY <2>1, LeastCounted
  <2> DEFINE R == T \ {x}
  <2>3. Cardinality(R) = n /\ R \in SUBSET S
    BY <1>0, <2>1, FS_RemoveElement
  <2>4. R \in Q
    <3> HIDE DEF R, Q
    <3> QED BY <1>2, <2>3
  <2>5. PICK s : Ranking(R, c, s)
    BY <2>4
  <2> HIDE DEF R, Q, N
  <2>6. /\ s \in [1..n -> R] /\ \A i, j \in 1..n : i # j => s[i] # s[j]
        /\ \A i, j \in 1..n : i < j => c[s[i]] >= c[s[j]]
    BY <2>3, <2>5 DEF Ranking, SetToSeqs
  <2> DEFINE t == [i \in 1..n + 1 |-> IF i <= n THEN s[i] ELSE x]
  <2>7. /\ t \in [1..n + 1 -> T] /\ DOMAIN t = 1..n + 1
        /\ \A i \in 1..n : t[i] = s[i] /\ s[i] \in T /\ s[i] # x /\ i \in 1..n + 1
        /\ t[n + 1] = x
    <3>1. \A i \in 1..n : s[i] \in T /\ s[i] # x
      BY <2>6 DEF R
    <3> QED BY <2>1, <3>1
  <2> HIDE DEF t
  <2>8. ASSUME NEW i \in 1..n + 1, NEW j \in 1..n + 1, i # j PROVE t[i] # t[j]
    <3>1. (i \in 1..n \/ i = n + 1) /\ (j \in 1..n \/ j = n + 1)
      BY <2>1
    <3> QED BY <2>6, <2>7, <2>8, <3>1
  <2>9. ASSUME NEW i \in 1..n + 1, NEW j \in 1..n + 1, i < j PROVE c[t[i]] >= c[t[j]]
    <3>1. i \in 1..n /\ (j \in 1..n \/ j = n + 1)
      BY <2>1, <2>9
    <3>2. CASE j = n + 1
      <4>1. c[x] <= c[s[i]] /\ c[x] \in Nat /\ c[s[i]] \in Nat
        BY <2>2, <2>7, <3>1
      <4> QED BY <2>7, <3>1, <3>2, <4>1
    <3>3. CASE j \in 1..n
      BY <2>6, <2>7, <2>9, <3>1, <3>3
    <3> QED BY <3>1, <3>2, <3>3
  <2>10. Ranking(T, c, t)
    BY <2>7, <2>8, <2>9 DEF Ranking, SetToSeqs
  <2> QED BY <2>10 DEF Q
<1>3. N = Nat
  <2>1. N \in SUBSET Nat
    OBVIOUS
  <2> HIDE DEF N
  <2> QED BY <1>1, <1>2, <2>1, NatInd
<1>4. S \in Q
  <2>1. Cardinality(S) \in N
    BY <1>0, <1>3
  <2> HIDE DEF Q
  <2> QED BY <2>1
<1> QED BY <1>4

\* s lists the n things of S, the greatest counts first.
IsRanked(s, n, S, c) ==
  /\ n \in Nat /\ DOMAIN s = 1..n /\ Len(s) = n
  /\ \A i \in 1..n : s[i] \in S
  /\ \A x \in S : \E i \in 1..n : x = s[i]
  /\ \A i, j \in 1..n : i # j => s[i] # s[j]
  /\ \A i, j \in 1..n : i < j => c[s[i]] >= c[s[j]]

\* Ranked is such a list: it has every bigram once.
LEMMA RankedIs ==
  ASSUME NEW S, IsFiniteSet(S), NEW c, \A x \in S : c[x] \in Nat
  PROVE  LET n == Cardinality(S)
             s == Ranked(c, S)
         IN IsRanked(s, n, S, c)
<1> DEFINE n == Cardinality(S)
           s == Ranked(c, S)
<1>1. Ranking(S, c, s)
  BY RankingExists DEF Ranked, Ranking
<1> HIDE DEF s
<1>2. n \in Nat
  BY FS_CardinalityType
<1>3. s \in [1..n -> S] /\ \A i, j \in 1..n : i # j => s[i] # s[j]
  BY <1>1 DEF Ranking, SetToSeqs
<1> HIDE DEF n
<1>4. \A i, j \in 1..n : i < j => c[s[i]] >= c[s[j]]
  BY <1>1, <1>3 DEF Ranking
<1>5. s \in Injection(1..n, S)
  BY <1>3 DEF Injection, IsInjective
<1>6. Cardinality(1..n) = n
  BY <1>2, FS_Interval
<1>7. s \in Surjection(1..n, S)
  BY <1>5, <1>6, FS_Injection DEF n
<1>8. \A x \in S : \E i \in 1..n : x = s[i]
  BY <1>7 DEF Surjection
<1>9. s \in Seq(S) /\ Len(s) = n
  BY <1>2, <1>3
<1> QED BY <1>2, <1>3, <1>4, <1>8, <1>9 DEF n, s, IsRanked

\* The greatest and the least of a finite set of numbers.
LEMMA GreatestIs ==
  ASSUME NEW T \in SUBSET Nat, IsFiniteSet(T), T # {}
  PROVE  /\ Max(T) \in T /\ \A y \in T : y <= Max(T)
         /\ \A x \in T : (\A y \in T : y <= x) => Max(T) = x
<1>1. \E x \in T : \A y \in T : y <= x
  <2> DEFINE c == [x \in T |-> x]
             n == Cardinality(T)
             s == Ranked(c, T)
  <2>1. \A x \in T : c[x] = x /\ c[x] \in Nat
    OBVIOUS
  <2>2. n \in Nat /\ n # 0
    BY FS_CardinalityType, FS_EmptySet
  <2> HIDE DEF c
  <2>3. /\ \A i \in 1..n : s[i] \in T
        /\ \A x \in T : \E i \in 1..n : x = s[i]
        /\ \A i, j \in 1..n : i < j => c[s[i]] >= c[s[j]]
    <3>1. IsRanked(s, n, T, c)
      BY <2>1, RankedIs
    <3> HIDE DEF s, n
    <3> QED BY <3>1 DEF IsRanked
  <2> HIDE DEF s, n
  <2>4. 1 \in 1..n /\ \A i \in 1..n : i = 1 \/ 1 < i
    BY <2>2
  <2>5. ASSUME NEW y \in T PROVE y <= s[1]
    <3>1. PICK i \in 1..n : y = s[i]
      BY <2>3
    <3>2. s[1] \in T /\ s[1] \in Nat /\ c[s[1]] = s[1] /\ c[y] = y /\ y \in Nat
      BY <2>1, <2>3, <2>4
    <3> QED BY <2>3, <2>4, <3>1, <3>2
  <2> QED BY <2>3, <2>4, <2>5
<1>2. /\ Max(T) \in T /\ \A y \in T : Max(T) >= y
  <2>1. \E x \in T : \A y \in T : x >= y
    BY <1>1
  <2> QED BY <2>1 DEF Max
<1> DEFINE m == Max(T)
<1>3. \A x \in T : (\A y \in T : y <= x) => m = x
  <2> HIDE DEF m
  <2> SUFFICES ASSUME NEW x \in T, \A y \in T : y <= x PROVE m = x
    OBVIOUS
  <2>1. m \in Nat /\ x \in Nat /\ m <= x /\ m >= x
    BY <1>2 DEF m
  <2> QED BY ONLY <2>1
<1> QED BY <1>2, <1>3

\* What Min chooses.
LEMMA LeastIs ==
  ASSUME NEW T \in SUBSET Nat, NEW x \in T, \A y \in T : x <= y
  PROVE  Min(T) = x
<1> DEFINE m == Min(T)
<1>1. m \in T /\ \A y \in T : m <= y
  BY DEF Min
<1> HIDE DEF m
<1>2. m \in Nat /\ x \in Nat /\ m <= x /\ m >= x
  BY <1>1
<1>3. m = x
  BY ONLY <1>2
<1> QED BY <1>3 DEF m

\* The counts of finitely many things.
LEMMA CountsOf ==
  ASSUME NEW c, Counts(c), NEW S \in SUBSET DOMAIN c
  PROVE  /\ IsFiniteSet(S) /\ {c[b] : b \in S} \in SUBSET Nat
         /\ IsFiniteSet({c[b] : b \in S})
         /\ \A b \in S : c[b] \in Nat
<1>1. IsFiniteSet(S)
  BY FS_Subset DEF Counts
<1>2. \A b \in S : c[b] \in Nat
  BY DEF Counts
<1> DEFINE T == {c[b] : b \in S}
           f == [b \in S |-> c[b]]
<1>3. f \in [S -> T] /\ \A t \in T : \E b \in S : f[b] = t
  OBVIOUS
<1>4. T \in SUBSET Nat
  BY <1>2
<1> HIDE DEF f, T
<1>5. f \in Surjection(S, T)
  BY <1>3 DEF Surjection
<1>6. IsFiniteSet(T)
  BY <1>1, <1>5, FS_Surjection
<1> QED BY <1>1, <1>2, <1>4, <1>6 DEF T

\* Of finitely many things, at least m that are all in T, and T has as many.
LEMMA AtLeast ==
  ASSUME NEW T, IsFiniteSet(T), NEW m \in Nat, NEW s,
         \A i \in 1..m : s[i] \in T,
         \A i, j \in 1..m : i # j => s[i] # s[j]
  PROVE  m <= Cardinality(T)
<1> DEFINE f == [i \in 1..m |-> s[i]]
<1>1. f \in [1..m -> T] /\ \A i, j \in 1..m : f[i] = f[j] => i = j
  OBVIOUS
<1> HIDE DEF f
<1>2. f \in Injection(1..m, T)
  BY <1>1 DEF Injection, IsInjective
<1>3. Cardinality(1..m) = m
  BY FS_Interval
<1>4. Cardinality(1..m) <= Cardinality(T)
  BY <1>2, FS_Injection
<1> QED BY <1>3, <1>4

\* T has no more things than positions where they are.
LEMMA AtMost ==
  ASSUME NEW T, NEW m \in Nat, NEW s, \A x \in T : \E i \in 1..m : x = s[i]
  PROVE  IsFiniteSet(T) /\ Cardinality(T) \in Nat /\ Cardinality(T) <= m
<1> DEFINE P == {i \in 1..m : s[i] \in T}
           f == [i \in P |-> s[i]]
<1>1. f \in [P -> T] /\ \A x \in T : \E i \in P : f[i] = x
  <2>1. \A x \in T : \E i \in P : s[i] = x
    OBVIOUS
  <2> QED BY <2>1
<1>2. P \in SUBSET (1..m) /\ IsFiniteSet(1..m) /\ Cardinality(1..m) = m
  BY FS_Interval
<1> HIDE DEF f, P
<1>3. f \in Surjection(P, T)
  BY <1>1 DEF Surjection
<1>4. IsFiniteSet(P) /\ Cardinality(P) <= m
  BY <1>2, FS_Subset
<1>5. IsFiniteSet(T) /\ Cardinality(T) <= Cardinality(P)
  BY <1>3, <1>4, FS_Surjection
<1>6. Cardinality(T) \in Nat /\ Cardinality(P) \in Nat
  BY <1>4, <1>5, FS_CardinalityType
<1> QED BY <1>4, <1>5, <1>6

\* What a fair selection is.
More(c, b) == {d \in DOMAIN c : c[d] > c[b]}

FairlyKept(c, k, low) == {b \in DOMAIN c : c[b] >= low /\ Cardinality(More(c, b)) < k}

Fair(c, k, low) ==
  LET kept == FairlyKept(c, k, low)
      left == DOMAIN c \ kept
  IN [bigrams |-> kept,
      cutoff |-> IF kept = {} THEN None ELSE Min({c[b] : b \in kept}),
      excluded |-> Highest(c, left)]

Often(c, low) == {b \in DOMAIN c : c[b] >= low}

KeptFairly(c, k, low, often, s, m) ==
  /\ m \in 1..Len(s) /\ s[m] \in often /\ s[m] \in FairlyKept(c, k, low)
  /\ FairlyKept(c, k, low) = {b \in often : c[b] >= c[s[m]]}

\* Of the things that are often enough, those with a count no less than the
\* last of the first k ranked have fewer than k ahead of them, and no others.
LEMMA KeptAreFair ==
  ASSUME NEW c, Counts(c), NEW k \in Nat \ {0}, NEW low \in Int,
         NEW often, often = Often(c, low), often # {},
         NEW s, NEW n, IsRanked(s, n, often, c)
  PROVE  KeptFairly(c, k, low, often, s, Min({k, n}))
<1> DEFINE m == Min({k, n})
           S == DOMAIN c
<1>a. often = {b \in DOMAIN c : c[b] >= low}
  BY DEF Often
<1>0. /\ n \in Nat
      /\ \A i \in 1..n : s[i] \in often
      /\ \A x \in often : \E i \in 1..n : x = s[i]
      /\ \A i, j \in 1..n : i # j => s[i] # s[j]
      /\ \A i, j \in 1..n : i < j => c[s[i]] >= c[s[j]]
  BY DEF IsRanked
<1>1. n >= 1
  <2>1. PICK x \in often : TRUE
    OBVIOUS
  <2> QED BY <1>0, <2>1
<1>2. m \in {k, n} /\ m <= k /\ m <= n
  <2>1. \E x \in {k, n} : \A y \in {k, n} : x <= y
    BY <1>0
  <2>2. m \in {k, n} /\ \A y \in {k, n} : m <= y
    BY <2>1 DEF Min
  <2> QED BY <2>2
<1> HIDE DEF m
<1>3. m \in Nat /\ m >= 1 /\ m \in 1..n /\ (m = k \/ m = n)
  BY <1>0, <1>1, <1>2
<1>4. \A x \in S : c[x] \in Nat
  BY DEF Counts
<1>b. \A b \in often : b \in S /\ c[b] \in Nat /\ c[b] >= low
  BY <1>4, <1>a
<1>5. \A i \in 1..n : s[i] \in S /\ c[s[i]] \in Nat /\ c[s[i]] >= low
  BY <1>0, <1>b
<1>6. \A x \in S : IsFiniteSet(More(c, x)) /\ Cardinality(More(c, x)) \in Nat
  BY FS_Subset, FS_CardinalityType DEF Counts, More
<1>7. ASSUME NEW b \in often, c[b] >= c[s[m]] PROVE Cardinality(More(c, b)) < k
  <2> DEFINE T == More(c, b)
             q == m - 1
  <2>1. q \in Nat /\ q < k /\ \A i \in 1..n : i < m => i \in 1..q
    BY <1>2, <1>3
  <2>2. b \in S /\ c[b] \in Nat /\ c[b] >= low
    BY <1>b
  <2>3. \A x \in T : \E i \in 1..q : x = s[i]
    <3> SUFFICES ASSUME NEW x \in T PROVE \E i \in 1..q : x = s[i]
      OBVIOUS
    <3>1. x \in S /\ c[x] > c[b] /\ c[x] \in Nat
      BY <1>4 DEF More
    <3>2. x \in often
      BY <2>2, <3>1, <1>a
    <3>3. PICK i \in 1..n : x = s[i]
      BY <1>0, <3>2
    <3>4. i < m
      <4>1. c[s[m]] \in Nat /\ ~(c[s[m]] >= c[s[i]])
        BY <1>3, <1>5, <1>7, <2>2, <3>1, <3>3
      <4>2. ~(m < i) /\ m # i
        BY <1>0, <1>3, <3>3, <4>1
      <4> QED BY <1>3, <3>3, <4>2
    <3> QED BY <2>1, <3>3, <3>4
  <2> HIDE DEF T, q
  <2>4. IsFiniteSet(T) /\ Cardinality(T) \in Nat /\ Cardinality(T) <= q
    BY <2>1, <2>3, AtMost
  <2> QED BY <2>1, <2>4 DEF T
<1>8. ASSUME NEW b \in often, ~(c[b] >= c[s[m]]) PROVE ~(Cardinality(More(c, b)) < k)
  <2> DEFINE T == More(c, b)
  <2>1. b \in S /\ c[b] \in Nat
    BY <1>b
  <2>2. PICK i \in 1..n : b = s[i]
    BY <1>0
  <2>3. m # n
    BY <1>0, <1>3, <1>5, <1>8, <2>2
  <2>4. m = k
    BY <1>3, <2>3
  <2>5. \A j \in 1..m : s[j] \in T
    <3> SUFFICES ASSUME NEW j \in 1..m PROVE s[j] \in T
      OBVIOUS
    <3>1. j \in 1..n /\ (j = m \/ j < m)
      BY <1>0, <1>3
    <3>2. c[s[j]] >= c[s[m]]
      BY <1>0, <1>3, <1>5, <3>1
    <3>3. c[s[j]] > c[b]
      BY <1>3, <1>5, <1>8, <2>1, <3>1, <3>2
    <3> QED BY <1>5, <3>1, <3>3 DEF More
  <2>6. \A p, q \in 1..m : p # q => s[p] # s[q]
    BY <1>0, <1>3
  <2>7. IsFiniteSet(T) /\ Cardinality(T) \in Nat
    BY <1>6, <2>1
  <2> HIDE DEF T
  <2>8. m <= Cardinality(T)
    BY <1>3, <2>5, <2>6, <2>7, AtLeast
  <2> QED BY <1>3, <2>4, <2>7, <2>8 DEF T
<1>9. s[m] \in often /\ c[s[m]] \in Nat
  BY <1>0, <1>3, <1>5
<1>10. FairlyKept(c, k, low) = {b \in often : c[b] >= c[s[m]]}
  BY <1>7, <1>8, <1>a DEF FairlyKept
<1>11. s[m] \in FairlyKept(c, k, low)
  BY <1>9, <1>10
<1>12. m \in 1..n /\ n \in Nat
  BY <1>0, <1>3
<1> QED BY <1>9, <1>10, <1>11, <1>12 DEF m, KeptFairly, IsRanked

\* Selection is fair, ties and all.
LEMMA SelectionIs ==
  ASSUME NEW c, Counts(c), NEW k \in Nat, NEW low \in Int
  PROVE  Selection(c, k, low) = Fair(c, k, low)
<1> DEFINE often == {b \in DOMAIN c : c[b] >= low}
           rare == DOMAIN c \ often
           s == Ranked(c, often)
           n == Cardinality(often)
           m == Min({k, n})
           kept == {b \in often : c[b] >= c[s[m]]}
           left == often \ kept
           fair == FairlyKept(c, k, low)
           rest == DOMAIN c \ fair
<1>0. \A b \in DOMAIN c : Cardinality(More(c, b)) \in Nat
  BY FS_Subset, FS_CardinalityType DEF Counts, More
<1>1. CASE k = 0
  <2>1. fair = {}
    BY <1>0, <1>1 DEF FairlyKept
  <2>2. Selection(c, k, low) = [bigrams |-> {}, cutoff |-> None, excluded |-> Highest(c, DOMAIN c)]
    BY <1>1 DEF Selection
  <2>3. Fair(c, k, low) = [bigrams |-> {}, cutoff |-> None, excluded |-> Highest(c, DOMAIN c)]
    BY <2>1 DEF Fair
  <2> QED BY <2>2, <2>3
<1>2. CASE k # 0 /\ often = {}
  <2>1. fair = {} /\ rare = DOMAIN c
    BY <1>2 DEF FairlyKept
  <2>2. Selection(c, k, low) = [bigrams |-> {}, cutoff |-> None, excluded |-> Highest(c, DOMAIN c)]
    BY <1>2, <2>1 DEF Selection
  <2>3. Fair(c, k, low) = [bigrams |-> {}, cutoff |-> None, excluded |-> Highest(c, DOMAIN c)]
    BY <2>1 DEF Fair
  <2> QED BY <2>2, <2>3
<1>3. CASE k # 0 /\ often # {}
  <2>0. /\ IsFiniteSet(often) /\ \A b \in often : c[b] \in Nat
    BY CountsOf
  <2>1. IsRanked(s, n, often, c)
    <3> HIDE DEF often
    <3> QED BY <2>0, RankedIs
  <2>2. Len(s) = n
    BY <2>1 DEF IsRanked
  <2>3. m \in 1..n /\ s[m] \in often /\ s[m] \in fair /\ fair = kept
    <3>1. /\ k \in Nat \ {0} /\ often # {} /\ often = Often(c, low)
          /\ Counts(c) /\ low \in Int
      BY <1>3 DEF Often
    <3> HIDE DEF often, s, n
    <3>2. KeptFairly(c, k, low, often, s, m)
      BY ONLY <2>1, <3>1, KeptAreFair DEF m
    <3>3. Often(c, low) = often
      BY DEF Often, often
    <3> HIDE DEF m
    <3>4. m \in 1..n /\ s[m] \in often /\ s[m] \in fair /\ fair = {b \in often : c[b] >= c[s[m]]}
      BY <2>2, <3>2 DEF KeptFairly, s, n
    <3> QED BY <3>4
  <2>4. Selection(c, k, low) =
          [bigrams |-> kept, cutoff |-> c[s[m]],
           excluded |-> IF left = {} THEN Highest(c, rare) ELSE Highest(c, left)]
    BY <1>3, <2>2 DEF Selection
  <2>5. Min({c[b] : b \in fair}) = c[s[m]]
    <3> DEFINE C == {c[b] : b \in fair}
    <3>1. fair \in SUBSET DOMAIN c
      BY DEF FairlyKept
    <3>2. C \in SUBSET Nat
      <4> HIDE DEF fair
      <4> QED BY <3>1, CountsOf
    <3>3. c[s[m]] \in C /\ \A y \in C : c[s[m]] <= y
      <4>1. \A b \in fair : c[b] >= c[s[m]] /\ c[b] \in Nat
        BY <2>0, <2>3
      <4> HIDE DEF fair, s, m
      <4> QED BY <2>3, <4>1
    <3> HIDE DEF C
    <3> DEFINE x == c[s[m]]
    <3>4. x \in C /\ \A y \in C : x <= y
      BY <3>3
    <3> HIDE DEF x
    <3>5. Min(C) = x
      BY <3>2, <3>4, LeastIs
    <3> QED BY <3>5 DEF C, x
  <2>6. rest = left \cup rare
    <3> HIDE DEF s, m
    <3> QED BY <2>3
  <2>7. Highest(c, rest) = IF left = {} THEN Highest(c, rare) ELSE Highest(c, left)
    <3>1. CASE left = {}
      BY <2>6, <3>1
    <3>2. CASE left # {}
      <4> DEFINE L == {c[b] : b \in left}
                 R == {c[b] : b \in rest}
      <4>1. left \in SUBSET DOMAIN c /\ rest \in SUBSET DOMAIN c
        OBVIOUS
      <4>2. L \in SUBSET Nat /\ IsFiniteSet(L) /\ R \in SUBSET Nat /\ IsFiniteSet(R)
        <5> HIDE DEF left, rest
        <5> QED BY <4>1, CountsOf
      <4>3. \A b \in left : c[b] >= low /\ c[b] \in Nat
        BY <2>0
      <4>4. \A b \in rare : c[b] < low /\ c[b] \in Nat
        <5>1. \A b \in DOMAIN c : c[b] \in Nat
          BY DEF Counts
        <5> QED BY <5>1
      <4> HIDE DEF left, rest, rare
      <4>5. L # {} /\ L \subseteq R
        BY <2>6, <3>2
      <4>6. \A y \in R : y \in L \/ (y < low /\ y \in Nat)
        BY <2>6, <4>4
      <4>7. \A y \in L : y >= low
        BY <4>3
      <4> DEFINE x == Max(L)
      <4> HIDE DEF L, R
      <4>8. x \in L /\ \A y \in L : y <= x
        BY <4>2, <4>5, GreatestIs
      <4> HIDE DEF x
      <4>9. x \in R /\ \A y \in R : y <= x
        <5>1. x \in Nat /\ x >= low
          BY <4>2, <4>7, <4>8
        <5> QED BY <4>5, <4>6, <4>8, <5>1
      <4>10. Max(R) = x
        BY <4>2, <4>9, GreatestIs
      <4>11. Highest(c, left) = x
        BY <3>2 DEF Highest, x, L
      <4>12. Highest(c, rest) = Max(R)
        <5>1. rest # {}
          BY <3>2, <2>6
        <5> QED BY <5>1 DEF Highest, R
      <4> QED BY <3>2, <4>10, <4>11, <4>12
    <3> QED BY <3>1, <3>2
  <2>8. Fair(c, k, low) = [bigrams |-> fair, cutoff |-> c[s[m]], excluded |-> Highest(c, rest)]
    <3>1. fair # {}
      BY <2>3
    <3> HIDE DEF fair
    <3> QED BY <2>5, <3>1 DEF Fair, fair
  <2> HIDE DEF fair, kept, left, rest, rare, s, m
  <2> QED BY <2>3, <2>4, <2>7, <2>8
<1> QED BY <1>1, <1>2, <1>3

\* What was counted, and what is made of it.
LEMMA PartsGive == CutInv /\ PartsInv => SelectionIsFair
<1> SUFFICES ASSUME CutInv, PartsInv, phase = "done", job.op = "bigrams"
             PROVE  \E p \in parts : result = Fair(p.value, job.topK, job.minFreq)
  BY DEF SelectionIsFair, Fair, FairlyKept, More, Highest
<1>1. PICK p \in parts : p.first = 1 /\ p.last = Len(chunks) /\ result = Outcome(job, p.value)
  BY DEF PartsInv
<1> DEFINE ls == Lists(job, chunks)
           s == SubSeq(ls, p.first, p.last)
           V == Item(Chars, job.op)
           W == Seq(V)
<1>2. job \in Jobs
  BY DEF CutInv, BoundariesInv
<1>3. job.topK \in Nat /\ job.minFreq \in Int
  BY <1>2, JobIs
<1>4. ls \in Seq(W) /\ Len(ls) = Len(chunks) /\ Len(chunks) \in Nat
  BY ListsAre
<1>5. s \in Seq(W)
  <2>1. p.first \in 1..Len(chunks) /\ p.last \in p.first..Len(chunks)
    BY DEF PartsInv
  <2> HIDE DEF ls, W
  <2> QED BY <1>4, <2>1
<1>6. p.value = ToBag(FlattenSeq(s))
  BY DEF PartsInv, Gathered
<1> HIDE DEF s
<1>7. FlattenSeq(s) \in Seq(V)
  BY <1>5, Flattened
<1>8. Counts(p.value)
  <2> HIDE DEF V
  <2> QED BY <1>6, <1>7, BagIs
<1>9. result = Selection(p.value, job.topK, job.minFreq)
  BY <1>1 DEF Outcome
<1>10. Selection(p.value, job.topK, job.minFreq) = Fair(p.value, job.topK, job.minFreq)
  BY <1>3, <1>8, SelectionIs
<1> QED BY <1>9, <1>10

\* Whatever ties, none of the bigrams of a frequency is preferred: the selected
\* ones, the cutoff and the greatest frequency left out are those the counts
\* alone decide about (SelectionIsFair).
THEOREM TiesAreKept == Spec => []SelectionIsFair
<1>1. CutInv /\ PartsInv => SelectionIsFair
  BY PartsGive
<1> QED BY <1>1, CutInvInit, CutInvNext, PartsInvInit, PartsInvNext, PTL DEF Spec

-----------------------------------------------------------------------------
(* Texts that are split where a token is. *)

\* Where t occurs in s before position m.
Near(t, s, m) == {p \in Occurrences(t, s) : p < m}

\* How often t occurs.
Met(t, s) == Cardinality(Occurrences(t, s))

\* How often it was split off.
Marks(t, sp, s) == UnitCount(SplitSpecial(s, sp), SpecialPiece(t))

\* What occurs in s occurs before m or in the rest.
LEMMA MetParts ==
  ASSUME NEW B, NEW t \in Seq(B), NEW s \in Seq(B), NEW m \in 0..Len(s)
  PROVE  /\ t \in Seq(B) /\ s \in Seq(B)
         /\ Met(t, s) \in Nat /\ Met(t, Rest(s, m + 1)) \in Nat
         /\ IsFiniteSet(Near(t, s, m)) /\ Cardinality(Near(t, s, m)) \in Nat
         /\ Met(t, s) = Cardinality(Near(t, s, m)) + Met(t, Rest(s, m + 1))
<1> DEFINE S == Occurrences(t, s)
           r == Rest(s, m + 1)
           R == Occurrences(t, r)
           N == Near(t, s, m)
           F == {i + m : i \in R}
<1>0. m \in Nat /\ m + 1 \in 1..Len(s) + 1 /\ Len(s) \in Nat
  OBVIOUS
<1>1. r \in Seq(B)
  BY <1>0, RestIs
<1>2. S \in SUBSET Nat /\ IsFiniteSet(S)
  <2>1. \A p \in S : p \in Nat /\ p <= Len(s)
    <3>1. \A p \in S : p \in Nat /\ p + Len(t) <= Len(s)
      BY OccursAt
    <3>2. Len(t) \in Nat
      OBVIOUS
    <3> HIDE DEF S
    <3> QED BY <1>0, <3>1, <3>2
  <2> HIDE DEF S
  <2> QED BY <1>0, <2>1, FS_BoundedSetOfNaturals
<1> HIDE DEF r
<1>3. R \in SUBSET Nat /\ IsFiniteSet(R)
  <2>1. \A p \in R : p \in Nat /\ p + Len(t) <= Len(r)
    BY <1>1, OccursAt
  <2>2. Len(t) \in Nat /\ Len(r) \in Nat
    BY <1>1
  <2>3. \A p \in R : p \in Nat /\ p <= Len(r)
    <3> HIDE DEF R
    <3> QED BY <2>1, <2>2
  <2> HIDE DEF R
  <2> QED BY <2>2, <2>3, FS_BoundedSetOfNaturals
<1>4. \A p \in Nat : p \in R <=> p + m \in S
  <2>1. \A p \in Nat : p \in R <=> p + (m + 1) - 1 \in S
    BY <1>0, OccursRest DEF r
  <2>2. \A p \in Nat : p + (m + 1) - 1 = p + m
    BY <1>0
  <2> HIDE DEF R, S
  <2> QED BY <2>1, <2>2
<1>5. N \in SUBSET S /\ \A p \in S : p \in N <=> p < m
  BY DEF Near
<1> HIDE DEF R, S, N
<1>6. S = N \cup F
  <2>1. ASSUME NEW p \in S PROVE p \in N \cup F
    <3>1. CASE p < m
      BY <1>5, <3>1
    <3>2. CASE ~(p < m)
      <4>1. p - m \in Nat /\ (p - m) + m = p
        BY <1>0, <1>2, <3>2
      <4>2. p - m \in R
        BY <1>4, <4>1
      <4> QED BY <4>1, <4>2
    <3> QED BY <3>1, <3>2
  <2>2. \A i \in R : i + m \in S
    BY <1>3, <1>4
  <2> QED BY <1>5, <2>1, <2>2
<1>7. N \cap F = {}
  <2>1. \A i \in R : ~(i + m < m)
    BY <1>0, <1>3
  <2>2. \A p \in N : p < m
    BY <1>5
  <2> QED BY <2>1, <2>2
<1>8. IsFiniteSet(F) /\ Cardinality(F) = Cardinality(R)
  <2>1. R \in SUBSET Int /\ IsFiniteSet(R) /\ m \in Int
    BY <1>0, <1>3
  <2> QED BY ONLY <2>1, CardinalityShift DEF F
<1>9. IsFiniteSet(N)
  BY <1>2, <1>5, FS_Subset
<1> HIDE DEF F
<1>10. Cardinality(S) = Cardinality(N) + Cardinality(F)
  BY <1>6, <1>7, <1>8, <1>9, CardinalityDisjoint
<1>11. Cardinality(S) \in Nat /\ Cardinality(N) \in Nat /\ Cardinality(R) \in Nat
  BY <1>2, <1>3, <1>9, FS_CardinalityType
<1> QED BY <1>8, <1>9, <1>10, <1>11 DEF Met, S, R, N, r

\* Nothing occurs in nothing.
LEMMA MetNone ==
  ASSUME NEW B, NEW t \in Seq(B), t # << >>
  PROVE  Met(t, << >>) = 0
<1>1. << >> \in Seq(B) /\ Len(<< >>) = 0 /\ Len(t) \in Nat /\ Len(t) # 0
  OBVIOUS
<1>2. \A p : p \notin Occurrences(t, << >>)
  <2> DEFINE e == << >>
             S == Occurrences(t, e)
  <2>1. e \in Seq(B) /\ Len(e) = 0
    BY <1>1
  <2> HIDE DEF e
  <2>2. \A p \in S : p \in Nat /\ p + Len(t) <= Len(e)
    BY <2>1, OccursAt
  <2> HIDE DEF S
  <2>3. \A p : p \notin S
    BY <1>1, <2>1, <2>2
  <2> QED BY <2>3 DEF S, e
<1>3. Occurrences(t, << >>) = {}
  BY <1>2
<1> QED BY <1>3, FS_EmptySet DEF Met

\* What the first piece of s is to the token t.
Hit(t, sp, s) == IF FirstPiece(sp, s) = SpecialPiece(t) THEN 1 ELSE 0

\* How the marks and the occurrences go on behind the first piece.
LEMMA MarkStep ==
  ASSUME NEW B, NEW sp, Tokens(B, sp), NEW t \in Seq(B), t # << >>, NEW s \in Seq(B), s # << >>
  PROVE  LET m == FirstStep(sp, s)
             r == Rest(s, 1 + m)
             n == Cardinality(Near(t, s, m))
         IN /\ m \in 1..Len(s) /\ r \in Seq(B) /\ n \in Nat /\ IsFiniteSet(Near(t, s, m))
            /\ Met(t, s) \in Nat /\ Met(t, r) \in Nat /\ Met(t, s) = n + Met(t, r)
            /\ Marks(t, sp, s) \in Nat /\ Marks(t, sp, r) \in Nat
            /\ Marks(t, sp, s) = Hit(t, sp, s) + Marks(t, sp, r)
            /\ Hit(t, sp, s) = 1 => 0 \in Near(t, s, m)
            /\ Hit(t, sp, s) \in {0, 1} /\ Hit(t, sp, s) <= n
<1> DEFINE m == FirstStep(sp, s)
           r == Rest(s, 1 + m)
           N == Near(t, s, m)
           n == Cardinality(N)
           x == SpecialPiece(t)
           P == FirstPiece(sp, s)
           C == Piece(B)
<1>1. /\ m \in 1..Len(s) /\ r \in Seq(B) /\ P \in C
      /\ SplitSpecial(s, sp) = Onto(P, SplitSpecial(r, sp))
      /\ SplitSpecial(r, sp) \in Seq(C) /\ SplitSpecial(s, sp) \in Seq(C)
  BY SplitSteps
<1>2. m \in 0..Len(s) /\ 1 + m = m + 1 /\ m \in Nat /\ m >= 1
  BY <1>1
<1>3. /\ Met(t, s) \in Nat /\ Met(t, Rest(s, m + 1)) \in Nat
      /\ IsFiniteSet(N) /\ n \in Nat
      /\ Met(t, s) = n + Met(t, Rest(s, m + 1))
  <2> HIDE DEF m
  <2> QED BY <1>2, MetParts
<1>4. Met(t, r) \in Nat /\ Met(t, s) = n + Met(t, r)
  BY <1>2, <1>3
<1> DEFINE q == SplitSpecial(r, sp)
<1>5. UnitCount(Onto(P, q), x) = (IF P = x THEN 1 ELSE 0) + UnitCount(q, x)
  <2>1. <<P>> \in Seq(C) /\ q \in Seq(C)
    BY <1>1
  <2> HIDE DEF P, q, x, C
  <2>2. UnitCount(<<P>> \o q, x) = UnitCount(<<P>>, x) + UnitCount(q, x)
    BY <2>1, UnitCountConcat
  <2>3. UnitCount(<<P>>, x) = IF P = x THEN 1 ELSE 0
    BY ShortCounts
  <2> QED BY <2>2, <2>3 DEF Onto
<1>6. Marks(t, sp, s) = Hit(t, sp, s) + Marks(t, sp, r)
  BY <1>1, <1>5 DEF Marks, Hit
<1>7. Marks(t, sp, s) \in Nat /\ Marks(t, sp, r) \in Nat
  BY <1>1, CountType DEF Marks
<1>8. ASSUME Hit(t, sp, s) = 1 PROVE 0 \in N
  <2>1. P = x
    BY <1>8 DEF Hit
  <2>2. NextStart(sp, s) = 1 /\ TokenAt(sp, s) = t
    BY <2>1 DEF FirstPiece, SpecialPiece, OrdinaryPiece
  <2>3. NextStart(sp, s) <= Len(s)
    BY <1>2, <1>1, <2>2
  <2>4. MatchesAt(s, sp, 1) # {}
    BY <2>2, <2>3, NextStartIs
  <2>5. 0 \in Occurrences(t, s)
    BY <2>2, <2>4, TokenAtIs
  <2> QED BY <1>2, <2>5 DEF Near
<1>9. Hit(t, sp, s) \in {0, 1}
  BY DEF Hit
<1> HIDE DEF m, r, N
<1>10. Hit(t, sp, s) <= n
  <2>1. N # {} => n # 0
    BY <1>3, FS_EmptySet
  <2> QED BY <1>3, <1>8, <1>9, <2>1
<1> QED BY <1>1, <1>3, <1>4, <1>6, <1>7, <1>8, <1>9, <1>10 DEF m, r, N

\* No token is split off where it does not occur.
LEMMA MarksAtMost ==
  ASSUME NEW B, NEW sp, Tokens(B, sp), NEW t \in Seq(B), t # << >>
  PROVE  \A s \in Seq(B) : Marks(t, sp, s) \in Nat /\ Met(t, s) \in Nat /\ Marks(t, sp, s) <= Met(t, s)
<1> DEFINE Q == {s \in Seq(B) : Marks(t, sp, s) \in Nat /\ Met(t, s) \in Nat /\ Marks(t, sp, s) <= Met(t, s)}
<1>1. ASSUME NEW s \in Seq(B), \A u \in Seq(B) : Len(u) < Len(s) => u \in Q
      PROVE  s \in Q
  <2>1. CASE s = << >>
    <3>1. Marks(t, sp, << >>) = 0
      BY SplitSteps, ShortCounts DEF Marks
    <3>2. Met(t, << >>) = 0
      BY MetNone
    <3> QED BY <2>1, <3>1, <3>2
  <2>2. CASE s # << >>
    <3> DEFINE m == FirstStep(sp, s)
               r == Rest(s, 1 + m)
               n == Cardinality(Near(t, s, m))
    <3>1. /\ m \in 1..Len(s) /\ r \in Seq(B) /\ n \in Nat
          /\ Met(t, s) \in Nat /\ Met(t, r) \in Nat /\ Met(t, s) = n + Met(t, r)
          /\ Marks(t, sp, s) \in Nat /\ Marks(t, sp, r) \in Nat
          /\ Marks(t, sp, s) = Hit(t, sp, s) + Marks(t, sp, r)
          /\ Hit(t, sp, s) \in {0, 1} /\ Hit(t, sp, s) <= n
      BY <2>2, MarkStep
    <3> HIDE DEF m, n
    <3>2. 1 + m \in 1..Len(s) + 1 /\ Len(s) + 1 - (1 + m) < Len(s)
      BY <3>1
    <3>3. Len(r) = Len(s) + 1 - (1 + m)
      BY <3>2, RestIs
    <3> HIDE DEF r
    <3>4. r \in Q
      BY <1>1, <3>1, <3>2, <3>3
    <3>5. Marks(t, sp, r) <= Met(t, r)
      BY <3>4
    <3>6. Marks(t, sp, s) <= Met(t, s)
      BY ONLY <3>1, <3>5
    <3> QED BY <3>1, <3>6
  <2> QED BY <2>1, <2>2
<1>2. \A s \in Seq(B) : s \in Q
  <2> HIDE DEF Q
  <2> QED BY <1>1, SeqInd
<1> QED BY <1>2

\* Every occurrence of t in s is split off.
AllMarked(t, sp, s) == Marks(t, sp, s) = Met(t, s)

\* Then each is at the beginning of a piece.
LEMMA MarkedStep ==
  ASSUME NEW B, NEW sp, Tokens(B, sp), NEW t \in Seq(B), t # << >>,
         NEW s \in Seq(B), s # << >>, AllMarked(t, sp, s)
  PROVE  /\ s \in Seq(B) /\ FirstStep(sp, s) \in 1..Len(s) /\ Rest(s, 1 + FirstStep(sp, s)) \in Seq(B)
         /\ AllMarked(t, sp, Rest(s, 1 + FirstStep(sp, s)))
         /\ \A p \in Occurrences(t, s) : p < FirstStep(sp, s) => p = 0
<1> DEFINE m == FirstStep(sp, s)
           r == Rest(s, 1 + m)
           N == Near(t, s, m)
           n == Cardinality(N)
<1>1. /\ m \in 1..Len(s) /\ r \in Seq(B) /\ n \in Nat /\ IsFiniteSet(N)
      /\ Met(t, s) \in Nat /\ Met(t, r) \in Nat /\ Met(t, s) = n + Met(t, r)
      /\ Marks(t, sp, s) \in Nat /\ Marks(t, sp, r) \in Nat
      /\ Marks(t, sp, s) = Hit(t, sp, s) + Marks(t, sp, r)
      /\ Hit(t, sp, s) = 1 => 0 \in N
      /\ Hit(t, sp, s) \in {0, 1} /\ Hit(t, sp, s) <= n
  BY MarkStep
<1> HIDE DEF m, r, N
<1>2. Marks(t, sp, r) <= Met(t, r)
  BY <1>1, MarksAtMost
<1>3. Marks(t, sp, r) = Met(t, r) /\ n = Hit(t, sp, s)
  <2>1. Marks(t, sp, s) = Met(t, s)
    BY DEF AllMarked
  <2> DEFINE a == Met(t, s)
             b == Met(t, r)
             c == Marks(t, sp, s)
             d == Marks(t, sp, r)
             h == Hit(t, sp, s)
  <2>2. /\ a \in Nat /\ b \in Nat /\ c \in Nat /\ d \in Nat /\ n \in Nat /\ h \in Nat
        /\ a = n + b /\ c = h + d /\ h <= n /\ d <= b /\ c = a
    BY <1>1, <1>2, <2>1
  <2> HIDE DEF n, a, b, c, d, h
  <2>3. d = b /\ n = h
    BY ONLY <2>2
  <2> QED BY <2>3 DEF b, d, h
<1>4. \A p \in N : p = 0
  <2>1. CASE Hit(t, sp, s) = 0
    <3>1. N = {}
      BY <1>1, <1>3, <2>1, FS_EmptySet
    <3> QED BY <3>1
  <2>2. CASE Hit(t, sp, s) = 1
    <3>1. n = 1
      BY <1>3, <2>2
    <3>2. \E x : N = {x}
      BY <1>1, <3>1, FS_Singleton
    <3> QED BY <1>1, <2>2, <3>2
  <2> QED BY <1>1, <2>1, <2>2
<1>5. \A p \in Occurrences(t, s) : p < m => p = 0
  BY <1>4 DEF N, Near
<1>6. AllMarked(t, sp, r)
  BY <1>3 DEF AllMarked
<1> QED BY <1>1, <1>5, <1>6 DEF m, r

\* What is in front of a token that is at the beginning of b.
Ahead(B, sp, t, a, b) ==
  /\ Tokens(B, sp) /\ t \in Seq(B) /\ t # << >> /\ a \in Seq(B) /\ a # << >> /\ b \in Seq(B)
  /\ 0 \in Occurrences(t, b) /\ AllMarked(t, sp, Cat(a, b))

\* The first piece ends in front of the token.
LEMMA FirstFits ==
  ASSUME NEW B, NEW sp, NEW t, NEW a, NEW b, Ahead(B, sp, t, a, b)
  PROVE  /\ Cat(a, b) \in Seq(B) /\ Cat(a, b) # << >>
         /\ FirstStep(sp, Cat(a, b)) \in 1..Len(a)
<1> DEFINE c == Cat(a, b)
           n == Len(a)
           m == FirstStep(sp, c)
<1>1. /\ Tokens(B, sp) /\ t \in Seq(B) /\ t # << >> /\ a \in Seq(B) /\ a # << >> /\ b \in Seq(B)
      /\ 0 \in Occurrences(t, b) /\ AllMarked(t, sp, c)
  BY DEF Ahead
<1>2. c \in Seq(B) /\ c # << >>
  BY <1>1, ConsAlgebra
<1>3. n \in Nat /\ n >= 1
  BY <1>1
<1>4. Len(c) = Len(a) + Len(b) /\ Len(b) \in Nat /\ Rest(c, n + 1) = b
  BY <1>1, CatParts
<1> HIDE DEF c
<1>5. n \in Occurrences(t, c)
  <2>1. n + 1 \in 1..Len(c) + 1 /\ 0 \in Nat /\ 0 + (n + 1) - 1 = n
    BY <1>3, <1>4
  <2> HIDE DEF n
  <2>2. 0 \in Occurrences(t, Rest(c, n + 1)) <=> 0 + (n + 1) - 1 \in Occurrences(t, c)
    BY <1>1, <1>2, <2>1, OccursRest
  <2> QED BY <1>1, <1>4, <2>1, <2>2
<1>6. m \in 1..Len(c) /\ \A p \in Occurrences(t, c) : p < m => p = 0
  BY <1>1, <1>2, MarkedStep
<1> HIDE DEF m, n
<1>7. ~(n < m)
  BY <1>3, <1>5, <1>6
<1>8. m \in 1..n
  BY <1>3, <1>6, <1>7
<1> QED BY <1>2, <1>8 DEF c, m, n

\* What matches in a, followed by something, and ends there, matches in a.
LEMMA MatchesFront ==
  ASSUME NEW B, NEW sp, Tokens(B, sp), NEW a \in Seq(B), NEW b \in Seq(B), NEW j \in 1..Len(a)
  PROVE  /\ Cat(a, b) \in Seq(B)
         /\ MatchesAt(a, sp, j) \subseteq MatchesAt(Cat(a, b), sp, j)
         /\ \A k \in MatchesAt(Cat(a, b), sp, j) :
              j - 1 + Len(sp[k]) <= Len(a) => k \in MatchesAt(a, sp, j)
<1> DEFINE c == Cat(a, b)
           n == Len(a)
           p == j - 1
<1>0. p \in Nat /\ n \in Nat /\ p < n
  OBVIOUS
<1>1. /\ c \in Seq(B) /\ Len(c) = n + Len(b) /\ Len(b) \in Nat
      /\ \A i \in 1..n : c[i] = a[i]
  BY CatParts, Zenon
<1> HIDE DEF c, p
<1>c. c \in Seq(B)
  BY <1>1
<1>2. ASSUME NEW k \in DOMAIN sp
      PROVE  p \in Occurrences(sp[k], a) <=> p \in Occurrences(sp[k], c) /\ p + Len(sp[k]) <= n
  <2> DEFINE u == sp[k]
             m == Len(u)
  <2>1. u \in Seq(B) /\ m \in Nat
    BY DEF Tokens
  <2> HIDE DEF u
  <2>2. p \in Occurrences(u, a) <=> p \in Nat /\ p + m <= n /\ \A i \in 1..m : a[p + i] = u[i]
    BY <2>1, OccursAt
  <2>3. p \in Occurrences(u, c) <=> p \in Nat /\ p + m <= Len(c) /\ \A i \in 1..m : c[p + i] = u[i]
    BY ONLY <1>c, <2>1, OccursAt
  <2> HIDE DEF m, n
  <2>4. p + m <= n => p + m <= Len(c) /\ \A i \in 1..m : p + i \in 1..n
    BY <1>0, <1>1, <2>1
  <2>5. p + m <= n => \A i \in 1..m : c[p + i] = a[p + i]
    BY <1>1, <2>4
  <2> QED BY <1>0, <2>2, <2>3, <2>4, <2>5 DEF u, m
<1>3. MatchesAt(a, sp, j) = {k \in DOMAIN sp : p \in Occurrences(sp[k], a)}
  BY DEF MatchesAt, p
<1>4. MatchesAt(c, sp, j) = {k \in DOMAIN sp : p \in Occurrences(sp[k], c)}
  BY DEF MatchesAt, p
<1>5. MatchesAt(a, sp, j) \subseteq MatchesAt(c, sp, j)
  BY <1>2, <1>3, <1>4
<1>6. \A k \in MatchesAt(c, sp, j) : p + Len(sp[k]) <= n => k \in MatchesAt(a, sp, j)
  BY <1>2, <1>3, <1>4
<1> QED BY <1>1, <1>5, <1>6 DEF c, p

\* A token that fits is the one that is split off.
LEMMA TokenFits ==
  ASSUME NEW B, NEW sp, Tokens(B, sp), NEW a \in Seq(B), a # << >>, NEW b \in Seq(B),
         NextStart(sp, Cat(a, b)) = 1, Len(TokenAt(sp, Cat(a, b))) <= Len(a)
  PROVE  /\ Cat(a, b) \in Seq(B) /\ MatchesAt(a, sp, 1) # {}
         /\ NextStart(sp, a) = 1 /\ TokenAt(sp, a) = TokenAt(sp, Cat(a, b))
<1> DEFINE c == Cat(a, b)
           A == MatchesAt(a, sp, 1)
           C == MatchesAt(c, sp, 1)
           x == Min(A)
           y == Min(C)
<1>0. Len(a) \in Nat /\ Len(a) >= 1 /\ 1 \in 1..Len(a)
  OBVIOUS
<1>1. c \in Seq(B) /\ Len(c) = Len(a) + Len(b) /\ Len(b) \in Nat
  BY CatParts
<1>2. /\ A \subseteq C
      /\ \A k \in C : 1 - 1 + Len(sp[k]) <= Len(a) => k \in A
  BY <1>0, MatchesFront
<1> HIDE DEF c
<1>3. C # {}
  <2>1. NextStart(sp, c) = 1 /\ 1 <= Len(c)
    BY <1>0, <1>1 DEF c
  <2> QED BY <1>1, <2>1, NextStartIs
<1>4. /\ TokenAt(sp, c) \in Seq(B)
      /\ y \in C /\ \A k \in C : y <= k
  BY <1>1, <1>3, TokenAtIs
<1>5. y \in A
  <2>1. sp[y] = TokenAt(sp, c)
    BY DEF TokenAt
  <2> HIDE DEF y
  <2>2. 1 - 1 + Len(sp[y]) = Len(sp[y])
    BY <1>4, <2>1
  <2>3. Len(sp[y]) <= Len(a)
    BY <2>1 DEF c
  <2> QED BY <1>2, <1>4, <2>2, <2>3
<1>6. A # {} /\ A \subseteq Nat
  BY <1>5 DEF MatchesAt, Tokens
<1>7. x \in A /\ \A k \in A : x <= k
  BY <1>6, TokenAtIs
<1> HIDE DEF A, C, x, y
<1>8. x = y
  <2>1. x \in Nat /\ y \in Nat /\ x <= y /\ y <= x
    BY <1>2, <1>4, <1>5, <1>6, <1>7
  <2> QED BY ONLY <2>1
<1>9. NextStart(sp, a) = 1
  <2>1. MatchesAt(a, sp, 1) # {} /\ 1 \in 1..Len(a) + 1 /\ \A j \in 1..Len(a) : ~(j < 1)
    BY <1>0, <1>6 DEF A
  <2> QED BY <2>1, NextStartIs
<1>10. TokenAt(sp, a) = TokenAt(sp, c)
  BY <1>8 DEF TokenAt, x, y, A, C
<1> QED BY <1>1, <1>6, <1>9, <1>10 DEF A, c

\* The first piece is that of what is in front of the token.
LEMMA FirstSame ==
  ASSUME NEW B, NEW sp, NEW t, NEW a, NEW b, Ahead(B, sp, t, a, b)
  PROVE  /\ Cat(a, b) \in Seq(B) /\ a \in Seq(B)
         /\ FirstStep(sp, a) = FirstStep(sp, Cat(a, b)) /\ FirstPiece(sp, a) = FirstPiece(sp, Cat(a, b))
<1> DEFINE c == Cat(a, b)
           n == Len(a)
           m == FirstStep(sp, c)
           x == NextStart(sp, c)
<1>1. /\ Tokens(B, sp) /\ t \in Seq(B) /\ t # << >> /\ a \in Seq(B) /\ a # << >> /\ b \in Seq(B)
      /\ 0 \in Occurrences(t, b) /\ AllMarked(t, sp, c)
  BY DEF Ahead
<1>2. c \in Seq(B) /\ c # << >> /\ m \in 1..n
  BY FirstFits
<1>3. n \in Nat /\ n >= 1
  BY <1>1
<1>4. Len(c) = n + Len(b) /\ Len(b) \in Nat
  BY <1>1, CatParts
<1>5. \A k \in 0..n : SubSeq(c, 1, k) = SubSeq(a, 1, k)
  BY <1>1, CatParts
<1> HIDE DEF c
<1>6. CASE x = 1
  <2>1. m = Len(TokenAt(sp, c))
    BY <1>6 DEF FirstStep
  <2>2. Len(TokenAt(sp, c)) <= n
    BY <1>2, <1>3, <2>1
  <2>3. NextStart(sp, a) = 1 /\ TokenAt(sp, a) = TokenAt(sp, c)
    BY <1>1, <1>6, <2>2, TokenFits DEF c
  <2> QED BY <1>1, <1>2, <1>6, <2>3 DEF FirstStep, FirstPiece, c
<1>7. CASE x # 1
  <2>1. m = x - 1
    BY <1>7 DEF FirstStep
  <2>2. /\ x \in 1..Len(c) + 1
        /\ \A j \in 1..Len(c) : j < x => MatchesAt(c, sp, j) = {}
        /\ x <= Len(c) => MatchesAt(c, sp, x) # {}
    BY <1>2, NextStartIs
  <2> HIDE DEF x, m
  <2>3. x \in 1..n + 1 /\ m \in 0..n
    BY <1>2, <1>3, <2>1, <2>2
  <2>4. \A j \in 1..n : j < x => MatchesAt(a, sp, j) = {}
    <3> SUFFICES ASSUME NEW j \in 1..n, j < x PROVE MatchesAt(a, sp, j) = {}
      OBVIOUS
    <3>1. j \in 1..Len(c)
      BY <1>3, <1>4
    <3>2. MatchesAt(c, sp, j) = {}
      BY <2>2, <3>1
    <3>3. MatchesAt(a, sp, j) \subseteq MatchesAt(c, sp, j)
      <4> HIDE DEF n
      <4> QED BY <1>1, MatchesFront DEF c, n
    <3> QED BY <3>2, <3>3
  <2>5. ASSUME x <= n PROVE MatchesAt(a, sp, x) # {}
    <3> DEFINE u == Rest(a, x)
               v == Rest(c, x)
    <3>1. x \in 1..Len(c) /\ x \in 1..Len(c) + 1 /\ x \in 1..n /\ 1 + m = x /\ x <= Len(c)
          /\ x + 1 - 1 = x /\ 1 \in 1..Len(c) + 2 - x /\ 1 \in 1..n + 2 - x
      BY <1>3, <1>4, <2>1, <2>3, <2>5
    <3>2. AllMarked(t, sp, v) /\ v \in Seq(B)
      <4>1. AllMarked(t, sp, Rest(c, 1 + m)) /\ Rest(c, 1 + m) \in Seq(B)
        BY <1>1, <1>2, MarkedStep DEF m
      <4> QED BY <3>1, <4>1
    <3>3. u \in Seq(B) /\ u # << >>
      <4>1. x # Len(a) + 1
        BY <3>1, <1>3
      <4>2. x \in 1..Len(a) + 1 /\ a \in Seq(B)
        BY <2>3, <1>1
      <4> QED BY ONLY <4>1, <4>2, RestIs DEF u
    <3>4. v = Cat(u, b)
      <4>1. c = Cat(SubSeq(a, 1, m), v) /\ v \in Seq(B)
        <5>1. m \in 0..Len(c) /\ m + 1 = x
          BY <1>3, <1>4, <2>3, <3>1
        <5>2. c = Cat(SubSeq(c, 1, m), Rest(c, m + 1)) /\ Rest(c, m + 1) \in Seq(B)
          BY <1>2, <5>1, FirstIs
        <5> QED BY <1>5, <2>3, <5>1, <5>2
      <4>2. a = Cat(SubSeq(a, 1, m), u) /\ SubSeq(a, 1, m) \in Seq(B) /\ Len(SubSeq(a, 1, m)) = m
        <5>1. m \in 0..Len(a) /\ m + 1 = x
          BY <2>3, <3>1
        <5>2. a = Cat(SubSeq(a, 1, m), Rest(a, m + 1)) /\ SubSeq(a, 1, m) \in Seq(B) /\ Len(SubSeq(a, 1, m)) = m
          BY <1>1, <5>1, FirstIs
        <5> QED BY <5>1, <5>2
      <4> DEFINE w == SubSeq(a, 1, m)
      <4> HIDE DEF w, u, v
      <4>3. c = Cat(w, Cat(u, b))
        <5>1. w \in Seq(B) /\ u \in Seq(B) /\ b \in Seq(B) /\ a = Cat(w, u)
          BY <1>1, <3>3, <4>2 DEF w
        <5>2. Cat(Cat(w, u), b) = Cat(w, Cat(u, b))
          BY ONLY <5>1, ConsAlgebra
        <5> QED BY <5>1, <5>2 DEF c
      <4>4. w \in Seq(B) /\ u \in Seq(B) /\ b \in Seq(B) /\ Cat(u, b) \in Seq(B)
        BY <1>1, <3>3, <4>2, ConsAlgebra DEF w
      <4>5. Rest(c, Len(w) + 1) = v
        <5>1. c = Cat(w, v) /\ v \in Seq(B)
          BY <4>1 DEF w
        <5> QED BY <4>4, <5>1, CatParts
      <4>6. Rest(c, Len(w) + 1) = Cat(u, b)
        BY <4>3, <4>4, CatParts
      <4> QED BY <4>5, <4>6
    <3>5. MatchesAt(v, sp, 1) = MatchesAt(c, sp, x)
      <4>1. MatchesAt(Rest(c, x), sp, 1) = MatchesAt(c, sp, x + 1 - 1)
        <5> HIDE DEF v
        <5> QED BY <1>1, <1>2, <3>1, MatchesShift
      <4> QED BY <3>1, <4>1
    <3>6. MatchesAt(u, sp, 1) = MatchesAt(a, sp, x)
      <4>1. MatchesAt(Rest(a, x), sp, 1) = MatchesAt(a, sp, x + 1 - 1)
        <5> HIDE DEF u
        <5> QED BY <1>1, <2>3, <3>1, MatchesShift
      <4> QED BY <3>1, <4>1
    <3> HIDE DEF u, v
    <3>7. Ahead(B, sp, t, u, b)
      BY <1>1, <3>2, <3>3, <3>4 DEF Ahead
    <3>8. FirstStep(sp, v) \in 1..Len(u) /\ v # << >>
      BY <3>4, <3>7, FirstFits
    <3>9. NextStart(sp, v) = 1
      <4>1. MatchesAt(v, sp, 1) # {}
        BY <2>2, <3>1, <3>5
      <4>2. 1 \in 1..Len(v) + 1 /\ \A j \in 1..Len(v) : ~(j < 1)
        BY <3>2
      <4> QED BY <3>2, <4>1, <4>2, NextStartIs
    <3>10. Len(TokenAt(sp, v)) <= Len(u)
      BY <3>8, <3>9 DEF FirstStep
    <3>11. MatchesAt(u, sp, 1) # {}
      BY <1>1, <3>3, <3>4, <3>9, <3>10, TokenFits
    <3> QED BY <3>6, <3>11
  <2>6. NextStart(sp, a) = x
    BY <1>1, <2>3, <2>4, <2>5, NextStartIs
  <2>7. SubSeq(c, 1, m) = SubSeq(a, 1, m)
    BY <1>5, <2>3
  <2>8. FirstStep(sp, a) = FirstStep(sp, c)
    BY <1>7, <2>6 DEF FirstStep, x
  <2>9. FirstPiece(sp, a) = FirstPiece(sp, c)
    BY <1>7, <2>1, <2>6, <2>7 DEF FirstPiece, x
  <2> QED BY <1>1, <1>2, <2>8, <2>9 DEF c
<1> QED BY <1>6, <1>7

\* A text is split in front of a token as if it ended there.
SplitsBefore(B, sp, t, a, b) ==
  /\ SplitSpecial(Cat(a, b), sp) = Cat(SplitSpecial(a, sp), SplitSpecial(b, sp))
  /\ AllMarked(t, sp, b)

\* This is so wherever all tokens are split off.
LEMMA SplitAtToken ==
  ASSUME NEW B, NEW sp, Tokens(B, sp), NEW t \in Seq(B), t # << >>,
         NEW b \in Seq(B), 0 \in Occurrences(t, b)
  PROVE  b \in Seq(B) /\
         \A a \in Seq(B) : AllMarked(t, sp, Cat(a, b)) => SplitsBefore(B, sp, t, a, b)
<1> DEFINE Q == {a \in Seq(B) : AllMarked(t, sp, Cat(a, b)) => SplitsBefore(B, sp, t, a, b)}
           C == Piece(B)
<1>1. ASSUME NEW a \in Seq(B), \A u \in Seq(B) : Len(u) < Len(a) => u \in Q
      PROVE  a \in Q
  <2> SUFFICES ASSUME AllMarked(t, sp, Cat(a, b)) PROVE SplitsBefore(B, sp, t, a, b)
    OBVIOUS
  <2> HIDE DEF Q
  <2>1. CASE a = << >>
    <3> DEFINE e == << >>
    <3>1. Cat(e, b) = b /\ SplitSpecial(e, sp) = e
      BY ConsAlgebra, SplitSteps
    <3>2. SplitSpecial(b, sp) \in Seq(C)
      BY SplitSteps
    <3> HIDE DEF C
    <3>3. Cat(e, SplitSpecial(b, sp)) = SplitSpecial(b, sp)
      BY <3>2, ConsAlgebra
    <3>4. a = e
      BY <2>1
    <3> HIDE DEF e
    <3> QED BY <3>1, <3>3, <3>4 DEF SplitsBefore
  <2>2. CASE a # << >>
    <3> DEFINE c == Cat(a, b)
               m == FirstStep(sp, c)
               P == FirstPiece(sp, c)
               r == Rest(a, 1 + m)
               v == Rest(c, 1 + m)
    <3>1. Ahead(B, sp, t, a, b)
      BY <2>2 DEF Ahead
    <3>2. c \in Seq(B) /\ c # << >> /\ m \in 1..Len(a)
      BY <3>1, FirstFits
    <3>3. FirstStep(sp, a) = m /\ FirstPiece(sp, a) = P
      BY <3>1, FirstSame
    <3>4. /\ r \in Seq(B) /\ P \in C
          /\ SplitSpecial(a, sp) = Onto(P, SplitSpecial(r, sp)) /\ SplitSpecial(r, sp) \in Seq(C)
      <4>1. /\ Rest(a, 1 + FirstStep(sp, a)) \in Seq(B) /\ FirstPiece(sp, a) \in C
            /\ SplitSpecial(a, sp) = Onto(FirstPiece(sp, a), SplitSpecial(Rest(a, 1 + FirstStep(sp, a)), sp))
        BY <2>2, SplitSteps
      <4>2. \A s \in Seq(B) : SplitSpecial(s, sp) \in Seq(C)
        BY SplitSteps
      <4> HIDE DEF c
      <4> QED BY <3>3, <4>1, <4>2
    <3>5. /\ v \in Seq(B) /\ SplitSpecial(c, sp) = Onto(P, SplitSpecial(v, sp))
          /\ AllMarked(t, sp, v)
      <4> HIDE DEF c
      <4>1. AllMarked(t, sp, c)
        BY DEF c
      <4>2. v \in Seq(B) /\ SplitSpecial(c, sp) = Onto(P, SplitSpecial(v, sp))
        BY <3>2, SplitSteps
      <4>3. AllMarked(t, sp, v)
        BY <3>2, <4>1, MarkedStep
      <4> QED BY <4>2, <4>3
    <3> HIDE DEF c, m, P
    <3>6. Len(r) < Len(a) /\ m \in 0..Len(a) /\ 1 + m = m + 1
      <4>1. 1 + m \in 1..Len(a) + 1 /\ Len(a) \in Nat /\ Len(a) + 1 - (1 + m) < Len(a)
        BY <3>2
      <4>2. Len(r) = Len(a) + 1 - (1 + m)
        BY <4>1, RestIs
      <4> QED BY <3>2, <4>1, <4>2
    <3>7. v = Cat(r, b)
      <4> DEFINE w == SubSeq(a, 1, m)
      <4>1. w \in Seq(B) /\ Len(w) = m /\ a = Cat(w, r)
        <5>1. a = Cat(SubSeq(a, 1, m), Rest(a, m + 1)) /\ SubSeq(a, 1, m) \in Seq(B) /\ Len(SubSeq(a, 1, m)) = m
          BY <3>6, FirstIs
        <5> QED BY <3>6, <5>1
      <4> HIDE DEF w, r
      <4>2. Cat(r, b) \in Seq(B) /\ c = Cat(w, Cat(r, b))
        <5>1. w \in Seq(B) /\ r \in Seq(B) /\ b \in Seq(B)
          BY <3>4, <4>1
        <5>2. Cat(Cat(w, r), b) = Cat(w, Cat(r, b)) /\ Cat(r, b) \in Seq(B)
          BY ONLY <5>1, ConsAlgebra
        <5> QED BY <4>1, <5>2 DEF c
      <4>3. Rest(Cat(w, Cat(r, b)), Len(w) + 1) = Cat(r, b)
        BY <4>1, <4>2, CatParts
      <4> QED BY <3>6, <4>1, <4>2, <4>3 DEF v
    <3> HIDE DEF r, v
    <3>8. SplitsBefore(B, sp, t, r, b)
      <4>1. r \in Q
        BY <1>1, <3>4, <3>6
      <4> QED BY <3>5, <3>7, <4>1 DEF Q
    <3> DEFINE x == SplitSpecial(r, sp)
               y == SplitSpecial(b, sp)
    <3>9. x \in Seq(C) /\ y \in Seq(C)
      BY <3>4, SplitSteps
    <3>10. SplitSpecial(c, sp) = Onto(P, Cat(x, y))
      BY <3>5, <3>7, <3>8 DEF SplitsBefore
    <3>11. SplitSpecial(a, sp) = Onto(P, x)
      BY <3>4
    <3> HIDE DEF x, y, C
    <3>12. Cat(Onto(P, x), y) = Onto(P, Cat(x, y))
      BY <3>4, <3>9, ConsAlgebra
    <3> QED BY <3>8, <3>10, <3>11, <3>12 DEF SplitsBefore, c, y
  <2> QED BY <2>1, <2>2
<1>2. \A a \in Seq(B) : a \in Q
  <2> HIDE DEF Q
  <2> QED BY <1>1, SeqInd
<1> QED BY <1>2

-----------------------------------------------------------------------------
(* Documents. *)

\* The bytes of a text are read as that text.
LEMMA TextDecodes ==
  ASSUME NEW B, Bytewise(B), NEW r \in Seq(B)
  PROVE  r \in Seq(B) /\ \A t \in Seq(Scalars) : Lossy(Cat(Bytes(t), r)) = Cat(t, Lossy(r))
<1> DEFINE Q == {t \in Seq(Scalars) : Lossy(Cat(Bytes(t), r)) = Cat(t, Lossy(r))}
<1>0. Lossy(r) \in Seq(Chars) /\ Scalars \subseteq Chars
  BY LossySteps DEF Chars
<1>1. ASSUME NEW t \in Seq(Scalars), \A u \in Seq(Scalars) : Len(u) < Len(t) => u \in Q
      PROVE  t \in Q
  <2>1. CASE t = << >>
    <3> DEFINE e == << >>
    <3>1. Bytes(e) = e /\ Cat(e, r) = r /\ Cat(e, Lossy(r)) = Lossy(r)
      BY <1>0, BytesIs, ConsAlgebra
    <3>2. t = e
      BY <2>1
    <3> HIDE DEF e
    <3> QED BY <3>1, <3>2
  <2>2. CASE t # << >>
    <3>1. PICK x \in Scalars, u \in Seq(Scalars) : t = Onto(x, u)
      <4> DEFINE U == Scalars
      <4>1. t \in Seq(U) /\ t # << >>
        BY <2>2
      <4> HIDE DEF U
      <4>2. \E x \in U, u \in Seq(U) : t = Onto(x, u)
        BY <4>1, ConsAlgebra
      <4> QED BY <4>2 DEF U
    <3>2. Len(u) < Len(t)
      <4>1. Len(<<x>> \o u) = Len(u) + 1 /\ Len(u) \in Nat
        OBVIOUS
      <4> QED BY <3>1, <4>1 DEF Onto
    <3>3. Lossy(Cat(Bytes(u), r)) = Cat(u, Lossy(r))
      BY <1>1, <3>2
    <3> DEFINE b == Bytes(u)
               k == Utf8[x]
               l == Lossy(r)
    <3>4. b \in Seq(B) /\ k \in Seq(B) /\ Bytes(t) = Cat(k, b)
      BY <3>1, BytesIs DEF Bytewise
    <3> HIDE DEF b, k
    <3>5. Cat(Cat(k, b), r) = Cat(k, Cat(b, r)) /\ Cat(b, r) \in Seq(B)
      BY ONLY <3>4, r \in Seq(B), ConsAlgebra
    <3>6. Lossy(Cat(k, Cat(b, r))) = Onto(x, Lossy(Cat(b, r)))
      BY <3>5, ScalarDecodes DEF k
    <3>7. Cat(Onto(x, u), l) = Onto(x, Cat(u, l))
      <4> DEFINE C == Chars
      <4>1. x \in C /\ u \in Seq(C) /\ l \in Seq(C)
        <5>1. \A i \in DOMAIN u : u[i] \in C
          BY <1>0
        <5> QED BY <1>0, <5>1
      <4> HIDE DEF C, l
      <4> QED BY ONLY <4>1, ConsAlgebra
    <3>8. Lossy(Cat(Bytes(t), r)) = Cat(t, l)
      BY <3>1, <3>3, <3>4, <3>5, <3>6, <3>7 DEF b
    <3> QED BY <3>8
  <2> QED BY <2>1, <2>2
<1>2. \A t \in Seq(Scalars) : t \in Q
  <2> HIDE DEF Q
  <2> DEFINE U == Scalars
  <2>1. \A t \in Seq(U) : (\A u \in Seq(U) : Len(u) < Len(t) => u \in Q) => t \in Q
    BY <1>1
  <2> HIDE DEF U
  <2>2. \A t \in Seq(U) : t \in Q
    BY <2>1, SeqInd
  <2> QED BY <2>2 DEF U
<1> QED BY <1>2

\* The end-of-text token is a text, of the characters decoding gives.
LEMMA TokenIs == EndOfText \in Seq(Scalars) /\ EndOfText \in Seq(Chars) /\ EndOfText # << >>
<1>1. EndOfText \in Seq(Scalars) /\ EndOfText # << >>
  BY ChunksAssumption DEF IsText
<1>2. \A i \in DOMAIN EndOfText : EndOfText[i] \in Chars
  BY <1>1 DEF Chars
<1> QED BY <1>1, <1>2

\* Where the token's bytes are, what follows decodes to the token and the rest.
LEMMA TokenDecodes ==
  ASSUME job \in Jobs, NEW p \in TokensAt
  PROVE  0 \in Occurrences(EndOfText, Lossy(Rest(job.file, p + 1)))
<1> DEFINE B == JobBytes
           e == Bytes(EndOfText)
           s == job.file
<1>1. s \in Seq(B) /\ Bytewise(B)
  BY JobIs
<1>2. e \in Seq(B)
  BY <1>1, TokenBytes
<1> HIDE DEF e, B, s
<1>3. PICK a \in Seq(B), b \in Seq(B) : s = Cat(a, Cat(e, b)) /\ Len(a) = p
  <2>1. p \in Occurrences(e, s)
    BY DEF TokensAt, e, s
  <2> QED BY <1>1, <1>2, <2>1, OccursIn
<1> DEFINE c == Cat(e, b)
<1>4. c \in Seq(B)
  BY ONLY <1>2, b \in Seq(B), ConsAlgebra
<1>5. Rest(s, p + 1) = c
  <2> HIDE DEF c
  <2>1. s = Cat(a, c)
    BY <1>3 DEF c
  <2>2. Rest(Cat(a, c), Len(a) + 1) = c
    BY <1>4, CatParts
  <2> QED BY <1>3, <2>1, <2>2
<1>6. Lossy(c) = Cat(EndOfText, Lossy(b)) /\ Lossy(b) \in Seq(Chars)
  BY <1>1, TextDecodes, TokenIs, LossySteps DEF e
<1> DEFINE l == Lossy(b)
           C == Chars
           n == << >>
<1>7. l \in Seq(C) /\ EndOfText \in Seq(C) /\ n \in Seq(C) /\ Len(n) = 0
  BY <1>6, TokenIs
<1> HIDE DEF l, C, n
<1> DEFINE d == Cat(EndOfText, l)
<1>8. d \in Seq(C) /\ d = Cat(n, Cat(EndOfText, l))
  <2>1. d \in Seq(C) /\ Cat(<< >>, d) = d
    BY ONLY <1>7, ConsAlgebra
  <2> QED BY <2>1 DEF n
<1>9. 0 \in Occurrences(EndOfText, d)
  <2> HIDE DEF d
  <2>1. \E x, y \in Seq(C) : d = Cat(x, Cat(EndOfText, y)) /\ Len(x) = 0
    BY <1>7, <1>8
  <2> QED BY <1>7, <1>8, <2>1, OccursIn
<1> QED BY <1>5, <1>6, <1>9 DEF l, d, s

\* The tokens that were found in the file are the marks of its text.
LEMMA FileMarked ==
  ASSUME job \in Jobs, TokenIsSpecial
  PROVE  AllMarked(EndOfText, job.special, Lossy(job.file))
<1> DEFINE s == Lossy(job.file)
           q == SplitSpecial(s, job.special)
           x == SpecialPiece(EndOfText)
<1>1. q \in Seq(Piece(Chars))
  <2>1. s \in Seq(Chars)
    BY JobIs, LossySteps
  <2> HIDE DEF s
  <2> QED BY <2>1, JobTokens, SplitSteps
<1>2. Cardinality({i \in DOMAIN q : q[i].special /\ q[i].text = EndOfText})
        = Cardinality(Occurrences(EndOfText, s))
  BY DEF TokenIsSpecial
<1> HIDE DEF q, s
<1>3. \A i \in DOMAIN q : q[i].special /\ q[i].text = EndOfText <=> q[i] = x
  <2> SUFFICES ASSUME NEW i \in DOMAIN q PROVE q[i].special /\ q[i].text = EndOfText <=> q[i] = x
    OBVIOUS
  <2>1. q[i] \in [special : BOOLEAN, text : Seq(Chars)]
    <3> DEFINE P == Piece(Chars)
    <3>1. q \in Seq(P)
      BY <1>1
    <3> HIDE DEF P
    <3>2. q[i] \in P
      BY ONLY <3>1, i \in DOMAIN q
    <3> QED BY <3>2 DEF P, Piece
  <2> QED BY <2>1 DEF SpecialPiece
<1> HIDE DEF x
<1>4. {i \in DOMAIN q : q[i].special /\ q[i].text = EndOfText} = {i \in DOMAIN q : q[i] = x}
  BY <1>3
<1>5. UnitCount(q, x) = Cardinality(Occurrences(EndOfText, s))
  BY <1>2, <1>4 DEF UnitCount
<1> QED BY <1>5 DEF AllMarked, Marks, Met, q, s, x

\* A file that is cut at tokens only is cut in front of tokens, or at its end.
LEMMA CutAtTokens ==
  ASSUME CutInv, phase \in {"reading", "done"}, CutAtTokensOnly, NEW k \in 1..Len(Cuts) - 1
  PROVE  FileFrom(k + 1) = << >> \/ 0 \in Occurrences(EndOfText, Lossy(FileFrom(k + 1)))
<1>1. /\ Cuts \in Seq(0..Size) /\ Len(Cuts) \in Nat /\ Len(Cuts) >= 2
      /\ \A i \in 2..Len(Cuts) - 1 : SettledAt(Cuts[i])
      /\ Len(boundaries) = 2 => Len(Cuts) = 2
  BY CutsAre
<1>2. FileFrom(Len(Cuts)) = << >>
  BY ChunkIs
<1>3. job \in Jobs
  BY DEF CutInv, BoundariesInv
<1>4. CASE k + 1 = Len(Cuts)
  BY <1>2, <1>4
<1>5. CASE k + 1 # Len(Cuts)
  <2>1. k + 1 \in 2..Len(Cuts) - 1 /\ Len(Cuts) # 2
    <3> DEFINE n == Len(Cuts)
    <3>1. n \in Nat /\ k \in 1..n - 1 /\ k + 1 # n
      BY <1>1, <1>5
    <3> HIDE DEF n
    <3>2. k + 1 \in 2..n - 1 /\ n # 2
      BY ONLY <3>1
    <3> QED BY <3>2 DEF n
  <2>2. byToken
    <3>1. job.boundary \in {"auto", "eot"} /\ ~(job.boundary = "auto" /\ TokensAt = {})
      BY DEF CutAtTokensOnly, TokensAt
    <3>2. Len(boundaries) # 2
      BY <1>1, <2>1
    <3> QED BY <3>1, <3>2 DEF CutInv, SearchInv
  <2>3. Cuts[k + 1] = Size \/ Cuts[k + 1] \in TokensAt
    BY <1>1, <2>1, <2>2 DEF SettledAt
  <2>4. CASE Cuts[k + 1] = Size
    <3>1. job.file \in Seq(JobBytes) /\ Size \in Nat
      BY <1>3, JobIs
    <3>2. Size + 1 \in 1..Len(job.file) + 1 /\ Size + 1 = Len(job.file) + 1
      BY <3>1 DEF Size
    <3>3. Rest(job.file, Size + 1) = << >>
      BY <3>1, <3>2, RestIs
    <3> QED BY <2>4, <3>3 DEF FileFrom
  <2>5. CASE Cuts[k + 1] \in TokensAt
    BY <1>3, <2>5, TokenDecodes DEF FileFrom
  <2> QED BY <2>3, <2>4, <2>5
<1> QED BY <1>4, <1>5

\* The texts of the chunks are split as parts of the file's text.
LEMMA ChunksSplit ==
  ASSUME CutInv, phase \in {"reading", "done"}, CutAtTokensOnly, TokenIsSpecial
  PROVE  \A k \in 1..Len(Cuts) - 1 :
           SplitSpecial(Lossy(FileFrom(k)), job.special)
             = Cat(SplitSpecial(Lossy(PieceOf(k)), job.special),
                   SplitSpecial(Lossy(FileFrom(k + 1)), job.special))
<1> DEFINE n == Len(Cuts) - 1
           sp == job.special
           e == EndOfText
           C == Chars
           a(k) == Lossy(PieceOf(k))
           b(k) == Lossy(FileFrom(k))
<1>0. job \in Jobs
  BY DEF CutInv, BoundariesInv
<1>1. Len(Cuts) \in Nat /\ n \in Nat /\ n >= 1 /\ n + 1 = Len(Cuts)
  <2>1. Len(Cuts) \in Nat /\ Len(Cuts) >= 2
    BY CutsAre
  <2> QED BY <2>1
<1>2. Tokens(C, sp) /\ e \in Seq(C) /\ e # << >>
  BY <1>0, JobTokens, TokenIs
<1>3. \A k \in 1..n : a(k) \in Seq(C) /\ b(k) = Cat(a(k), b(k + 1))
  BY ChunkIs, LossySteps
<1>4. \A k \in 1..n + 1 : b(k) \in Seq(C)
  BY <1>1, ChunkIs, LossySteps
<1>5. \A k \in 1..n : b(k + 1) = << >> \/ 0 \in Occurrences(e, b(k + 1))
  <2>1. Lossy(<< >>) = << >>
    BY LossySteps
  <2> QED BY <2>1, CutAtTokens
<1>6. AllMarked(e, sp, b(1))
  <2>1. FileFrom(1) = job.file
    BY ChunkIs
  <2> QED BY <1>0, <2>1, FileMarked
<1> HIDE DEF n, sp, e, C, a, b
<1>7. ASSUME NEW k \in 1..n, AllMarked(e, sp, b(k))
      PROVE  /\ SplitSpecial(b(k), sp) = Cat(SplitSpecial(a(k), sp), SplitSpecial(b(k + 1), sp))
             /\ AllMarked(e, sp, b(k + 1))
  <2> DEFINE x == a(k)
             y == b(k + 1)
             z == b(k)
  <2>1. k + 1 \in 1..n + 1 /\ k \in 1..n + 1
    BY <1>1
  <2>2. x \in Seq(C) /\ y \in Seq(C) /\ z = Cat(x, y)
    BY <1>3, <1>4, <2>1
  <2>3. y = << >> \/ 0 \in Occurrences(e, y)
    BY <1>5
  <2>4. AllMarked(e, sp, z)
    BY <1>7
  <2> HIDE DEF x, y, z
  <2>5. CASE y = << >>
    <3> DEFINE o == << >>
    <3>1. SplitSpecial(o, sp) = o /\ SplitSpecial(x, sp) \in Seq(Piece(C))
      BY <1>2, <2>2, SplitSteps
    <3>2. Cat(x, o) = x
      BY <2>2, ConsAlgebra
    <3>3. Cat(SplitSpecial(x, sp), o) = SplitSpecial(x, sp)
      <4> DEFINE D == Piece(C)
                 q == SplitSpecial(x, sp)
      <4>1. q \in Seq(D)
        BY <3>1
      <4> HIDE DEF D, q
      <4>2. Cat(q, << >>) = q
        BY <4>1, ConsAlgebra
      <4> QED BY <4>2 DEF q
    <3>4. AllMarked(e, sp, o)
      <4>1. Marks(e, sp, << >>) = 0
        BY <3>1, ShortCounts DEF Marks
      <4>2. Met(e, << >>) = 0
        BY <1>2, MetNone
      <4> QED BY <4>1, <4>2 DEF AllMarked
    <3>5. y = o
      BY <2>5
    <3> HIDE DEF o
    <3> QED BY <2>2, <3>1, <3>2, <3>3, <3>4, <3>5 DEF x, y, z
  <2>6. CASE 0 \in Occurrences(e, y)
    <3>1. SplitsBefore(C, sp, e, x, y)
      BY <1>2, <2>2, <2>4, <2>6, SplitAtToken
    <3> QED BY <2>2, <3>1 DEF SplitsBefore, x, y, z
  <2> QED BY <2>3, <2>5, <2>6
<1> DEFINE N == {k \in Nat : k + 1 \in 1..n + 1 => AllMarked(e, sp, b(k + 1))}
<1>8. N = Nat
  <2>1. 0 \in N
    BY <1>6
  <2>2. \A k \in N : k + 1 \in N
    <3> SUFFICES ASSUME NEW k \in N, (k + 1) + 1 \in 1..n + 1 PROVE AllMarked(e, sp, b((k + 1) + 1))
      OBVIOUS
    <3>1. k \in Nat /\ k + 1 \in 1..n /\ k + 1 \in 1..n + 1
      BY <1>1
    <3>2. AllMarked(e, sp, b(k + 1))
      BY <3>1
    <3> HIDE DEF N
    <3> QED BY <1>7, <3>1, <3>2
  <2>3. N \in SUBSET Nat
    OBVIOUS
  <2> HIDE DEF N
  <2> QED BY <2>1, <2>2, <2>3, NatInd
<1>9. \A k \in 1..n : SplitSpecial(b(k), sp) = Cat(SplitSpecial(a(k), sp), SplitSpecial(b(k + 1), sp))
  <2> SUFFICES ASSUME NEW k \in 1..n PROVE AllMarked(e, sp, b(k))
    BY <1>7
  <2>1. k - 1 \in N /\ (k - 1) + 1 = k /\ k \in 1..n + 1
    <3>1. k - 1 \in Nat /\ (k - 1) + 1 = k /\ k \in 1..n + 1
      BY <1>1
    <3> HIDE DEF N
    <3> QED BY <1>8, <3>1
  <2> QED BY <2>1
<1> QED BY <1>9 DEF a, b, n, sp

\* What the chunks list is what the file lists.
LEMMA ListsTell ==
  ASSUME CutInv, phase \in {"reading", "done"}, CutAtTokensOnly, TokenIsSpecial
  PROVE  FlattenSeq(Lists(job, chunks)) = Listed(job, Lossy(job.file))
<1> DEFINE n == Len(Cuts) - 1
           C == Chars
           I == Item(C, job.op)
           f == Lists(job, chunks)
           g == [k \in 1..n + 1 |-> Listed(job, Lossy(FileFrom(k)))]
<1>0. job \in Jobs
  BY DEF CutInv, BoundariesInv
<1>1. /\ f \in Seq(Seq(I)) /\ Len(f) = n /\ n \in Nat /\ n >= 1
      /\ \A k \in 1..n : f[k] = Listed(job, Lossy(PieceOf(k)))
  BY ListsAre
<1>2. /\ Listed(job, << >>) = << >>
      /\ \A s \in Seq(C) : Listed(job, s) \in Seq(I)
      /\ \A a, b, c \in Seq(C) :
           SplitSpecial(c, job.special) = Cat(SplitSpecial(a, job.special), SplitSpecial(b, job.special))
             => Listed(job, c) = Cat(Listed(job, a), Listed(job, b))
  BY <1>0, JobTokens, ListedCat
<1>3. Lossy(<< >>) = << >> /\ \A s \in Seq(JobBytes) : Lossy(s) \in Seq(C)
  BY LossySteps
<1>4. /\ \A k \in 1..Len(Cuts) : FileFrom(k) \in Seq(JobBytes)
      /\ FileFrom(1) = job.file /\ FileFrom(Len(Cuts)) = << >>
      /\ \A k \in 1..n : PieceOf(k) \in Seq(JobBytes)
  BY ChunkIs
<1>5. n + 1 = Len(Cuts) /\ 1 \in 1..n + 1 /\ n + 1 \in 1..n + 1 /\ \A k \in 1..n : k \in 1..n + 1 /\ k + 1 \in 1..n + 1
  <2>1. Len(Cuts) \in Nat
    BY CutsAre
  <2> QED BY <1>1, <2>1
<1>6. \A k \in 1..n :
        SplitSpecial(Lossy(FileFrom(k)), job.special)
          = Cat(SplitSpecial(Lossy(PieceOf(k)), job.special),
                SplitSpecial(Lossy(FileFrom(k + 1)), job.special))
  BY ChunksSplit
<1> HIDE DEF n, C, I, f
<1>7. g[1] = Listed(job, Lossy(job.file)) /\ g[n + 1] = << >>
  BY <1>2, <1>3, <1>4, <1>5
<1>8. \A k \in 1..n + 1 : g[k] \in Seq(I)
  BY <1>2, <1>3, <1>4, <1>5
<1>9. \A k \in 1..n : g[k] = Cat(f[k], g[k + 1])
  <2> SUFFICES ASSUME NEW k \in 1..n PROVE g[k] = Cat(f[k], g[k + 1])
    OBVIOUS
  <2>1. Lossy(FileFrom(k)) \in Seq(C) /\ Lossy(PieceOf(k)) \in Seq(C) /\ Lossy(FileFrom(k + 1)) \in Seq(C)
    BY <1>3, <1>4, <1>5
  <2>2. Listed(job, Lossy(FileFrom(k)))
          = Cat(Listed(job, Lossy(PieceOf(k))), Listed(job, Lossy(FileFrom(k + 1))))
    BY <1>2, <1>6, <2>1
  <2> QED BY <1>1, <1>5, <2>2
<1> HIDE DEF g
<1>10. Told(I, n, f, g)
  BY <1>1, <1>7, <1>8, <1>9 DEF Told
<1>11. FlattenSeq(f) = g[1]
  BY <1>10, PieceByPiece
<1> QED BY <1>7, <1>11 DEF f

\* What was made of all chunks is what is made of the file.
LEMMA PartsAreTheFile == CutInv /\ PartsInv => DocumentsStayWhole
<1> SUFFICES ASSUME CutInv, PartsInv, phase = "done", TokenIsSpecial, CutAtTokensOnly
             PROVE  result = Outcome(job, ValueOfFile)
  BY DEF DocumentsStayWhole, Outcome
<1>1. PICK p \in parts : p.first = 1 /\ p.last = Len(chunks) /\ result = Outcome(job, p.value)
  BY DEF PartsInv
<1> DEFINE ls == Lists(job, chunks)
           W == Seq(Item(Chars, job.op))
<1>2. p.value = Gathered(job, FlattenSeq(SubSeq(ls, 1, Len(chunks))))
  BY <1>1 DEF PartsInv
<1>3. ls \in Seq(W) /\ Len(ls) = Len(chunks)
  BY ListsAre
<1>4. SubSeq(ls, 1, Len(chunks)) = ls
  <2> HIDE DEF ls, W
  <2>1. Len(ls) \in 0..Len(ls)
    BY <1>3
  <2>2. SubSeq(ls, 1, Len(ls)) \in Seq(W) /\ Len(SubSeq(ls, 1, Len(ls))) = Len(ls)
        /\ SubSeq(ls, 1, Len(ls)) = ls
    BY <1>3
  <2> QED BY <1>3, <2>2
<1>5. FlattenSeq(ls) = Listed(job, Lossy(job.file))
  BY ListsTell
<1>6. p.value = ValueOfFile
  BY <1>2, <1>4, <1>5 DEF Gathered, ValueOfFile, ValueOf
<1> QED BY <1>1, <1>6

\* However a file is cut at its end-of-text tokens, and in whatever order the
\* chunks are read and joined, the result is that of the file in one piece: the
\* word counts, the ids, or the selected bigrams (DocumentsStayWhole).
THEOREM DocumentsAreKept == Spec => []DocumentsStayWhole
<1>1. CutInv /\ PartsInv => DocumentsStayWhole
  BY PartsAreTheFile
<1> QED BY <1>1, CutInvInit, CutInvNext, PartsInvInit, PartsInvNext, PTL DEF Spec

-----------------------------------------------------------------------------
(* Lines. *)

\* The blank characters of B.
Blanks(B) == {x \in B : Kind(x) = "blank"}

\* A newline is at the end.
EndsLine(s) == s # << >> /\ s[Len(s)] = Newline

\* Words that are not blank, and how often a text has them.
SolidWord(B, w) == w \in Seq(B) /\ w \notin Seq(Blanks(B))

Words(s, w) == UnitCount(WordsOf(s), w)

\* Newlines are blanks but no spaces.
LEMMA NewlineIs == Kind(Newline) = "blank" /\ Newline # Space /\ Newline \in Chars
BY ChunksAssumption DEF Kind, Chars

\* A text is blank, or has a character that is not.
LEMMA BlankIs ==
  ASSUME NEW B, NEW s \in Seq(B)
  PROVE  s \in Seq(Blanks(B)) <=> \A i \in 1..Len(s) : Kind(s[i]) = "blank"
<1>1. \A i \in 1..Len(s) : s[i] \in B
  OBVIOUS
<1>2. ASSUME s \in Seq(Blanks(B)), NEW i \in 1..Len(s) PROVE Kind(s[i]) = "blank"
  <2> DEFINE V == Blanks(B)
  <2>1. s \in Seq(V)
    BY <1>2
  <2> HIDE DEF V
  <2>2. s[i] \in V
    BY <2>1
  <2> QED BY <2>2 DEF V, Blanks
<1>3. ASSUME \A i \in 1..Len(s) : Kind(s[i]) = "blank" PROVE s \in Seq(Blanks(B))
  <2> DEFINE V == Blanks(B)
  <2>1. \A i \in 1..Len(s) : s[i] \in V
    BY <1>1, <1>3 DEF Blanks
  <2>2. Len(s) \in Nat /\ DOMAIN s = 1..Len(s) /\ s = [i \in 1..Len(s) |-> s[i]]
    OBVIOUS
  <2> HIDE DEF V
  <2>3. s \in Seq(V)
    BY <2>1, <2>2
  <2> QED BY <2>3 DEF V
<1> QED BY <1>2, <1>3

\* Blank lists of words have no solid one.
LEMMA NoSolid ==
  ASSUME NEW B, NEW w, SolidWord(B, w), NEW ss \in Seq(Seq(Blanks(B)))
  PROVE  UnitCount(ss, w) = 0 /\ SolidWord(B, w)
<1> DEFINE W == Seq(Blanks(B))
<1>1. ss \in Seq(W) /\ w \notin W
  BY DEF SolidWord
<1> HIDE DEF W
<1>2. w \notin Elements(ss)
  BY <1>1 DEF Elements
<1>3. UnitCount(ss, w) \in Nat /\ ~(UnitCount(ss, w) > 0)
  BY <1>1, <1>2, Occurs, CountType
<1> QED BY <1>3

\* Blank texts have blank words only.
LEMMA BlankWords ==
  ASSUME NEW B, NEW w, SolidWord(B, w), NEW s \in Seq(Blanks(B))
  PROVE  Words(s, w) = 0 /\ SolidWord(B, w)
<1> DEFINE V == Blanks(B)
<1>1. WordsOf(s) \in Seq(Seq(V))
  <2>1. s \in Seq(V)
    OBVIOUS
  <2> HIDE DEF V
  <2> QED BY <2>1, WordsSteps
<1> QED BY <1>1, NoSolid DEF Words

\* How the words go on behind the first one.
LEMMA WordsStep ==
  ASSUME NEW B, NEW s \in Seq(B), s # << >>, NEW w
  PROVE  LET e == WordEnd(s, 1)
         IN /\ e \in 1..Len(s) /\ Rest(s, 1 + e) \in Seq(B) /\ SubSeq(s, 1, e) \in Seq(B)
            /\ Words(s, w) = UnitCount(SegmentsOf(SubSeq(s, 1, e)), w) + Words(Rest(s, 1 + e), w)
            /\ Words(s, w) \in Nat /\ Words(Rest(s, 1 + e), w) \in Nat
            /\ UnitCount(SegmentsOf(SubSeq(s, 1, e)), w) \in Nat
<1> DEFINE e == WordEnd(s, 1)
           W == Seq(B)
           r == Rest(s, 1 + e)
           u == SubSeq(s, 1, e)
           q == SegmentsOf(u)
<1>1. e \in 1..Len(s) /\ r \in Seq(B) /\ q \in Seq(W) /\ WordsOf(s) = Cat(q, WordsOf(r))
  BY WordsSteps
<1>2. WordsOf(r) \in Seq(W) /\ WordsOf(s) \in Seq(W)
  BY <1>1, WordsSteps
<1>3. u \in Seq(B)
  <2>1. e \in 0..Len(s)
    BY <1>1
  <2> HIDE DEF e
  <2> QED BY <2>1, FirstIs
<1> HIDE DEF e, W, r, u
<1>4. UnitCount(Cat(q, WordsOf(r)), w) = UnitCount(q, w) + UnitCount(WordsOf(r), w)
  <2> DEFINE z == WordsOf(r)
  <2>1. q \in Seq(W) /\ z \in Seq(W)
    BY <1>1, <1>2
  <2> HIDE DEF q, z
  <2>2. UnitCount(q \o z, w) = UnitCount(q, w) + UnitCount(z, w)
    BY <2>1, UnitCountConcat
  <2> QED BY <2>2 DEF Cat, z
<1>5. UnitCount(q, w) \in Nat /\ Words(s, w) \in Nat /\ Words(r, w) \in Nat
  BY <1>1, <1>2, CountType DEF Words
<1> QED BY <1>1, <1>3, <1>4, <1>5 DEF Words, e, r, u

\* A blank word is not counted.
LEMMA BlankStep ==
  ASSUME NEW B, NEW w, SolidWord(B, w), NEW s \in Seq(B), s # << >>,
         SubSeq(s, 1, WordEnd(s, 1)) \in Seq(Blanks(B))
  PROVE  Words(s, w) = Words(Rest(s, 1 + WordEnd(s, 1)), w) /\ SolidWord(B, w)
<1> DEFINE e == WordEnd(s, 1)
           V == Blanks(B)
           u == SubSeq(s, 1, e)
           r == Rest(s, 1 + e)
<1>1. /\ e \in 1..Len(s) /\ u \in Seq(B)
      /\ Words(s, w) = UnitCount(SegmentsOf(u), w) + Words(r, w)
      /\ Words(s, w) \in Nat /\ Words(r, w) \in Nat
  BY WordsStep
<1>2. u \in Seq(V)
  OBVIOUS
<1>3. u # << >>
  <2>1. e \in 0..Len(s) /\ e # 0
    BY <1>1
  <2> HIDE DEF e
  <2>2. Len(u) = e
    BY <2>1, FirstIs
  <2> QED BY <2>1, <2>2
<1> HIDE DEF e, u, r
<1>4. SegmentsOf(u) \in Seq(Seq(V))
  <2> HIDE DEF V
  <2> QED BY <1>2, <1>3, SegmentsAre
<1>5. UnitCount(SegmentsOf(u), w) = 0
  BY <1>4, NoSolid
<1> QED BY <1>1, <1>5 DEF e, r

\* What is left of two texts in a row.
LEMMA RestCat ==
  ASSUME NEW B, NEW a \in Seq(B), NEW b \in Seq(B), NEW m \in 0..Len(a)
  PROVE  /\ a \in Seq(B) /\ Cat(a, b) \in Seq(B) /\ Rest(a, m + 1) \in Seq(B)
         /\ Rest(Cat(a, b), m + 1) = Cat(Rest(a, m + 1), b)
         /\ SubSeq(Cat(a, b), 1, m) = SubSeq(a, 1, m)
<1> DEFINE w == SubSeq(a, 1, m)
           r == Rest(a, m + 1)
           c == Cat(a, b)
<1>1. w \in Seq(B) /\ r \in Seq(B) /\ Len(w) = m /\ a = Cat(w, r)
  BY FirstIs
<1>2. c \in Seq(B) /\ \A k \in 0..Len(a) : SubSeq(c, 1, k) = SubSeq(a, 1, k)
  BY CatParts
<1> HIDE DEF w, r
<1>3. Cat(r, b) \in Seq(B) /\ c = Cat(w, Cat(r, b))
  <2>1. w \in Seq(B) /\ r \in Seq(B) /\ b \in Seq(B)
    BY <1>1
  <2>2. Cat(Cat(w, r), b) = Cat(w, Cat(r, b)) /\ Cat(r, b) \in Seq(B)
    BY ONLY <2>1, ConsAlgebra
  <2> QED BY <1>1, <2>2
<1> HIDE DEF c
<1>4. Rest(Cat(w, Cat(r, b)), Len(w) + 1) = Cat(r, b)
  BY <1>1, <1>3, CatParts
<1>5. Rest(c, m + 1) = Cat(r, b)
  BY <1>1, <1>3, <1>4
<1> QED BY <1>1, <1>2, <1>5 DEF r, c

\* What is left of a line ends it.
LEMMA LineRest ==
  ASSUME NEW B, NEW s \in Seq(B), EndsLine(s), NEW m \in 0..Len(s), m < Len(s)
  PROVE  s \in Seq(B) /\ EndsLine(Rest(s, m + 1))
<1> DEFINE n == Len(s)
           i == m + 1
           r == Rest(s, i)
<1>1. n \in Nat /\ i \in 1..n + 1 /\ i # n + 1 /\ n + 1 - i \in 1..n + 1 - i /\ i + (n + 1 - i) - 1 = n
  OBVIOUS
<1>2. /\ Len(r) = n + 1 - i /\ r # << >>
      /\ \A k \in 1..n + 1 - i : r[k] = s[i + k - 1]
  <2> HIDE DEF i
  <2> QED BY <1>1, RestIs
<1> HIDE DEF r, n, i
<1>3. r[Len(r)] = s[n]
  BY <1>1, <1>2
<1> QED BY <1>2, <1>3 DEF EndsLine, r, n, i

\* The first word of a line that is not blank ends in the line, whatever follows.
LEMMA LineWord ==
  ASSUME NEW B, NEW x \in Seq(B), NEW y \in Seq(B), EndsLine(x), x \notin Seq(Blanks(B))
  PROVE  /\ x \in Seq(B) /\ Cat(x, y) \in Seq(B)
         /\ WordEnd(Cat(x, y), 1) = WordEnd(x, 1)
         /\ WordEnd(x, 1) \in 1..Len(x) /\ WordEnd(x, 1) < Len(x)
<1> DEFINE c == Cat(x, y)
           n == Len(x)
           h == HeadOf(x)
           run == Run(x, h)
<1>0. n \in Nat /\ n >= 1 /\ x[n] = Newline /\ x # << >>
  BY DEF EndsLine
<1>1. /\ c \in Seq(B) /\ Len(c) = Len(x) + Len(y) /\ Len(y) \in Nat
      /\ \A j \in 1..Len(x) : c[j] = x[j]
  <2>1. x \in Seq(B) /\ y \in Seq(B)
    OBVIOUS
  <2>2. /\ Cat(x, y) \in Seq(B) /\ Len(Cat(x, y)) = Len(x) + Len(y)
        /\ Len(x) \in Nat /\ Len(y) \in Nat
        /\ \A j \in 1..Len(x) : Cat(x, y)[j] = x[j]
    BY ONLY <2>1, CatParts, Zenon
  <2> QED BY <2>2
<1>2. c # << >>
  BY <1>0, ConsAlgebra
<1> HIDE DEF c
<1>3. Kind(x[n]) = "blank" /\ x[n] # Space
  BY <1>0, NewlineIs
<1>4. HeadOf(c) = h
  <2>1. c[1] = x[1]
    BY <1>0, <1>1
  <2>2. CASE n = 1
    <3>1. x[1] # Space
      BY <1>3, <2>2
    <3> QED BY <2>1, <3>1 DEF HeadOf
  <2>3. CASE n # 1
    <3>1. 1 < Len(x) /\ 1 < Len(c) /\ 2 \in 1..Len(x)
      <4> DEFINE k == Len(c)
                 l == Len(y)
      <4>1. n \in Nat /\ n >= 1 /\ n # 1 /\ l \in Nat /\ k = n + l
        BY <1>0, <1>1, <2>3
      <4> HIDE DEF n, k, l
      <4>2. 1 < n /\ 1 < k /\ 2 \in 1..n
        BY ONLY <4>1
      <4> QED BY <4>2 DEF n, k
    <3>2. c[2] = x[2]
      BY <1>1, <3>1
    <3> QED BY <2>1, <3>1, <3>2 DEF HeadOf
  <2> QED BY <2>2, <2>3
<1>5. /\ h \in 1..n
      /\ WordEnd(x, 1) = IF Kind(x[h]) # "blank" \/ run \in {n, h} THEN run ELSE run - 1
      /\ WordEnd(x, 1) \in 1..n
  BY <1>0, WordIs
<1>6. /\ h \in 1..Len(c)
      /\ WordEnd(c, 1) = IF Kind(c[h]) # "blank" \/ Run(c, h) \in {Len(c), h} THEN Run(c, h) ELSE Run(c, h) - 1
  BY <1>1, <1>2, <1>4, WordIs
<1>7. IsRun(x, h, run) /\ run \in 1..n
  <2> HIDE DEF h
  <2> QED BY <1>5, RunIs
<1> HIDE DEF h, run
<1>8. /\ run \in h..n /\ \A k \in h..run : Kind(x[k]) = Kind(x[h])
      /\ run = n \/ Kind(x[run + 1]) # Kind(x[h])
  BY <1>7 DEF IsRun
<1>9. run # n
  <2> SUFFICES ASSUME run = n PROVE FALSE
    OBVIOUS
  <2>1. n \in h..run /\ h \in h..run
    BY <1>0, <1>5
  <2>2. Kind(x[h]) = "blank"
    BY <1>3, <1>8, <2>1
  <2>3. h = 1
    BY <2>2 DEF h, HeadOf
  <2>4. \A i \in 1..Len(x) : Kind(x[i]) = "blank"
    BY <1>8, <2>2, <2>3
  <2> QED BY <2>4, BlankIs
<1>10. run \in 1..n /\ run + 1 \in 1..n /\ run < n /\ run < Len(c) /\ h \in 1..n
  BY <1>0, <1>1, <1>5, <1>7, <1>9
<1>11. IsRun(c, h, run)
  <2>1. run \in h..Len(c)
    BY <1>1, <1>8, <1>10
  <2>2. \A k \in h..run : k \in 1..n
    BY <1>10
  <2>3. \A k \in h..run : Kind(c[k]) = Kind(c[h])
    BY <1>1, <1>8, <1>10, <2>2
  <2>4. Kind(c[run + 1]) # Kind(c[h])
    BY <1>1, <1>8, <1>9, <1>10
  <2> QED BY <2>1, <2>3, <2>4 DEF IsRun
<1>12. Run(c, h) = run
  BY <1>1, <1>6, <1>11, RunIs
<1>13. c[h] = x[h]
  BY <1>1, <1>10
<1>14. run \in {n, h} <=> run \in {Len(c), h}
  BY <1>10
<1>15. WordEnd(c, 1) = WordEnd(x, 1)
  BY <1>5, <1>6, <1>12, <1>13, <1>14
<1>16. WordEnd(x, 1) < n
  BY <1>5, <1>10
<1> QED BY <1>1, <1>5, <1>15, <1>16 DEF c

\* The first character that is not blank.
FirstSolid(B, s, k) ==
  k \in 1..Len(s) /\ Kind(s[k]) # "blank" /\ \A j \in 1..Len(s) : j < k => Kind(s[j]) = "blank"

\* A text that is not blank has one.
LEMMA SolidExists ==
  ASSUME NEW B, NEW s \in Seq(B), s \notin Seq(Blanks(B))
  PROVE  s \in Seq(B) /\ \E k : FirstSolid(B, s, k)
<1> DEFINE S == {k \in 1..Len(s) : Kind(s[k]) # "blank"}
<1>1. S # {}
  BY BlankIs
<1>2. S \in SUBSET Nat
  OBVIOUS
<1>3. PICK k \in S : \A j \in S : k <= j
  <2> HIDE DEF S
  <2> QED BY <1>1, <1>2, Least
<1>4. \A j \in 1..Len(s) : j < k => Kind(s[j]) = "blank"
  <2> SUFFICES ASSUME NEW j \in 1..Len(s), j < k, Kind(s[j]) # "blank" PROVE FALSE
    OBVIOUS
  <2>1. k <= j
    BY <1>3
  <2> QED BY <2>1
<1> QED BY <1>3, <1>4 DEF FirstSolid

\* Blanks in front of a word are not counted; the last of them is kept with it.
LEMMA BlanksLead ==
  ASSUME NEW B, NEW w, SolidWord(B, w), NEW s \in Seq(B), NEW k, FirstSolid(B, s, k), k > 1
  PROVE  /\ s \in Seq(B) /\ SolidWord(B, w)
         /\ Words(s, w) = Words(Rest(s, k - 1), w)
<1> DEFINE n == Len(s)
           m == k - 1
           e == WordEnd(s, 1)
<1>0. /\ n \in Nat /\ k \in 1..n /\ m \in 1..n /\ m + 1 = k /\ s # << >>
      /\ Kind(s[k]) # "blank" /\ \A j \in 1..n : j < k => Kind(s[j]) = "blank"
  BY DEF FirstSolid
<1>1. CASE m = 1
  <2>1. Rest(s, 1) = s
    BY DEF Rest
  <2> QED BY <1>1, <2>1
<1>2. CASE m # 1
  <2>1. m > 1 /\ 2 \in 1..n /\ 2 < k /\ 1 \in 1..n /\ 1 < k
    BY <1>0, <1>2
  <2>2. HeadOf(s) = 1
    BY <1>0, <2>1 DEF HeadOf
  <2>3. IsRun(s, 1, m)
    <3> HIDE DEF m
    <3>1. m \in 1..Len(s) /\ \A j \in 1..m : j \in 1..n /\ j < k
      BY <1>0
    <3>2. \A j \in 1..m : Kind(s[j]) = Kind(s[1])
      BY <1>0, <2>1, <3>1
    <3>3. Kind(s[m + 1]) # Kind(s[1])
      BY <1>0, <2>1
    <3> QED BY <3>1, <3>2, <3>3 DEF IsRun
  <2>4. Run(s, 1) = m
    <3> HIDE DEF m
    <3> QED BY <2>1, <2>3, RunIs
  <2>5. e = m - 1
    <3>1. e = IF Kind(s[1]) # "blank" \/ Run(s, 1) \in {Len(s), 1} THEN Run(s, 1) ELSE Run(s, 1) - 1
      BY <1>0, <2>2, WordIs
    <3>2. Kind(s[1]) = "blank"
      BY <1>0, <2>1
    <3>3. m \notin {Len(s), 1}
      BY <1>0, <2>1
    <3> QED BY <2>4, <3>1, <3>2, <3>3
  <2>6. e \in 1..n /\ e \in 0..n /\ 1 + e = m /\ \A j \in 1..e : j \in 1..n /\ j < k
    <3> HIDE DEF e, n
    <3> QED BY <1>0, <2>1, <2>5
  <2> DEFINE u == SubSeq(s, 1, e)
  <2>7. u \in Seq(B) /\ Len(u) = e /\ \A j \in 1..e : u[j] = s[j]
    <3> HIDE DEF e
    <3>1. u \in Seq(B) /\ Len(u) = e
      BY <2>6, FirstIs
    <3>2. 0 + 1 = 1 /\ 0 <= e /\ e <= Len(s) /\ e \in Nat /\ 0 \in Nat /\ e - 0 = e /\ \A j \in 1..e : 0 + j = j
      BY <2>6
    <3>3. \A j \in 1..e - 0 : SubSeq(s, 0 + 1, e)[j] = s[0 + j]
      BY <3>2, PartIs
    <3> QED BY <3>1, <3>2, <3>3
  <2>8. u \in Seq(Blanks(B))
    <3> HIDE DEF u, e, n
    <3>1. \A j \in 1..Len(u) : Kind(u[j]) = "blank"
      BY <1>0, <2>6, <2>7
    <3> QED BY <2>7, <3>1, BlankIs
  <2>9. Words(s, w) = Words(Rest(s, 1 + e), w)
    BY <1>0, <2>8, BlankStep
  <2> QED BY <2>6, <2>9
<1> QED BY <1>1, <1>2

\* What is left behind the first of two texts.
LEMMA RestBehind ==
  ASSUME NEW B, NEW x \in Seq(B), NEW y \in Seq(B), NEW k \in 0..Len(y)
  PROVE  /\ x \in Seq(B) /\ y \in Seq(B) /\ Rest(y, k + 1) \in Seq(B)
         /\ Rest(Cat(x, y), Len(x) + k + 1) = Rest(y, k + 1)
<1> DEFINE u == SubSeq(y, 1, k)
           r == Rest(y, k + 1)
           p == Cat(x, u)
           n == Len(x)
<1>1. u \in Seq(B) /\ Len(u) = k /\ y = Cat(u, r) /\ r \in Seq(B)
  BY FirstIs
<1> HIDE DEF u, r
<1>2. x \in Seq(B) /\ u \in Seq(B) /\ r \in Seq(B)
  BY <1>1
<1>3. Cat(Cat(x, u), r) = Cat(x, Cat(u, r)) /\ Cat(x, u) \in Seq(B)
  BY ONLY <1>2, ConsAlgebra
<1>4. Len(Cat(x, u)) = Len(x) + Len(u) /\ Len(x) \in Nat /\ Len(u) \in Nat
  BY ONLY <1>2, CatParts, Zenon
<1>5. p \in Seq(B) /\ p = Cat(x, u)
  BY <1>3
<1> HIDE DEF p
<1>6. Rest(Cat(p, r), Len(p) + 1) = r
  BY ONLY <1>2, <1>5, CatParts, Zenon
<1>7. Cat(p, r) = Cat(x, y)
  BY <1>1, <1>3, <1>5
<1> HIDE DEF n
<1>8. Len(p) + 1 = Len(x) + k + 1
  BY <1>1, <1>4, <1>5
<1> QED BY <1>1, <1>6, <1>7, <1>8 DEF r

\* Blanks with a newline at the end divide no word that follows them.
LEMMA BlankBefore ==
  ASSUME NEW B, NEW w, SolidWord(B, w), NEW x \in Seq(Blanks(B)), EndsLine(x), NEW y \in Seq(B)
  PROVE  Words(Cat(x, y), w) = Words(y, w) /\ SolidWord(B, w)
<1> DEFINE V == Blanks(B)
           c == Cat(x, y)
           n == Len(x)
<1>1. x \in Seq(V) /\ x \in Seq(B) /\ \A i \in 1..Len(x) : Kind(x[i]) = "blank"
  <2>1. V \subseteq B
    BY DEF Blanks
  <2>2. x \in Seq(V)
    OBVIOUS
  <2> HIDE DEF V
  <2>3. x \in Seq(B)
    BY <2>1, <2>2
  <2>4. x \in Seq(Blanks(B))
    BY <2>2 DEF V
  <2> QED BY <2>2, <2>3, <2>4, BlankIs
<1>2. CASE y \in Seq(V)
  <2>1. c \in Seq(V)
    <3> HIDE DEF V
    <3> QED BY <1>1, <1>2, ConsAlgebra
  <2> QED BY <1>2, <2>1, BlankWords
<1>3. CASE y \notin Seq(V)
  <2>1. PICK k : FirstSolid(B, y, k)
    BY <1>3, SolidExists
  <2>2. /\ Cat(x, y) \in Seq(B) /\ Len(Cat(x, y)) = Len(x) + Len(y)
        /\ Len(x) \in Nat /\ Len(y) \in Nat
        /\ \A j \in 1..Len(x) : Cat(x, y)[j] = x[j]
        /\ \A j \in 1..Len(y) : Cat(x, y)[Len(x) + j] = y[j]
    <3>1. x \in Seq(B) /\ y \in Seq(B)
      BY <1>1
    <3> QED BY ONLY <3>1, CatParts, Zenon
  <2>3. /\ k \in 1..Len(y) /\ Kind(y[k]) # "blank"
        /\ \A j \in 1..Len(y) : j < k => Kind(y[j]) = "blank"
    BY <2>1 DEF FirstSolid
  <2>4. n \in Nat /\ n >= 1 /\ x[n] = Newline /\ x # << >>
    BY <2>2 DEF EndsLine
  <2>5. FirstSolid(B, c, n + k)
    <3> DEFINE l == Len(y)
               m == Len(c)
    <3>1. l \in Nat /\ m = n + l /\ k \in 1..l /\ n \in Nat /\ c \in Seq(B)
      BY <2>2, <2>3
    <3>2. /\ \A j \in 1..n : c[j] = x[j] /\ Kind(x[j]) = "blank"
          /\ \A j \in 1..l : c[n + j] = y[j] /\ (j < k => Kind(y[j]) = "blank")
          /\ Kind(y[k]) # "blank"
      BY <1>1, <2>2, <2>3
    <3> HIDE DEF l, m, n, c
    <3>3. n + k \in 1..m
      BY <3>1
    <3>4. Kind(c[n + k]) # "blank"
      BY <3>1, <3>2
    <3>5. ASSUME NEW j \in 1..m, j < n + k PROVE Kind(c[j]) = "blank"
      <4>1. CASE j \in 1..n
        BY <3>2, <4>1
      <4>2. CASE j \notin 1..n
        <5> DEFINE i == j - n
        <5>1. i \in 1..l /\ i < k /\ n + i = j
          BY <3>1, <3>5, <4>2
        <5> HIDE DEF i
        <5> QED BY <3>2, <5>1
      <4> QED BY <4>1, <4>2
    <3> QED BY <3>3, <3>4, <3>5 DEF FirstSolid, m
  <2>6. n + k > 1 /\ n + k - 1 = n + (k - 1) /\ k - 1 \in 0..Len(y) /\ k \in Nat
    <3> HIDE DEF n
    <3> QED BY <2>2, <2>3, <2>4
  <2>7. Words(c, w) = Words(Rest(c, n + k - 1), w)
    <3> DEFINE i == n + k
    <3>1. c \in Seq(B) /\ FirstSolid(B, c, i) /\ i > 1
      BY <2>2, <2>5, <2>6
    <3> HIDE DEF c, i
    <3>2. Words(c, w) = Words(Rest(c, i - 1), w)
      BY <3>1, BlanksLead
    <3>3. i - 1 = n + k - 1
      BY <2>2, <2>6 DEF i
    <3> QED BY <3>2, <3>3
  <2>8. CASE k > 1
    <3> DEFINE i == k - 2
    <3>1. i \in 0..Len(y) /\ n + i + 1 = n + k - 1 /\ i + 1 = k - 1
      <4> HIDE DEF n
      <4> QED BY <2>3, <2>4, <2>6, <2>8
    <3> HIDE DEF i
    <3>2. Rest(Cat(x, y), Len(x) + i + 1) = Rest(y, i + 1)
      BY <1>1, <3>1, RestBehind
    <3>3. Words(y, w) = Words(Rest(y, k - 1), w)
      BY <2>1, <2>8, BlanksLead
    <3> QED BY <2>7, <3>1, <3>2, <3>3
  <2>9. CASE k = 1
    <3> DEFINE m == n - 1
               q == Rest(x, m + 1)
               z == Rest(c, n)
    <3>1. m \in 0..n /\ m + 1 = n /\ n + k - 1 = n
      <4> HIDE DEF n
      <4> QED BY <2>4, <2>9
    <3>2. q \in Seq(B) /\ z = Cat(q, y)
      <4>1. m \in 0..Len(x)
        BY <3>1
      <4> HIDE DEF m, n
      <4>2. Rest(x, m + 1) \in Seq(B) /\ Rest(Cat(x, y), m + 1) = Cat(Rest(x, m + 1), y)
        BY <1>1, <4>1, RestCat
      <4> QED BY <3>1, <4>2
    <3>3. Len(q) = 1 /\ q[1] = Newline
      <4>1. n \in 1..Len(x) + 1 /\ Len(x) + 1 - n = 1 /\ n + 1 - 1 = n /\ 1 \in 1..Len(x) + 1 - n
        BY <2>4
      <4> HIDE DEF n
      <4>2. /\ Len(Rest(x, n)) = Len(x) + 1 - n
            /\ \A j \in 1..Len(x) + 1 - n : Rest(x, n)[j] = x[n + j - 1]
        BY <1>1, <4>1, RestIs
      <4>3. Rest(x, n)[1] = x[n + 1 - 1]
        BY <4>1, <4>2
      <4> QED BY <2>4, <3>1, <4>1, <4>2, <4>3
    <3> HIDE DEF q, z
    <3>4. /\ z \in Seq(B) /\ Len(z) = 1 + Len(y) /\ z[1] = Newline /\ z[2] = y[1]
          /\ Rest(z, 2) = y
      <4>1. q \in Seq(B) /\ y \in Seq(B)
        BY <3>2
      <4>2. /\ Cat(q, y) \in Seq(B) /\ Len(Cat(q, y)) = Len(q) + Len(y)
            /\ Len(q) \in Nat /\ Len(y) \in Nat
            /\ \A j \in 1..Len(q) : Cat(q, y)[j] = q[j]
            /\ \A j \in 1..Len(y) : Cat(q, y)[Len(q) + j] = y[j]
            /\ Rest(Cat(q, y), Len(q) + 1) = y
        <5>1. /\ Cat(q, y) \in Seq(B) /\ Len(Cat(q, y)) = Len(q) + Len(y)
              /\ Len(q) \in Nat /\ Len(y) \in Nat
          BY ONLY <4>1, CatParts, Zenon
        <5>2. \A j \in 1..Len(q) : Cat(q, y)[j] = q[j]
          BY ONLY <4>1, CatParts, Zenon
        <5>3. /\ \A j \in 1..Len(y) : Cat(q, y)[Len(q) + j] = y[j]
              /\ Rest(Cat(q, y), Len(q) + 1) = y
          BY ONLY <4>1, CatParts, Zenon
        <5> QED BY ONLY <5>1, <5>2, <5>3
      <4>3. 1 \in 1..Len(q) /\ 1 \in 1..Len(y) /\ Len(q) + 1 = 2
        BY <2>2, <2>3, <3>3
      <4> QED BY <3>2, <3>3, <4>2, <4>3
    <3>5. z # << >> /\ 1 < Len(z) /\ 1 \in 1..Len(z)
      BY <2>2, <2>3, <3>4
    <3>6. Kind(z[1]) = "blank" /\ z[1] # Space /\ Kind(z[2]) # "blank"
      BY <2>3, <2>9, <3>4, NewlineIs
    <3>7. HeadOf(z) = 1
      BY <3>6 DEF HeadOf
    <3>8. IsRun(z, 1, 1)
      BY <3>5, <3>6 DEF IsRun
    <3>9. Run(z, 1) = 1
      BY <3>4, <3>5, <3>8, RunIs
    <3>10. WordEnd(z, 1) = 1
      <4>1. WordEnd(z, 1) = IF Kind(z[1]) # "blank" \/ Run(z, 1) \in {Len(z), 1} THEN Run(z, 1) ELSE Run(z, 1) - 1
        BY <3>4, <3>5, <3>7, WordIs
      <4> QED BY <3>9, <4>1
    <3>11. SubSeq(z, 1, 1) \in Seq(Blanks(B))
      <4> DEFINE u == SubSeq(z, 1, 1)
      <4>1. 1 \in 0..Len(z)
        BY <3>5
      <4>2. u \in Seq(B) /\ Len(u) = 1
        BY <3>4, <4>1, FirstIs
      <4>3. u[1] = z[1]
        BY <3>4, <3>5
      <4> HIDE DEF u
      <4>4. \A j \in 1..Len(u) : Kind(u[j]) = "blank"
        BY <3>6, <4>2, <4>3
      <4> QED BY <4>2, <4>4, BlankIs DEF u
    <3>12. Words(z, w) = Words(Rest(z, 1 + 1), w)
      BY <3>4, <3>5, <3>10, <3>11, BlankStep
    <3>13. Rest(z, 1 + 1) = y /\ Words(c, w) = Words(z, w)
      BY <2>7, <3>1, <3>4 DEF z
    <3> QED BY <3>12, <3>13
  <2> QED BY <2>6, <2>8, <2>9
<1> QED BY <1>2, <1>3

\* The words of lines and what follows them are the words of both.
LEMMA LineWords ==
  ASSUME NEW B, NEW w, SolidWord(B, w), NEW y \in Seq(B)
  PROVE  /\ SolidWord(B, w) /\ y \in Seq(B)
         /\ \A x \in Seq(B) : x = << >> \/ EndsLine(x) =>
              Words(Cat(x, y), w) = Words(x, w) + Words(y, w)
<1> DEFINE Q == {x \in Seq(B) : x = << >> \/ EndsLine(x) =>
                   Words(Cat(x, y), w) = Words(x, w) + Words(y, w)}
<1>0. Words(y, w) \in Nat
  <2> DEFINE W == Seq(B)
  <2>1. WordsOf(y) \in Seq(W)
    BY WordsSteps
  <2> HIDE DEF W
  <2> QED BY <2>1, CountType DEF Words
<1>1. ASSUME NEW x \in Seq(B), \A t \in Seq(B) : Len(t) < Len(x) => t \in Q PROVE x \in Q
  <2> SUFFICES ASSUME x = << >> \/ EndsLine(x) PROVE Words(Cat(x, y), w) = Words(x, w) + Words(y, w)
    OBVIOUS
  <2>1. CASE x = << >>
    <3>1. Words(x, w) = 0
      BY <2>1, WordsSteps, ShortCounts DEF Words
    <3>2. Cat(x, y) = y
      BY <2>1, ConsAlgebra
    <3> QED BY <1>0, <3>1, <3>2
  <2>2. CASE x # << >> /\ x \in Seq(Blanks(B))
    <3>1. Words(Cat(x, y), w) = Words(y, w)
      BY <2>2, BlankBefore
    <3>2. Words(x, w) = 0
      BY <2>2, BlankWords
    <3> QED BY <1>0, <3>1, <3>2
  <2>3. CASE x # << >> /\ x \notin Seq(Blanks(B))
    <3> DEFINE e == WordEnd(x, 1)
               c == Cat(x, y)
               r == Rest(x, e + 1)
               u == SubSeq(x, 1, e)
    <3>1. c \in Seq(B) /\ WordEnd(c, 1) = e /\ e \in 1..Len(x) /\ e < Len(x)
      BY <2>3, LineWord
    <3>2. c # << >>
      BY <2>3, ConsAlgebra
    <3>3. e \in 0..Len(x) /\ 1 + e = e + 1 /\ Len(x) \in Nat
      BY <3>1
    <3>4. /\ Words(x, w) = UnitCount(SegmentsOf(u), w) + Words(r, w)
          /\ Words(x, w) \in Nat /\ Words(r, w) \in Nat /\ UnitCount(SegmentsOf(u), w) \in Nat
      <4>1. LET f == WordEnd(x, 1)
            IN /\ Words(x, w) = UnitCount(SegmentsOf(SubSeq(x, 1, f)), w) + Words(Rest(x, 1 + f), w)
               /\ Words(x, w) \in Nat /\ Words(Rest(x, 1 + f), w) \in Nat
               /\ UnitCount(SegmentsOf(SubSeq(x, 1, f)), w) \in Nat
        BY <2>3, WordsStep
      <4> QED BY <3>3, <4>1
    <3>5. Words(c, w) = UnitCount(SegmentsOf(SubSeq(c, 1, e)), w) + Words(Rest(c, e + 1), w)
      <4> HIDE DEF c
      <4>1. LET f == WordEnd(c, 1)
            IN Words(c, w) = UnitCount(SegmentsOf(SubSeq(c, 1, f)), w) + Words(Rest(c, 1 + f), w)
        BY <3>1, <3>2, WordsStep
      <4> QED BY <3>1, <3>3, <4>1
    <3>6. SubSeq(c, 1, e) = u /\ Rest(c, e + 1) = Cat(r, y) /\ r \in Seq(B)
      <4> HIDE DEF e
      <4> QED BY <3>3, RestCat
    <3>7. EndsLine(r)
      <4> HIDE DEF e
      <4> QED BY <2>3, <3>1, <3>3, LineRest
    <3>8. Len(r) < Len(x)
      <4>1. e + 1 \in 1..Len(x) + 1 /\ Len(x) + 1 - (e + 1) = Len(x) - e /\ Len(x) - e < Len(x)
        <5> HIDE DEF e
        <5> QED BY <3>1, <3>3
      <4> HIDE DEF e
      <4> QED BY <4>1, RestIs
    <3>9. Words(Cat(r, y), w) = Words(r, w) + Words(y, w)
      <4>1. r \in Q
        BY <1>1, <3>6, <3>8
      <4> QED BY <3>7, <4>1
    <3> DEFINE g == UnitCount(SegmentsOf(u), w)
    <3>10. Words(c, w) = g + (Words(r, w) + Words(y, w)) /\ Words(x, w) = g + Words(r, w)
      BY <3>4, <3>5, <3>6, <3>9
    <3>11. g \in Nat /\ Words(r, w) \in Nat
      BY <3>4
    <3> HIDE DEF g, r, u, e
    <3> QED BY <1>0, <3>10, <3>11 DEF c
  <2> QED BY <2>1, <2>2, <2>3
<1>2. \A x \in Seq(B) : x \in Q
  <2> HIDE DEF Q
  <2> QED BY <1>1, SeqInd
<1> QED BY <1>2

\* The words of a text that has special tokens in it.
Said(B, sp, s) == Mapped(TextsOf(B), Mapped(WordPieces(B), SplitSpecial(s, sp)))

\* How often a piece has a word.
Heard(p, w) == IF p.special THEN 0 ELSE Words(p.text, w)

\* The words of a piece.
LEMMA PieceWords ==
  ASSUME NEW B, NEW p \in Piece(B)
  PROVE  /\ WordPieces(B)[p] \in Seq(Piece(B))
         /\ Mapped(TextsOf(B), WordPieces(B)[p]) \in Seq(Seq(B))
         /\ p.special => Mapped(TextsOf(B), WordPieces(B)[p]) = << >>
         /\ ~p.special => Mapped(TextsOf(B), WordPieces(B)[p]) = WordsOf(p.text)
<1> DEFINE P == Piece(B)
           W == Seq(B)
           o == TextsOf(B)
           q == WordPieces(B)[p]
<1>1. Maps(WordPieces(B), P, P) /\ Maps(o, P, W)
  BY ListingMaps
<1>2. q \in Seq(P)
  BY <1>1 DEF Maps
<1>3. Mapped(o, q) \in Seq(W)
  <2> HIDE DEF P, W, o, q
  <2> QED BY <1>1, <1>2, MapCat
<1>4. CASE p.special
  <2>1. q = <<p>>
    BY <1>4 DEF WordPieces
  <2>2. o[p] = << >>
    BY <1>4 DEF TextsOf
  <2>3. p \in P
    OBVIOUS
  <2> HIDE DEF P, W, o, q
  <2>4. Mapped(o, <<p>>) = o[p]
    BY <1>1, <2>3, MapCat
  <2> QED BY <1>2, <1>3, <1>4, <2>1, <2>2, <2>4 DEF P, W, o, q
<1>5. CASE ~p.special
  <2> DEFINE ws == WordsOf(p.text)
             h == [x \in W |-> <<x>>]
  <2>1. q = [k \in DOMAIN ws |-> OrdinaryPiece(ws[k])]
    BY <1>5 DEF WordPieces
  <2>2. ws \in Seq(W)
    <3>1. p.text \in Seq(B)
      BY DEF Piece
    <3> QED BY <3>1, WordsSteps
  <2>3. \A x \in W : h[x] = <<x>> /\ o[OrdinaryPiece(x)] = <<x>>
    BY DEF OrdinaryPiece, TextsOf, Piece
  <2> HIDE DEF h, o, q, ws, W
  <2>4. DOMAIN q = DOMAIN ws /\ \A k \in DOMAIN ws : ws[k] \in W /\ q[k] = OrdinaryPiece(ws[k])
    BY <2>1, <2>2
  <2>5. \A k \in DOMAIN ws : o[q[k]] = h[ws[k]]
    BY <2>3, <2>4
  <2>6. [k \in DOMAIN q |-> o[q[k]]] = [k \in DOMAIN ws |-> h[ws[k]]]
    BY <2>4, <2>5
  <2>7. Mapped(o, q) = Mapped(h, ws)
    BY <2>6 DEF Mapped
  <2>8. Mapped(h, ws) = ws
    BY <2>2, <2>3, MapSingles
  <2> QED BY <1>2, <1>3, <1>5, <2>7, <2>8 DEF o, q, ws, W
<1> QED BY <1>4, <1>5

\* How the words go on behind the first piece.
LEMMA SaidStep ==
  ASSUME NEW B, NEW sp, Tokens(B, sp), NEW w
  PROVE  /\ Tokens(B, sp) /\ UnitCount(Said(B, sp, << >>), w) = 0
         /\ \A s \in Seq(B) : Said(B, sp, s) \in Seq(Seq(B)) /\ UnitCount(Said(B, sp, s), w) \in Nat
         /\ \A s \in Seq(B) : s # << >> =>
              /\ Heard(FirstPiece(sp, s), w) \in Nat
              /\ UnitCount(Said(B, sp, s), w)
                   = Heard(FirstPiece(sp, s), w)
                     + UnitCount(Said(B, sp, Rest(s, 1 + FirstStep(sp, s))), w)
<1> DEFINE P == Piece(B)
           W == Seq(B)
           f == WordPieces(B)
           o == TextsOf(B)
<1>1. Maps(f, P, P) /\ Maps(o, P, W)
  BY ListingMaps
<1>2. /\ Mapped(f, << >>) = << >> /\ \A s \in Seq(P) : Mapped(f, s) \in Seq(P)
      /\ \A x \in P, s \in Seq(P) : Mapped(f, Onto(x, s)) = Cat(f[x], Mapped(f, s))
  <2> HIDE DEF P, f
  <2> QED BY <1>1, MapCat
<1>3. /\ Mapped(o, << >>) = << >> /\ \A s \in Seq(P) : Mapped(o, s) \in Seq(W)
      /\ \A s, t \in Seq(P) : Mapped(o, Cat(s, t)) = Cat(Mapped(o, s), Mapped(o, t))
  <2> HIDE DEF P, W, o
  <2> QED BY <1>1, MapCat
<1>4. /\ SplitSpecial(<< >>, sp) = << >> /\ \A s \in Seq(B) : SplitSpecial(s, sp) \in Seq(P)
      /\ \A s \in Seq(B) : s # << >> =>
           /\ Rest(s, 1 + FirstStep(sp, s)) \in Seq(B) /\ FirstPiece(sp, s) \in P
           /\ SplitSpecial(s, sp)
                = Onto(FirstPiece(sp, s), SplitSpecial(Rest(s, 1 + FirstStep(sp, s)), sp))
  BY SplitSteps
<1>5. \A x \in P : /\ f[x] \in Seq(P) /\ Mapped(o, f[x]) \in Seq(W)
                   /\ x.special => Mapped(o, f[x]) = << >>
                   /\ ~x.special => Mapped(o, f[x]) = WordsOf(x.text)
  BY PieceWords
<1>6. \A s \in Seq(B) : Said(B, sp, s) = Mapped(o, Mapped(f, SplitSpecial(s, sp)))
  BY DEF Said
<1>e. << >> \in Seq(B)
  OBVIOUS
<1> HIDE DEF P, W, f, o
<1>7. UnitCount(Said(B, sp, << >>), w) = 0
  <2>1. Said(B, sp, << >>) = << >>
    BY <1>2, <1>3, <1>4, <1>6, <1>e
  <2> QED BY <2>1, ShortCounts
<1>8. ASSUME NEW s \in Seq(B) PROVE Said(B, sp, s) \in Seq(W) /\ UnitCount(Said(B, sp, s), w) \in Nat
  <2>1. Said(B, sp, s) \in Seq(W)
    BY <1>2, <1>3, <1>4, <1>6
  <2> QED BY <2>1, CountType
<1>9. ASSUME NEW s \in Seq(B), s # << >>
      PROVE  /\ Heard(FirstPiece(sp, s), w) \in Nat
             /\ UnitCount(Said(B, sp, s), w)
                  = Heard(FirstPiece(sp, s), w)
                    + UnitCount(Said(B, sp, Rest(s, 1 + FirstStep(sp, s))), w)
  <2> DEFINE r == Rest(s, 1 + FirstStep(sp, s))
             x == FirstPiece(sp, s)
             a == Mapped(o, f[x])
             z == Said(B, sp, r)
  <2>1. r \in Seq(B) /\ x \in P /\ SplitSpecial(s, sp) = Onto(x, SplitSpecial(r, sp))
        /\ SplitSpecial(r, sp) \in Seq(P)
    BY <1>4, <1>9
  <2> HIDE DEF x, r
  <2>2. Said(B, sp, s) = Cat(a, z)
    <3> DEFINE t == SplitSpecial(r, sp)
    <3>1. t \in Seq(P) /\ f[x] \in Seq(P) /\ Mapped(f, t) \in Seq(P)
      BY <1>2, <1>5, <2>1
    <3>2. SplitSpecial(s, sp) = Onto(x, t) /\ z = Mapped(o, Mapped(f, t))
      BY <1>6, <2>1
    <3> HIDE DEF t, z
    <3>3. Mapped(f, Onto(x, t)) = Cat(f[x], Mapped(f, t))
      BY <1>2, <2>1, <3>1
    <3>4. Mapped(o, Cat(f[x], Mapped(f, t))) = Cat(a, Mapped(o, Mapped(f, t)))
      BY <1>3, <3>1
    <3> QED BY <1>6, <3>2, <3>3, <3>4
  <2>3. a \in Seq(W) /\ z \in Seq(W)
    BY <1>5, <1>8, <2>1
  <2>4. UnitCount(a, w) = Heard(x, w)
    <3>1. CASE x.special
      <4>1. a = << >>
        BY <1>5, <2>1, <3>1
      <4> QED BY <3>1, <4>1, ShortCounts DEF Heard
    <3>2. CASE ~x.special
      <4>1. a = WordsOf(x.text)
        BY <1>5, <2>1, <3>2
      <4> QED BY <3>2, <4>1 DEF Heard, Words
    <3> QED BY <3>1, <3>2
  <2> HIDE DEF a, z
  <2>5. UnitCount(a \o z, w) = UnitCount(a, w) + UnitCount(z, w) /\ UnitCount(a, w) \in Nat
    BY <2>3, UnitCountConcat, CountType
  <2> QED BY <2>2, <2>4, <2>5 DEF Cat, x, z, r
<1> QED BY <1>7, <1>8, <1>9 DEF W

\* No token has a newline in it.
Unlined(sp) == \A t \in DOMAIN sp : Newline \notin Elements(sp[t])

\* A token that begins in a line ends in front of the newline.
LEMMA TokenInLine ==
  ASSUME NEW B, NEW sp, Tokens(B, sp), Unlined(sp), NEW a \in Seq(B), EndsLine(a), NEW b \in Seq(B),
         NEW j \in 1..Len(a), NEW k \in MatchesAt(Cat(a, b), sp, j)
  PROVE  a \in Seq(B) /\ b \in Seq(B) /\ Unlined(sp) /\ j - 1 + Len(sp[k]) < Len(a)
<1> DEFINE c == Cat(a, b)
           n == Len(a)
           p == j - 1
           u == sp[k]
           m == Len(u)
<1>1. /\ Cat(a, b) \in Seq(B) /\ Len(a) \in Nat /\ \A i \in 1..Len(a) : Cat(a, b)[i] = a[i]
  <2>1. a \in Seq(B) /\ b \in Seq(B)
    OBVIOUS
  <2> QED BY ONLY <2>1, CatParts, Zenon
<1>2. k \in DOMAIN sp /\ p \in Occurrences(u, c)
  BY DEF MatchesAt
<1>3. u \in Seq(B) /\ Newline \notin Elements(u) /\ m \in Nat /\ p \in Nat
  BY <1>2 DEF Tokens, Unlined
<1>4. c \in Seq(B) /\ u \in Seq(B)
  BY <1>1, <1>3
<1> HIDE DEF c, u, p
<1>5. \A i \in 1..m : c[p + i] = u[i]
  BY <1>2, <1>3, <1>4, OccursAt
<1>6. n >= 1 /\ a[n] = Newline /\ n \in Nat /\ c[n] = a[n]
  BY <1>1 DEF EndsLine, c
<1>7. p < n /\ p = j - 1
  BY DEF p
<1>8. ~(p + m >= n)
  <2> SUFFICES ASSUME p + m >= n PROVE FALSE
    OBVIOUS
  <2> DEFINE i == n - p
  <2>1. i \in 1..m /\ p + i = n
    <3> HIDE DEF n, m
    <3> QED BY <1>3, <1>6, <1>7
  <2>2. u[i] = Newline
    <3> HIDE DEF i, n, m
    <3> QED BY <1>5, <1>6, <2>1
  <2>3. u[i] \in Elements(u)
    BY <1>3, <2>1 DEF Elements
  <2> QED BY <1>3, <2>2, <2>3
<1> HIDE DEF n, m
<1>9. p + m < n
  BY <1>3, <1>6, <1>8
<1> QED BY <1>7, <1>9 DEF n, m, u

\* A line that a token begins in is split as if it were all.
LEMMA LineSplit ==
  ASSUME NEW B, NEW sp, Tokens(B, sp), Unlined(sp), NEW a \in Seq(B), EndsLine(a), NEW b \in Seq(B),
         NextStart(sp, Cat(a, b)) <= Len(a)
  PROVE  /\ a \in Seq(B) /\ b \in Seq(B) /\ Unlined(sp)
         /\ FirstPiece(sp, Cat(a, b)) = FirstPiece(sp, a)
         /\ FirstStep(sp, Cat(a, b)) = FirstStep(sp, a)
         /\ FirstStep(sp, a) \in 1..Len(a) /\ FirstStep(sp, a) < Len(a)
<1> DEFINE c == Cat(a, b)
           n == Len(a)
           N == NextStart(sp, c)
<1>1. /\ Cat(a, b) \in Seq(B) /\ Len(Cat(a, b)) = Len(a) + Len(b)
      /\ Len(a) \in Nat /\ Len(b) \in Nat
      /\ \A k \in 0..Len(a) : SubSeq(Cat(a, b), 1, k) = SubSeq(a, 1, k)
  <2>1. a \in Seq(B) /\ b \in Seq(B)
    OBVIOUS
  <2>2. \A k \in 0..Len(a) : SubSeq(Cat(a, b), 1, k) = SubSeq(a, 1, k)
    BY <2>1, CatParts
  <2>3. /\ Cat(a, b) \in Seq(B) /\ Len(Cat(a, b)) = Len(a) + Len(b)
        /\ Len(a) \in Nat /\ Len(b) \in Nat
    BY ONLY <2>1, CatParts, Zenon
  <2> QED BY <2>2, <2>3
<1>2. c \in Seq(B)
  BY <1>1
<1>3. n \in Nat /\ n >= 1 /\ a # << >>
  BY <1>1 DEF EndsLine
<1> HIDE DEF c
<1>4. /\ N \in 1..Len(c) + 1 /\ \A j \in 1..Len(c) : j < N => MatchesAt(c, sp, j) = {}
      /\ N <= Len(c) => MatchesAt(c, sp, N) # {}
  BY <1>2, NextStartIs
<1> HIDE DEF N
<1>5. N \in 1..n /\ N <= Len(c)
  BY <1>1, <1>3, <1>4 DEF N, c
<1>6. ASSUME NEW j \in 1..n
      PROVE  /\ MatchesAt(a, sp, j) \subseteq MatchesAt(c, sp, j)
             /\ MatchesAt(c, sp, j) \subseteq MatchesAt(a, sp, j)
  <2>1. /\ MatchesAt(a, sp, j) \subseteq MatchesAt(c, sp, j)
        /\ \A k \in MatchesAt(c, sp, j) : j - 1 + Len(sp[k]) <= Len(a) => k \in MatchesAt(a, sp, j)
    BY MatchesFront DEF c
  <2>2. ASSUME NEW k \in MatchesAt(c, sp, j) PROVE k \in MatchesAt(a, sp, j)
    <3>1. j - 1 + Len(sp[k]) < Len(a)
      BY TokenInLine DEF c
    <3>2. k \in DOMAIN sp
      BY DEF MatchesAt
    <3>3. Len(sp[k]) \in Nat
      BY <3>2 DEF Tokens
    <3>4. j - 1 + Len(sp[k]) <= Len(a)
      BY <1>3, <3>1, <3>3
    <3> QED BY <2>1, <3>4
  <2> QED BY <2>1, <2>2
<1>7. NextStart(sp, a) = N
  <2>1. MatchesAt(a, sp, N) # {} /\ N \in 1..Len(a) + 1
    BY <1>3, <1>4, <1>5, <1>6
  <2>2. ASSUME NEW j \in 1..Len(a), j < N PROVE MatchesAt(a, sp, j) = {}
    <3>1. j \in 1..Len(c)
      BY <1>4, <1>5, <2>2
    <3> QED BY <1>4, <1>6, <2>2, <3>1
  <2> QED BY <2>1, <2>2, NextStartIs
<1>8. CASE N = 1
  <2> DEFINE k == Min(MatchesAt(c, sp, 1))
  <2>1. /\ k \in MatchesAt(c, sp, 1) /\ TokenAt(sp, c) = sp[k]
        /\ Len(TokenAt(sp, c)) \in 1..Len(c)
    BY <1>2, <1>4, <1>5, <1>8, TokenAtIs DEF TokenAt
  <2> HIDE DEF k
  <2>2. 1 \in 1..Len(a) /\ k \in MatchesAt(Cat(a, b), sp, 1)
    BY <1>3, <2>1 DEF c
  <2>3. 1 - 1 + Len(sp[k]) < Len(a)
    BY <2>2, TokenInLine
  <2>4. Len(TokenAt(sp, c)) < n /\ Len(TokenAt(sp, c)) \in 1..n
    BY <1>3, <2>1, <2>3
  <2>5. Len(TokenAt(sp, c)) <= n
    BY <1>3, <2>4
  <2>6. TokenAt(sp, a) = TokenAt(sp, c)
    BY <1>3, <1>8, <2>5, TokenFits DEF c, N
  <2> QED BY <1>7, <1>8, <2>4, <2>6 DEF FirstPiece, FirstStep, N, c
<1>9. CASE N # 1
  <2>1. N - 1 \in 1..n /\ N - 1 < n /\ N - 1 \in 0..Len(a)
    BY <1>3, <1>5, <1>9
  <2>2. SubSeq(c, 1, N - 1) = SubSeq(a, 1, N - 1)
    BY <1>1, <2>1 DEF c
  <2> QED BY <1>7, <1>9, <2>1, <2>2 DEF FirstPiece, FirstStep, N, c
<1> QED BY <1>8, <1>9

\* Without a token that begins in it a line is ordinary.
LEMMA LineOrdinary ==
  ASSUME NEW B, NEW sp, Tokens(B, sp), NEW a \in Seq(B), NEW b \in Seq(B),
         NextStart(sp, Cat(a, b)) > Len(a)
  PROVE  /\ Tokens(B, sp) /\ a \in Seq(B) /\ b \in Seq(B)
         /\ NextStart(sp, a) = Len(a) + 1 /\ NextStart(sp, b) \in 1..Len(b) + 1
         /\ NextStart(sp, Cat(a, b)) = Len(a) + NextStart(sp, b)
<1> DEFINE c == Cat(a, b)
           n == Len(a)
           l == Len(b)
           N == NextStart(sp, c)
           M == NextStart(sp, b)
<1>1. /\ Cat(a, b) \in Seq(B) /\ Len(Cat(a, b)) = Len(a) + Len(b)
      /\ Len(a) \in Nat /\ Len(b) \in Nat /\ Rest(Cat(a, b), Len(a) + 1) = b
  <2>1. a \in Seq(B) /\ b \in Seq(B)
    OBVIOUS
  <2> QED BY ONLY <2>1, CatParts, Zenon
<1>2. c \in Seq(B) /\ n \in Nat /\ l \in Nat /\ Len(c) = n + l /\ Rest(c, n + 1) = b
  BY <1>1
<1> HIDE DEF c
<1>3. /\ N \in 1..Len(c) + 1 /\ \A j \in 1..Len(c) : j < N => MatchesAt(c, sp, j) = {}
      /\ \A m \in 1..Len(c) + 1 :
           (\A j \in 1..Len(c) : j < m => MatchesAt(c, sp, j) = {})
             /\ (m <= Len(c) => MatchesAt(c, sp, m) # {}) => m = N
  BY <1>2, NextStartIs
<1>4. /\ M \in 1..Len(b) + 1 /\ \A j \in 1..Len(b) : j < M => MatchesAt(b, sp, j) = {}
      /\ M <= Len(b) => MatchesAt(b, sp, M) # {}
  BY NextStartIs
<1>5. N > n
  BY DEF c
<1>6. ASSUME NEW j \in 1..n PROVE MatchesAt(a, sp, j) = {} /\ MatchesAt(c, sp, j) = {}
  <2>1. MatchesAt(a, sp, j) \subseteq MatchesAt(c, sp, j)
    BY MatchesFront DEF c
  <2>2. j \in 1..Len(c) /\ j < N
    <3> HIDE DEF n, l, N
    <3> QED BY <1>2, <1>3, <1>5
  <2> QED BY <1>3, <2>1, <2>2
<1>7. NextStart(sp, a) = n + 1
  <2>1. n + 1 \in 1..Len(a) + 1 /\ ~(n + 1 <= Len(a))
    BY <1>2
  <2>2. \A j \in 1..Len(a) : j < n + 1 => MatchesAt(a, sp, j) = {}
    BY <1>6
  <2> QED BY <2>1, <2>2, NextStartIs
<1>8. ASSUME NEW i \in 1..l + 1 PROVE MatchesAt(b, sp, i) = MatchesAt(c, sp, n + i)
  <2> DEFINE q == n + 1
  <2>1. q \in 1..Len(c) + 1 /\ i \in 1..Len(c) + 2 - q /\ q + i - 1 = n + i
    <3> HIDE DEF n, l
    <3> QED BY <1>2
  <2>2. Rest(c, q) = b
    BY <1>2
  <2> HIDE DEF q, n, l
  <2>m. \A e \in 1..Len(c) + 2 - q : MatchesAt(Rest(c, q), sp, e) = MatchesAt(c, sp, q + e - 1)
    <3>1. c \in Seq(B) /\ q \in 1..Len(c) + 1
      BY <1>2, <2>1
    <3> QED BY <3>1, MatchesShift
  <2>3. MatchesAt(Rest(c, q), sp, i) = MatchesAt(c, sp, q + i - 1)
    BY <2>1, <2>m
  <2> QED BY <2>1, <2>2, <2>3
<1> HIDE DEF N, M
<1>9. n + M = N
  <2> DEFINE m == n + M
  <2>1. m \in 1..Len(c) + 1 /\ M \in 1..l + 1 /\ (m <= Len(c) => M <= l)
    <3> HIDE DEF n
    <3> QED BY <1>2, <1>4
  <2>2. m <= Len(c) => MatchesAt(c, sp, m) # {}
    BY <1>4, <1>8, <2>1
  <2>3. ASSUME NEW j \in 1..Len(c), j < m PROVE MatchesAt(c, sp, j) = {}
    <3>1. CASE j \in 1..n
      BY <1>6, <3>1
    <3>2. CASE j \notin 1..n
      <4> DEFINE i == j - n
      <4>1. i \in 1..l /\ i < M /\ n + i = j /\ i \in 1..l + 1
        <5> HIDE DEF n, l
        <5> QED BY <1>2, <1>4, <2>3, <3>2
      <4> HIDE DEF i
      <4>2. MatchesAt(b, sp, i) = {} /\ MatchesAt(b, sp, i) = MatchesAt(c, sp, n + i)
        BY <1>4, <1>8, <4>1
      <4> QED BY <4>1, <4>2
    <3> QED BY <3>1, <3>2
  <2> HIDE DEF m
  <2>4. m = N
    BY <1>3, <2>1, <2>2, <2>3
  <2> QED BY <2>4 DEF m
<1> QED BY <1>4, <1>7, <1>9 DEF N, M, c

\* How often a word is said.
Tally(B, sp, s, w) == UnitCount(Said(B, sp, s), w)

\* A text is ordinary up to its first token.
LEMMA OrdinaryStep ==
  ASSUME NEW B, NEW sp, Tokens(B, sp), NEW w, NEW s \in Seq(B), NEW k \in 1..Len(s),
         NextStart(sp, s) = k + 1
  PROVE  /\ s \in Seq(B)
         /\ Tally(B, sp, s, w) = Words(SubSeq(s, 1, k), w) + Tally(B, sp, Rest(s, k + 1), w)
<1>1. s # << >> /\ k + 1 # 1 /\ 1 + k = k + 1 /\ k + 1 - 1 = k
  OBVIOUS
<1>2. FirstStep(sp, s) = k /\ FirstPiece(sp, s) = OrdinaryPiece(SubSeq(s, 1, k))
  BY <1>1 DEF FirstStep, FirstPiece
<1>3. Heard(FirstPiece(sp, s), w) = Words(SubSeq(s, 1, k), w)
  BY <1>2 DEF Heard, OrdinaryPiece
<1>4. \A t \in Seq(B) : t # << >> =>
        UnitCount(Said(B, sp, t), w)
          = Heard(FirstPiece(sp, t), w) + UnitCount(Said(B, sp, Rest(t, 1 + FirstStep(sp, t))), w)
  BY SaidStep
<1>5. UnitCount(Said(B, sp, s), w)
        = Heard(FirstPiece(sp, s), w) + UnitCount(Said(B, sp, Rest(s, 1 + FirstStep(sp, s))), w)
  BY <1>1, <1>4
<1> QED BY <1>1, <1>2, <1>3, <1>5 DEF Tally

\* Behind a newline, what a text says is added.
LEMMA LineSaid ==
  ASSUME NEW B, NEW sp, Tokens(B, sp), Unlined(sp), NEW w, SolidWord(B, w), NEW b \in Seq(B)
  PROVE  /\ Unlined(sp) /\ SolidWord(B, w) /\ b \in Seq(B)
         /\ \A a \in Seq(B) : a = << >> \/ EndsLine(a) =>
              Tally(B, sp, Cat(a, b), w) = Tally(B, sp, a, w) + Tally(B, sp, b, w)
<1> DEFINE T(s) == Tally(B, sp, s, w)
           Q == {a \in Seq(B) : a = << >> \/ EndsLine(a) => T(Cat(a, b)) = T(a) + T(b)}
<1>1. /\ T(<< >>) = 0 /\ \A s \in Seq(B) : T(s) \in Nat
      /\ \A s \in Seq(B) : s # << >> =>
           /\ Heard(FirstPiece(sp, s), w) \in Nat
           /\ T(s) = Heard(FirstPiece(sp, s), w) + T(Rest(s, 1 + FirstStep(sp, s)))
  BY SaidStep DEF Tally
<1>2. \A s \in Seq(B) : \A k \in 1..Len(s) :
        NextStart(sp, s) = k + 1 => T(s) = Words(SubSeq(s, 1, k), w) + T(Rest(s, k + 1))
  BY OrdinaryStep
<1>3. \A y, x \in Seq(B) : x = << >> \/ EndsLine(x) => Words(Cat(x, y), w) = Words(x, w) + Words(y, w)
  BY LineWords
<1>4. \A s \in Seq(B) : Words(s, w) \in Nat
  <2> SUFFICES ASSUME NEW s \in Seq(B) PROVE Words(s, w) \in Nat
    OBVIOUS
  <2> DEFINE W == Seq(B)
  <2>1. WordsOf(s) \in Seq(W)
    BY WordsSteps
  <2> HIDE DEF W
  <2> QED BY <2>1, CountType DEF Words
<1> HIDE DEF T
<1>5. ASSUME NEW a \in Seq(B), \A t \in Seq(B) : Len(t) < Len(a) => t \in Q PROVE a \in Q
  <2> SUFFICES ASSUME a = << >> \/ EndsLine(a) PROVE T(Cat(a, b)) = T(a) + T(b)
    OBVIOUS
  <2> DEFINE c == Cat(a, b)
             n == Len(a)
  <2>0. /\ Cat(a, b) \in Seq(B) /\ Len(Cat(a, b)) = Len(a) + Len(b)
        /\ Len(a) \in Nat /\ Len(b) \in Nat
    <3>1. a \in Seq(B) /\ b \in Seq(B)
      OBVIOUS
    <3> QED BY ONLY <3>1, CatParts, Zenon
  <2>1. CASE a = << >>
    <3>1. T(a) = 0 /\ c = b /\ T(b) \in Nat
      BY <1>1, <2>1, ConsAlgebra
    <3> HIDE DEF c
    <3> QED BY <3>1 DEF c
  <2>2. CASE a # << >> /\ NextStart(sp, c) <= n
    <3> DEFINE e == FirstStep(sp, a)
               r == Rest(a, e + 1)
               g == Heard(FirstPiece(sp, a), w)
    <3>1. /\ FirstPiece(sp, c) = FirstPiece(sp, a) /\ FirstStep(sp, c) = e
          /\ e \in 1..n /\ e < n /\ EndsLine(a)
      BY <2>2, LineSplit
    <3>2. c # << >> /\ c \in Seq(B)
      BY <2>0, <2>2, ConsAlgebra
    <3>3. e \in 0..Len(a) /\ 1 + e = e + 1
      BY <3>1
    <3> HIDE DEF e, c
    <3>4. Rest(c, e + 1) = Cat(r, b) /\ r \in Seq(B)
      BY <3>3, RestCat DEF c
    <3>5. EndsLine(r)
      BY <3>1, <3>3, LineRest
    <3>6. Len(r) < n
      <4>1. e + 1 \in 1..Len(a) + 1 /\ Len(a) + 1 - (e + 1) = Len(a) - e /\ Len(a) - e < Len(a)
        BY <2>0, <3>1, <3>3
      <4> QED BY <4>1, RestIs
    <3>7. T(Cat(r, b)) = T(r) + T(b)
      <4>1. r \in Q
        BY <1>5, <3>4, <3>6
      <4> QED BY <3>5, <4>1
    <3>8. T(a) = g + T(r) /\ g \in Nat
      BY <1>1, <2>2, <3>3 DEF e
    <3>9. T(c) = g + T(Cat(r, b))
      BY <1>1, <3>1, <3>2, <3>3, <3>4
    <3>10. T(r) \in Nat /\ T(b) \in Nat
      BY <1>1, <3>4
    <3> HIDE DEF g, r
    <3> QED BY <3>7, <3>8, <3>9, <3>10 DEF c
  <2>3. CASE a # << >> /\ ~(NextStart(sp, c) <= n)
    <3> DEFINE M == NextStart(sp, b)
               m == M - 1
               y == SubSeq(b, 1, m)
               z == Rest(b, m + 1)
    <3>1. c \in Seq(B) /\ n \in Nat /\ n >= 1 /\ EndsLine(a) /\ Len(c) = n + Len(b)
      BY <2>0, <2>3
    <3>2. NextStart(sp, c) > n
      <4>1. NextStart(sp, c) \in 1..Len(c) + 1
        BY <3>1, NextStartIs
      <4> HIDE DEF c, n
      <4> QED BY <2>3, <3>1, <4>1
    <3>3. NextStart(sp, a) = n + 1 /\ M \in 1..Len(b) + 1 /\ NextStart(sp, c) = n + M
      BY <3>2, LineOrdinary
    <3> HIDE DEF M
    <3>4. m \in 0..Len(b) /\ n + m \in 1..Len(c) /\ NextStart(sp, c) = n + m + 1 /\ M = m + 1 /\ m \in Nat
      <4> HIDE DEF c, n
      <4> QED BY <2>0, <3>1, <3>3
    <3>5. T(a) = Words(a, w)
      <4>1. n \in 1..Len(a) /\ NextStart(sp, a) = n + 1
        BY <3>1, <3>3
      <4>2. T(a) = Words(SubSeq(a, 1, n), w) + T(Rest(a, n + 1))
        <5> HIDE DEF n
        <5> QED BY <1>2, <4>1
      <4>3. SubSeq(a, 1, n) = a
        OBVIOUS
      <4>4. Rest(a, n + 1) = << >>
        <5>1. n + 1 \in 1..Len(a) + 1 /\ n + 1 = Len(a) + 1
          BY <3>1
        <5> HIDE DEF n
        <5> QED BY <5>1, RestIs
      <4>5. Words(a, w) \in Nat
        BY <1>4
      <4>6. T(Rest(a, n + 1)) = 0
        BY <1>1, <4>4
      <4>7. T(a) = Words(a, w) + 0
        BY <4>2, <4>3, <4>6
      <4> QED BY <4>5, <4>7
    <3> HIDE DEF m
    <3>6. y \in Seq(B) /\ z \in Seq(B) /\ b = Cat(y, z) /\ Len(y) = m
      BY <3>4, FirstIs
    <3>7. T(c) = Words(Cat(a, y), w) + T(z)
      <4> DEFINE k == n + m
      <4>1. k \in 1..Len(c) /\ NextStart(sp, c) = k + 1
        BY <3>4
      <4>2. T(c) = Words(SubSeq(c, 1, k), w) + T(Rest(c, k + 1))
        <5> HIDE DEF c, k
        <5> QED BY <1>2, <3>1, <4>1
      <4>3. Rest(c, k + 1) = z
        <5>1. Rest(Cat(a, b), Len(a) + m + 1) = Rest(b, m + 1)
          BY <3>4, RestBehind
        <5> QED BY <5>1
      <4>4. SubSeq(c, 1, k) = Cat(a, y)
        <5> HIDE DEF y, z
        <5>1. a \in Seq(B) /\ y \in Seq(B) /\ z \in Seq(B)
          BY <3>6
        <5>2. c = Cat(Cat(a, y), z) /\ Cat(a, y) \in Seq(B)
          BY <3>6, <5>1, ConsAlgebra
        <5>3. Len(Cat(a, y)) = Len(a) + Len(y)
          BY ONLY <5>1, CatParts, Zenon
        <5>4. SubSeq(Cat(Cat(a, y), z), 1, Len(Cat(a, y))) = Cat(a, y)
          BY ONLY <5>1, <5>2, CatParts, Zenon
        <5> QED BY <3>6, <5>2, <5>3, <5>4
      <4> QED BY <4>2, <4>3, <4>4
    <3>8. Words(Cat(a, y), w) = Words(a, w) + Words(y, w)
      BY <1>3, <3>1, <3>6
    <3>9. T(b) = Words(y, w) + T(z)
      <4>1. CASE m = 0
        <5>1. y = << >>
          BY <3>6, <4>1
        <5>2. Words(y, w) = 0
          BY <5>1, WordsSteps, ShortCounts DEF Words
        <5>3. z = b /\ T(z) \in Nat
          <6> HIDE DEF y, z
          <6> QED BY <1>1, <3>6, <5>1, ConsAlgebra
        <5> QED BY <5>2, <5>3
      <4>2. CASE m # 0
        <5>1. m \in 1..Len(b) /\ NextStart(sp, b) = m + 1
          BY <3>4, <4>2 DEF M
        <5> QED BY <1>2, <5>1
      <4> QED BY <4>1, <4>2
    <3>10. T(z) \in Nat /\ Words(a, w) \in Nat /\ Words(y, w) \in Nat
      BY <1>1, <1>4, <3>6
    <3> HIDE DEF y, z, c
    <3> QED BY <3>5, <3>7, <3>8, <3>9, <3>10 DEF c
  <2> QED BY <2>1, <2>2, <2>3
<1>6. \A a \in Seq(B) : a \in Q
  <2> HIDE DEF Q
  <2> QED BY <1>5, SeqInd
<1> QED BY <1>6 DEF T

\* Bytes that end with a newline decode to a text that does.
LEMMA LineEnds ==
  ASSUME NEW B, Bytewise(B), NEW q \in Seq(B), q # << >>, q[Len(q)] = Utf8[Newline][1]
  PROVE  q \in Seq(B) /\ EndsLine(Lossy(q))
<1> DEFINE n == Len(q)
           m == n - 1
           a == SubSeq(q, 1, m)
           r == Rest(q, m + 1)
           u == Utf8[Newline]
           C == Chars
<1>1. n \in Nat /\ n >= 1 /\ m \in 0..n /\ m + 1 = n /\ m + 1 # n + 1 /\ m + 1 \in 1..n + 1
  OBVIOUS
<1>2. Newline \in Scalars /\ Newline \in C /\ Len(u) = 1 /\ u \in Seq(B)
  BY ChunksAssumption DEF Bytewise, Chars
<1>3. q[m + 1] \notin Continuation
  BY <1>1, <1>2, Utf8Bytes
<1> HIDE DEF m
<1>4. m \in 0..Len(q) /\ Divides(q, m)
  BY <1>1, <1>3 DEF Divides
<1>5. Clean(B, a, r)
  BY <1>4, DividesCleanly
<1>6. a \in Seq(B) /\ r \in Seq(B) /\ q = Cat(a, r)
  BY <1>4, FirstIs
<1>7. r = u
  <2>1. Len(r) = Len(q) + 1 - (m + 1) /\ \A k \in 1..Len(q) + 1 - (m + 1) : r[k] = q[m + 1 + k - 1]
    BY <1>1, RestIs
  <2>2. Len(q) + 1 - (m + 1) = 1 /\ m + 1 + 1 - 1 = n
    BY <1>1
  <2>a. 1 \in 1..Len(q) + 1 - (m + 1)
    BY <2>2
  <2>b. r[1] = q[m + 1 + 1 - 1]
    BY <2>1, <2>a
  <2>3. Len(r) = 1 /\ r[1] = q[n]
    BY <2>1, <2>2, <2>b
  <2> HIDE DEF r, u, n
  <2>4. \A i \in 1..1 : r[i] = u[i]
    BY <2>3 DEF n, u
  <2> QED BY ONLY <1>2, <1>6, <2>3, <2>4
<1> DEFINE x == Lossy(a)
<1>8. x \in Seq(C) /\ Lossy(<< >>) = << >>
  BY <1>6, LossySteps
<1>9. Lossy(u) = Onto(Newline, << >>)
  <2>1. << >> \in Seq(B) /\ Cat(u, << >>) = u
    BY <1>2, ConsAlgebra
  <2>2. Lossy(Cat(u, << >>)) = Onto(Newline, Lossy(<< >>))
    BY <1>2, <2>1, ScalarDecodes
  <2> QED BY <1>8, <2>1, <2>2
<1>10. Lossy(q) = Cat(x, Onto(Newline, << >>))
  <2> HIDE DEF a, r, u
  <2>1. Lossy(Cat(a, r)) = Cat(Lossy(a), Lossy(r))
    BY <1>5, <1>6, LossyCat
  <2> QED BY <1>6, <1>7, <1>9, <2>1
<1> HIDE DEF x, C
<1> DEFINE t == Onto(Newline, << >>)
<1>11. t \in Seq(C) /\ Len(t) = 1 /\ t[1] = Newline
  BY <1>2 DEF Onto
<1> HIDE DEF t
<1>12. /\ Cat(x, t) \in Seq(C) /\ Len(Cat(x, t)) = Len(x) + Len(t) /\ Len(x) \in Nat
       /\ \A j \in 1..Len(t) : Cat(x, t)[Len(x) + j] = t[j]
  <2>1. x \in Seq(C) /\ t \in Seq(C)
    BY <1>8, <1>11
  <2> QED BY ONLY <2>1, CatParts, Zenon
<1> DEFINE c == Cat(x, t)
<1>13. c \in Seq(C) /\ Len(c) = Len(x) + 1 /\ c[Len(x) + 1] = Newline /\ Len(x) \in Nat
  BY <1>11, <1>12
<1> HIDE DEF c
<1>14. c # << >> /\ c[Len(c)] = Newline
  BY <1>13
<1> QED BY <1>10, <1>14 DEF EndsLine, c, t

\* A file that is cut after newlines is cut into lines.
LEMMA ChunkIsLine ==
  ASSUME CutInv, phase \in {"reading", "done"},
         \A p \in ReadCuts : Byte(p - 1) = Utf8[Newline][1], NEW k \in 1..Len(Cuts) - 1
  PROVE  FileFrom(k + 1) = << >> \/ PieceOf(k) = << >> \/ EndsLine(Lossy(PieceOf(k)))
<1> DEFINE f == job.file
           n == Len(Cuts)
           c == Cuts
<1>0. /\ f \in Seq(JobBytes) /\ Size \in Nat /\ Size = Len(f) /\ Bytewise(JobBytes) /\ job \in Jobs
  BY JobIs DEF CutInv, BoundariesInv, Size
<1>1. /\ c \in Seq(0..Size) /\ n \in Nat /\ n >= 2
      /\ \A i \in 1..n - 1 : c[i] <= c[i + 1]
      /\ chunks = ChunksAt(c)
  BY CutsAre
<1>2. \A i \in 1..n : c[i] \in 0..Size
  <2> DEFINE S == 0..Size
  <2>1. c \in Seq(S) /\ n = Len(c)
    BY <1>1
  <2> HIDE DEF S, c, n
  <2>2. \A i \in 1..n : c[i] \in S
    BY <2>1
  <2> QED BY <2>2 DEF S
<1>3. FileFrom(n) = << >>
  BY ChunkIs
<1> HIDE DEF f, c, n
<1>4. k \in 1..n - 1
  BY DEF n
<1>5. CASE k + 1 = n
  BY <1>3, <1>5
<1>6. CASE k + 1 # n
  <2> DEFINE p == c[k]
             q == c[k + 1]
  <2>1. k \in 1..n /\ k + 1 \in 1..n /\ k + 1 \in 2..n - 1 /\ k + 1 \in 1..n - 1
    BY <1>1, <1>4, <1>6
  <2>2. p \in Nat /\ q \in Nat /\ p <= q /\ q <= Len(f)
    BY <1>0, <1>1, <1>2, <1>4, <2>1
  <2>3. q \in ReadCuts
    <3>1. chunks = [i \in 1..n - 1 |-> [from |-> c[i], to |-> c[i + 1]]]
      BY <1>1 DEF ChunksAt, n, c
    <3>2. chunks[k + 1].from = q /\ Len(chunks) = n - 1
      BY <1>1, <2>1, <3>1
    <3>3. k + 1 \in 2..Len(chunks)
      BY <2>1, <3>2
    <3> QED BY <3>2, <3>3 DEF ReadCuts
  <2> HIDE DEF p, q
  <2>4. f[q] = Utf8[Newline][1]
    <3>1. Byte(q - 1) = f[q - 1 + 1] /\ q - 1 + 1 = q
      BY <2>2 DEF Byte, f
    <3> QED BY <2>3, <3>1
  <2> DEFINE t == SubSeq(f, p + 1, q)
             m == q - p
  <2>5. /\ t \in Seq(JobBytes) /\ Len(t) = q - p
        /\ \A j \in 1..q - p : t[j] = f[p + j]
    BY <1>0, <2>2, PartIs
  <2>6. PieceOf(k) = t
    BY DEF PieceOf, t, p, q, c, f
  <2>7. m \in Nat /\ p + m = q
    BY <2>2
  <2> HIDE DEF t
  <2>8. Len(t) = m /\ \A j \in 1..m : t[j] = f[p + j]
    BY <2>5
  <2> HIDE DEF m
  <2>9. CASE m = 0
    <3>1. t = << >>
      BY <2>5, <2>8, <2>9
    <3> QED BY <2>6, <3>1
  <2>10. CASE m # 0
    <3>1. m \in 1..m
      BY <2>7, <2>10
    <3>2. t # << >> /\ t[Len(t)] = Utf8[Newline][1]
      BY <2>4, <2>5, <2>7, <2>8, <2>10, <3>1
    <3>3. EndsLine(Lossy(t))
      BY <1>0, <2>5, <3>2, LineEnds
    <3> QED BY <2>6, <3>3
  <2> QED BY <2>9, <2>10
<1> QED BY <1>5, <1>6

\* What the chunks list is what the file lists, but for blanks.
LEMMA ListsSay ==
  ASSUME CutInv, phase \in {"reading", "done"}, job.op = "words", Unlined(job.special),
         \A p \in ReadCuts : Byte(p - 1) = Utf8[Newline][1],
         NEW w, SolidWord(Chars, w)
  PROVE  /\ SolidWord(Chars, w)
         /\ FlattenSeq(Lists(job, chunks)) \in Seq(Seq(Chars))
         /\ Listed(job, Lossy(job.file)) \in Seq(Seq(Chars))
         /\ UnitCount(FlattenSeq(Lists(job, chunks)), w) = UnitCount(Listed(job, Lossy(job.file)), w)
<1> DEFINE n == Len(Cuts) - 1
           C == Chars
           W == Seq(C)
           f == Lists(job, chunks)
           T(s) == Tally(C, job.special, s, w)
           P(k) == Lossy(PieceOf(k))
           F(k) == Lossy(FileFrom(k))
<1>0. job \in Jobs
  BY DEF CutInv, BoundariesInv
<1>1. /\ f \in Seq(Seq(Item(C, job.op))) /\ Len(f) = n /\ n \in Nat /\ n >= 1
      /\ \A k \in 1..n : f[k] = Listed(job, P(k))
  BY ListsAre
<1>2. Item(C, job.op) = W
  BY DEF Item
<1>3. Tokens(C, job.special)
  BY <1>0, JobTokens
<1>4. \A s \in Seq(C) : Listed(job, s) = Said(C, job.special, s)
  BY <1>3, ListedIs DEF Said
<1>5. T(<< >>) = 0 /\ \A s \in Seq(C) : Said(C, job.special, s) \in Seq(W) /\ T(s) \in Nat
  BY <1>3, SaidStep DEF Tally
<1>6. \A b, a \in Seq(C) : a = << >> \/ EndsLine(a) => T(Cat(a, b)) = T(a) + T(b)
  BY <1>3, LineSaid
<1>7. Lossy(<< >>) = << >> /\ \A s \in Seq(JobBytes) : Lossy(s) \in Seq(C)
  BY LossySteps
<1>8. n + 1 = Len(Cuts) /\ 1 \in 1..n + 1 /\ \A k \in 1..n : k \in 1..n + 1 /\ k + 1 \in 1..n + 1
  <2>1. Len(Cuts) \in Nat
    BY CutsAre
  <2> QED BY <1>1, <2>1
<1>9. /\ \A k \in 1..n + 1 : FileFrom(k) \in Seq(JobBytes)
      /\ FileFrom(1) = job.file /\ FileFrom(n + 1) = << >>
      /\ \A k \in 1..n : PieceOf(k) \in Seq(JobBytes) /\ F(k) = Cat(P(k), F(k + 1))
  BY <1>8, ChunkIs
<1>10. \A k \in 1..n : FileFrom(k + 1) = << >> \/ PieceOf(k) = << >> \/ EndsLine(P(k))
  BY ChunkIsLine
<1> HIDE DEF n, W, f, T
<1>11. (\A k \in 1..n + 1 : F(k) \in Seq(C)) /\ (\A k \in 1..n : P(k) \in Seq(C))
  BY <1>7, <1>9
<1>12. \A k \in 1..n : T(F(k)) = T(P(k)) + T(F(k + 1))
  <2> SUFFICES ASSUME NEW k \in 1..n PROVE T(F(k)) = T(P(k)) + T(F(k + 1))
    OBVIOUS
  <2> DEFINE a == P(k)
             b == F(k + 1)
             c == F(k)
  <2>1. a \in Seq(C) /\ b \in Seq(C) /\ c = Cat(a, b)
    BY <1>8, <1>9, <1>11
  <2>2. b = << >> \/ a = << >> \/ EndsLine(a)
    BY <1>7, <1>10
  <2> HIDE DEF a, b, c, C
  <2>3. CASE b = << >>
    <3>1. Cat(a, b) = a
      BY <2>1, <2>3, ConsAlgebra
    <3>2. T(b) = 0 /\ T(a) \in Nat
      BY <1>5, <2>1, <2>3
    <3>3. T(c) = T(a) + T(b)
      BY <2>1, <3>1, <3>2
    <3> QED BY <3>3 DEF a, b, c
  <2>4. CASE a = << >> \/ EndsLine(a)
    <3>1. T(c) = T(a) + T(b)
      BY <1>6, <2>1, <2>4
    <3> QED BY <3>1 DEF a, b, c
  <2> QED BY <2>2, <2>3, <2>4
<1>13. f \in Seq(Seq(W)) /\ Len(f) = n /\ n \in Nat /\ n >= 1
  BY <1>1, <1>2
<1>14. \A k \in 1..n : f[k] \in Seq(W) /\ UnitCount(f[k], w) = T(P(k))
  <2> SUFFICES ASSUME NEW k \in 1..n PROVE f[k] \in Seq(W) /\ UnitCount(f[k], w) = T(P(k))
    OBVIOUS
  <2>1. f[k] = Said(C, job.special, P(k)) /\ P(k) \in Seq(C)
    BY <1>1, <1>4, <1>11
  <2> QED BY <1>5, <2>1 DEF Tally, T
<1> DEFINE H(i) == FlattenSeq(SubSeq(f, 1, i))
           tf == [k \in 1..n + 1 |-> T(F(k))]
           tp == [k \in 1..n |-> T(P(k))]
<1>15. /\ \A k \in 1..n : UnitCount(f[k], w) = tp[k] /\ tp[k] \in Nat /\ tf[k] = tp[k] + tf[k + 1]
       /\ \A k \in 1..n + 1 : tf[k] \in Nat
  BY <1>5, <1>8, <1>11, <1>12, <1>14
<1>16. tf[1] = T(Lossy(job.file)) /\ tf[n + 1] = 0
  <2>1. n + 1 \in 1..n + 1
    BY <1>13
  <2> QED BY <1>5, <1>7, <1>8, <1>9, <2>1
<1> HIDE DEF tf, tp, P, F, C
<1> DEFINE S == {i \in Nat : i <= n => H(i) \in Seq(W) /\ UnitCount(H(i), w) + tf[i + 1] = tf[1]}
<1>17. 0 \in S
  <2>1. SubSeq(f, 1, 0) = << >>
    BY <1>13
  <2>2. H(0) = << >>
    BY <2>1, FlattenCat
  <2>z. UnitCount(<< >>, w) = 0
    BY ONLY ShortCounts
  <2>e. << >> \in Seq(W)
    OBVIOUS
  <2>a. UnitCount(<< >>, w) = 0 /\ << >> \in Seq(W)
    BY <2>z, <2>e
  <2>3. H(0) \in Seq(W) /\ UnitCount(H(0), w) = 0
    BY <2>2, <2>a
  <2>4. tf[0 + 1] = tf[1] /\ tf[1] \in Nat
    BY <1>8, <1>15
  <2> HIDE DEF H
  <2> QED BY <2>3, <2>4
<1>18. ASSUME NEW i \in S PROVE i + 1 \in S
  <2> SUFFICES ASSUME i + 1 <= n
               PROVE  H(i + 1) \in Seq(W) /\ UnitCount(H(i + 1), w) + tf[(i + 1) + 1] = tf[1]
    OBVIOUS
  <2>1. i \in Nat /\ i + 1 \in 1..n /\ i <= n /\ i \in 0..n
    BY <1>13
  <2>2. H(i) \in Seq(W) /\ UnitCount(H(i), w) + tf[i + 1] = tf[1]
    BY <2>1
  <2> HIDE DEF S
  <2>3. SubSeq(f, 1, i) \in Seq(Seq(W)) /\ SubSeq(f, 1, i + 1) = Append(SubSeq(f, 1, i), f[i + 1])
    <3> DEFINE X == Seq(W)
    <3>1. f \in Seq(X) /\ i \in Nat /\ i + 1 <= Len(f)
      BY <1>13, <2>1
    <3> HIDE DEF X
    <3>2. SubSeq(f, 1, i) \in Seq(X)
      BY <3>1
    <3>3. SubSeq(f, 1, i + 1) = Append(SubSeq(f, 1, i), f[i + 1])
      BY <3>1
    <3> QED BY <3>2, <3>3 DEF X
  <2> DEFINE x == H(i)
             y == f[i + 1]
  <2>4. y \in Seq(W) /\ UnitCount(y, w) = tp[i + 1]
    BY <1>14, <1>15, <2>1
  <2>5. H(i + 1) = x \o y
    BY <2>3, <2>4, Flattened
  <2>6. x \in Seq(W)
    BY <2>2
  <2> HIDE DEF H, x, y
  <2>7. x \o y \in Seq(W)
    BY <2>4, <2>6
  <2>8. UnitCount(x \o y, w) = UnitCount(x, w) + UnitCount(y, w) /\ UnitCount(x, w) \in Nat
    BY <2>4, <2>6, UnitCountConcat, CountType
  <2>9. tf[i + 1] = tp[i + 1] + tf[(i + 1) + 1] /\ tp[i + 1] \in Nat /\ tf[(i + 1) + 1] \in Nat
    BY <1>8, <1>15, <2>1
  <2>10. UnitCount(x, w) + tf[i + 1] = tf[1]
    BY <2>2 DEF x
  <2>11. UnitCount(x \o y, w) + tf[(i + 1) + 1] = tf[1]
    <3> DEFINE ux == UnitCount(x, w)
               uy == tp[i + 1]
               uz == tf[(i + 1) + 1]
    <3>1. ux \in Nat /\ uy \in Nat /\ uz \in Nat
      BY <2>8, <2>9
    <3>2. UnitCount(x \o y, w) = ux + uy /\ ux + (uy + uz) = tf[1]
      BY <2>4, <2>8, <2>9, <2>10
    <3> HIDE DEF ux, uy, uz
    <3>3. UnitCount(x \o y, w) + uz = tf[1]
      BY <3>1, <3>2
    <3> QED BY <3>3 DEF uz
  <2> QED BY <2>5, <2>7, <2>11
<1>19. n \in S
  <2>1. S \in SUBSET Nat
    OBVIOUS
  <2> HIDE DEF S
  <2>2. S = Nat
    BY <1>17, <1>18, <2>1, NatInd
  <2> QED BY <1>13, <2>2
<1>20. FlattenSeq(f) \in Seq(W) /\ UnitCount(FlattenSeq(f), w) = tf[1]
  <2>1. H(n) \in Seq(W) /\ UnitCount(H(n), w) + tf[n + 1] = tf[1]
    BY <1>13, <1>19
  <2>2. SubSeq(f, 1, n) = f
    BY <1>13
  <2>3. FlattenSeq(f) \in Seq(W) /\ UnitCount(FlattenSeq(f), w) + 0 = tf[1]
    BY <1>16, <2>1, <2>2
  <2>4. UnitCount(FlattenSeq(f), w) \in Nat
    BY <2>3, CountType
  <2> HIDE DEF H, S
  <2> QED BY <2>3, <2>4
<1>21. Lossy(job.file) \in Seq(C)
  BY <1>7, <1>8, <1>9
<1>22. Listed(job, Lossy(job.file)) \in Seq(W) /\ UnitCount(Listed(job, Lossy(job.file)), w) = tf[1]
  BY <1>4, <1>5, <1>16, <1>21 DEF Tally, T
<1> QED BY <1>20, <1>22 DEF f, W, C

\* Two lists of words that have the same solid words have the same bags of them.
LEMMA SolidBags ==
  ASSUME NEW B, NEW s \in Seq(Seq(B)), NEW t \in Seq(Seq(B)),
         \A w : SolidWord(B, w) => UnitCount(s, w) = UnitCount(t, w)
  PROVE  LET Solid(bag) == {w \in DOMAIN bag : \E i \in DOMAIN w : Kind(w[i]) # "blank"}
         IN /\ Solid(ToBag(s)) = Solid(ToBag(t))
            /\ \A w \in Solid(ToBag(s)) : ToBag(s)[w] = ToBag(t)[w]
<1> DEFINE Solid(bag) == {w \in DOMAIN bag : \E i \in DOMAIN w : Kind(w[i]) # "blank"}
           W == Seq(B)
           a == ToBag(s)
           b == ToBag(t)
<1>1. s \in Seq(W) /\ t \in Seq(W)
  OBVIOUS
<1>2. /\ DOMAIN a = Elements(s) /\ a = [x \in Elements(s) |-> UnitCount(s, x)]
      /\ DOMAIN b = Elements(t) /\ b = [x \in Elements(t) |-> UnitCount(t, x)]
  <2> HIDE DEF W
  <2> QED BY <1>1, BagIs
<1>3. \A x : (x \in Elements(s) <=> UnitCount(s, x) > 0) /\ (x \in Elements(t) <=> UnitCount(t, x) > 0)
  <2> HIDE DEF W
  <2> QED BY <1>1, Occurs
<1>4. \A x : x \in Elements(s) \/ x \in Elements(t) => x \in W
  <2> HIDE DEF W
  <2> QED BY <1>1 DEF Elements
<1>5. \A x \in W : (\E i \in DOMAIN x : Kind(x[i]) # "blank") => SolidWord(B, x)
  <2> SUFFICES ASSUME NEW x \in W, NEW i \in DOMAIN x, Kind(x[i]) # "blank" PROVE SolidWord(B, x)
    OBVIOUS
  <2>1. x \in Seq(B) /\ i \in 1..Len(x)
    OBVIOUS
  <2>2. x \notin Seq(Blanks(B))
    BY <2>1, BlankIs
  <2> QED BY <2>1, <2>2 DEF SolidWord
<1> HIDE DEF W, a, b
<1>6. \A x \in W : (\E i \in DOMAIN x : Kind(x[i]) # "blank") => UnitCount(s, x) = UnitCount(t, x)
  BY <1>5
<1>7. Solid(a) = Solid(b)
  BY <1>2, <1>3, <1>4, <1>6
<1>8. \A w \in Solid(a) : a[w] = b[w]
  <2> SUFFICES ASSUME NEW w \in Solid(a) PROVE a[w] = b[w]
    OBVIOUS
  <2>1. w \in DOMAIN a /\ w \in DOMAIN b /\ w \in W /\ \E i \in DOMAIN w : Kind(w[i]) # "blank"
    BY <1>2, <1>4, <1>7
  <2> HIDE DEF Solid
  <2>2. UnitCount(s, w) = UnitCount(t, w)
    BY <1>6, <2>1
  <2> QED BY <1>2, <2>1, <2>2
<1> QED BY <1>7, <1>8 DEF a, b

\* What was made of all chunks has the solid words of the file.
LEMMA PartsKeepWords == CutInv /\ PartsInv => LinesKeepWords
<1> DEFINE Hyp == /\ \A t \in DOMAIN job.special : Newline \notin Elements(job.special[t])
                  /\ \A p \in ReadCuts : Byte(p - 1) = Utf8[Newline][1]
           Solid(bag) == {w \in DOMAIN bag : \E i \in DOMAIN w : Kind(w[i]) # "blank"}
           Goal == /\ Solid(result) = Solid(ValueOfFile)
                   /\ \A w \in Solid(result) : result[w] = ValueOfFile[w]
<1> SUFFICES ASSUME CutInv, PartsInv, phase = "done", job.op = "words", Hyp PROVE Goal
  BY DEF LinesKeepWords
<1>1. PICK p \in parts : p.first = 1 /\ p.last = Len(chunks) /\ result = Outcome(job, p.value)
  BY DEF PartsInv
<1> DEFINE ls == Lists(job, chunks)
           V == Seq(Item(Chars, job.op))
           s == FlattenSeq(ls)
           t == Listed(job, Lossy(job.file))
<1>2. p.value = Gathered(job, FlattenSeq(SubSeq(ls, 1, Len(chunks))))
  BY <1>1 DEF PartsInv
<1>3. ls \in Seq(V) /\ Len(ls) = Len(chunks)
  BY ListsAre
<1>4. SubSeq(ls, 1, Len(chunks)) = ls
  <2> HIDE DEF ls, V
  <2>1. SubSeq(ls, 1, Len(ls)) = ls
    BY <1>3
  <2> QED BY <1>3, <2>1
<1>5. result = ToBag(s) /\ ValueOfFile = ToBag(t)
  BY <1>1, <1>2, <1>4 DEF Gathered, Outcome, ValueOfFile, ValueOf
<1>6. Unlined(job.special) /\ \A q \in ReadCuts : Byte(q - 1) = Utf8[Newline][1]
  BY DEF Unlined
<1>7. \A w : SolidWord(Chars, w) =>
        s \in Seq(Seq(Chars)) /\ t \in Seq(Seq(Chars)) /\ UnitCount(s, w) = UnitCount(t, w)
  BY <1>6, ListsSay
<1>8. s \in Seq(Seq(Chars)) /\ t \in Seq(Seq(Chars))
  <2> DEFINE I == Item(Chars, job.op)
  <2>1. I = Seq(Chars) /\ job \in Jobs
    BY DEF Item, CutInv, BoundariesInv
  <2>2. s \in Seq(I)
    <3>1. ls \in Seq(Seq(I))
      BY <1>3
    <3> HIDE DEF ls, I
    <3> QED BY <3>1, Flattened
  <2>3. Lossy(job.file) \in Seq(Chars)
    BY <2>1, JobIs, LossySteps
  <2>4. t \in Seq(I)
    BY <2>1, <2>3, JobTokens, ListedCat
  <2> QED BY <2>1, <2>2, <2>4
<1> HIDE DEF s, t, Hyp
<1>9. \A w : SolidWord(Chars, w) => UnitCount(s, w) = UnitCount(t, w)
  BY <1>7
<1>10. /\ Solid(ToBag(s)) = Solid(ToBag(t))
       /\ \A w \in Solid(ToBag(s)) : ToBag(s)[w] = ToBag(t)[w]
  BY <1>8, <1>9, SolidBags
<1> QED BY <1>5, <1>10

\* However a file is cut after its newlines, and in whatever order the chunks
\* are read and joined, every word that is not blank is counted as often as in
\* the file in one piece (LinesKeepWords).
THEOREM LinesAreKept == Spec => []LinesKeepWords
<1>1. CutInv /\ PartsInv => LinesKeepWords
  BY PartsKeepWords
<1> QED BY <1>1, CutInvInit, CutInvNext, PartsInvInit, PartsInvNext, PTL DEF Spec

=============================================================================
