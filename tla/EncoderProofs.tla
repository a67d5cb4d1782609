--------------------------- MODULE EncoderProofs ---------------------------
(***************************************************************************)
(* Proofs about the encoder, for every model, every text and any number of *)
(* callers: what the queue of _encode_word and the word sets of            *)
(* _encode_words hold, that both give the ids that merging by rank gives,  *)
(* that decoding these gives the input back, and that a byte model may be  *)
(* cut at absent bigrams.                                                  *)
(***************************************************************************)
EXTENDS Encoder, BpeWordsProofs

Vid == DOMAIN model.vocab

\* What the constructor leaves: a model that was accepted, and its fields.
Constructed == (\A m : m = model => m \in Models /\ Accepted(m)) /\ built = Built

-----------------------------------------------------------------------------
(* Numbers and words. *)

\* A word gets shorter when a pair in it is replaced, and never longer.
LEMMA ReplacedShortens ==
  ASSUME NEW U, NEW w \in Seq(U), NEW tp, NEW target \in U
  PROVE  /\ Replaced(w, tp, target) \in Seq(U)
         /\ Len(Replaced(w, tp, target)) <= Len(w)
         /\ tp \in PairsOf(w) => Len(Replaced(w, tp, target)) < Len(w)
<1>0. Len(w) \in Nat
  OBVIOUS
<1>1. PICK from : Rewrites(from, U, w, tp, target) /\ Replaced(w, tp, target) = from[1]
  BY ReplacedUnfold
<1>8. \A i \in 1..Len(w) + 1 : from[i] \in Seq(U)
  BY <1>0, <1>1 DEF Rewrites
<1>9. ASSUME NEW i \in 1..Len(w)
      PROVE  \/ /\ i < Len(w) /\ PairAt(w, i) = tp
                /\ Len(from[i]) = 1 + Len(from[i + 2])
             \/ /\ ~(i < Len(w) /\ PairAt(w, i) = tp)
                /\ Len(from[i]) = 1 + Len(from[i + 1])
  <2>1. CASE i < Len(w) /\ PairAt(w, i) = tp
    <3>1. from[i] = <<target>> \o from[i + 2]
      BY <1>1, <2>1, Zenon DEF Rewrites
    <3>2. from[i + 2] \in Seq(U)
      BY <1>0, <1>8, <2>1
    <3> QED BY <2>1, <3>1, <3>2
  <2>2. CASE ~(i < Len(w) /\ PairAt(w, i) = tp)
    <3>1. from[i] = <<w[i]>> \o from[i + 1]
      BY <1>1, <2>2, Zenon DEF Rewrites
    <3>2. from[i + 1] \in Seq(U)
      BY <1>0, <1>8
    <3> QED BY <2>2, <3>1, <3>2
  <2> QED BY <2>1, <2>2
<1>10. \A i \in 1..Len(w) + 1 : Len(from[i]) \in Nat
  BY <1>8
<1> DEFINE Short(i) == /\ Len(from[i]) <= Len(w) + 1 - i
                       /\ (\E j \in i..Len(w) - 1 : PairAt(w, j) = tp)
                            => Len(from[i]) < Len(w) + 1 - i
           S == {m \in Nat : \A i \in 1..Len(w) + 1 : Len(w) + 1 - i <= m => Short(i)}
<1>2. 0 \in S
  <2>1. Len(from[Len(w) + 1]) = 0
    BY <1>1 DEF Rewrites
  <2> QED BY <1>0, <2>1
<1>3. ASSUME NEW m \in S PROVE m + 1 \in S
  <2> SUFFICES ASSUME NEW i \in 1..Len(w) + 1, Len(w) + 1 - i <= m + 1 PROVE Short(i)
    OBVIOUS
  <2>1. CASE Len(w) + 1 - i <= m
    <3> HIDE DEF Short
    <3> QED BY <2>1
  <2>2. CASE Len(w) + 1 - i = m + 1
    <3>1. i \in 1..Len(w)
      BY <1>0, <2>2
    <3>2. CASE i < Len(w) /\ PairAt(w, i) = tp
      <4>1. Short(i + 2)
        <5> HIDE DEF Short
        <5> QED BY <1>0, <2>2, <3>2
      <4>2. Len(from[i]) = 1 + Len(from[i + 2]) /\ Len(from[i + 2]) \in Nat
        BY <1>0, <1>9, <1>10, <3>1, <3>2
      <4> QED BY <1>0, <3>1, <4>1, <4>2
    <3>3. CASE ~(i < Len(w) /\ PairAt(w, i) = tp)
      <4>1. Short(i + 1)
        <5> HIDE DEF Short
        <5> QED BY <1>0, <2>2, <3>1
      <4>2. Len(from[i]) = 1 + Len(from[i + 1]) /\ Len(from[i + 1]) \in Nat
        BY <1>0, <1>9, <1>10, <3>1, <3>3
      <4>4. \A j \in i..Len(w) - 1 : PairAt(w, j) = tp => j \in i + 1..Len(w) - 1
        BY <1>0, <3>1, <3>3
      <4> QED BY <1>0, <3>1, <4>1, <4>2, <4>4
    <3> QED BY <3>2, <3>3
  <2>3. Len(w) + 1 - i <= m \/ Len(w) + 1 - i = m + 1
    <3>1. m \in Nat /\ i \in Nat
      OBVIOUS
    <3> HIDE DEF S, Short
    <3> QED BY <1>0, <3>1
  <2> QED BY <2>1, <2>2, <2>3
<1>4. S = Nat
  <2>1. S \in SUBSET Nat
    OBVIOUS
  <2> HIDE DEF S
  <2> QED BY <1>2, <1>3, <2>1, NatInd
<1>5. Short(1)
  <2> HIDE DEF Short
  <2>1. Len(w) \in Nat /\ 1 \in 1..Len(w) + 1 /\ Len(w) + 1 - 1 <= Len(w)
    BY <1>0
  <2> QED BY <1>4, <2>1
<1>6. from[1] \in Seq(U)
  BY <1>0, <1>1 DEF Rewrites
<1>7. tp \in PairsOf(w) => \E j \in 1..Len(w) - 1 : PairAt(w, j) = tp
  BY DEF PairsOf
<1> QED BY <1>0, <1>1, <1>5, <1>6, <1>7

-----------------------------------------------------------------------------
(* The merges of a model. *)

\* The ranks of the merges that apply to a word.
Applicable(w) == {RankOf(tp) : tp \in {q \in PairsOf(w) : HasMerge(q)}}

\* The merges of a model that was accepted are merges of its tokens.
LEMMA ModelTypes ==
  ASSUME Constructed
  PROVE  /\ Len(model.merges) \in Nat /\ Ranks = 1..Len(model.merges)
         /\ Len(model.vocab) \in Nat /\ Vid = 1..Len(model.vocab)
         /\ \A k \in Vid : model.vocab[k] \in Seq(Nat \cup Scalar)
         /\ model.special \subseteq Vid
         /\ \A r \in Ranks :
              /\ PairOf(r) = <<PairOf(r)[1], PairOf(r)[2]>>
              /\ Elements(PairOf(r)) = {PairOf(r)[1], PairOf(r)[2]}
              /\ PairOf(r)[1] \in Vid /\ PairOf(r)[2] \in Vid /\ TargetOf(r) \in Vid
<1>1. /\ model.vocab \in Seq(Seq(Nat \cup Scalar))
      /\ model.merges \in Seq([pair : Nat \X Nat, target : Nat])
      /\ model.special \subseteq Vid
  BY ModelAssumption DEF Constructed, Vid
<1>2. ASSUME NEW r \in Ranks
      PROVE  /\ PairOf(r) = <<PairOf(r)[1], PairOf(r)[2]>>
             /\ Elements(PairOf(r)) = {PairOf(r)[1], PairOf(r)[2]}
             /\ PairOf(r)[1] \in Vid /\ PairOf(r)[2] \in Vid /\ TargetOf(r) \in Vid
  <2>1. PairOf(r) \in Nat \X Nat
    <3> DEFINE M == [pair : Nat \X Nat, target : Nat]
    <3>1. model.merges \in Seq(M) /\ r \in DOMAIN model.merges
      BY <1>1 DEF Ranks
    <3> HIDE DEF M
    <3>2. model.merges[r] \in M
      BY <3>1
    <3> QED BY <3>2 DEF M, PairOf
  <2>2. Elements(PairOf(r)) = {PairOf(r)[1], PairOf(r)[2]}
    <3> DEFINE p == PairOf(r)
    <3>1. p = <<p[1], p[2]>> /\ DOMAIN p = {1, 2}
      BY <2>1
    <3> HIDE DEF p
    <3>2. Elements(p) = {p[1], p[2]}
      BY <3>1 DEF Elements
    <3> QED BY <3>2 DEF p
  <2>3. Elements(PairOf(r)) \cup {TargetOf(r)} \subseteq Vid
    BY DEF Constructed, Accepted, Ranks, PairOf, TargetOf, Vid
  <2> QED BY <2>1, <2>2, <2>3
<1> QED BY <1>1, <1>2 DEF Ranks, Vid

\* The rank of a pair is one of its ranks.
LEMMA RankIs ==
  ASSUME Constructed, NEW tp, HasMerge(tp)
  PROVE  RankOf(tp) \in Ranks /\ PairOf(RankOf(tp)) = tp
<1>1. RanksOf(tp) \in SUBSET (1..Len(model.merges)) /\ RanksOf(tp) # {}
  BY ModelTypes DEF RanksOf, HasMerge
<1>2. RankOf(tp) \in RanksOf(tp)
  BY <1>1, ModelTypes, EndsOf DEF RankOf
<1> QED BY <1>2 DEF RanksOf

\* A rank applies where its pair occurs, if no later merge has the same pair.
LEMMA AppliesIs ==
  ASSUME Constructed, NEW w
  PROVE  /\ Applicable(w) \subseteq Ranks
         /\ \A r \in Applicable(w) : PairOf(r) \in PairsOf(w) /\ RankOf(PairOf(r)) = r
         /\ \A r \in Ranks : PairOf(r) \in PairsOf(w) /\ RankOf(PairOf(r)) = r => r \in Applicable(w)
         /\ \A tp \in PairsOf(w) : HasMerge(tp) => RankOf(tp) \in Applicable(w)
<1>1. ASSUME NEW r \in Ranks PROVE HasMerge(PairOf(r))
  BY DEF HasMerge, RanksOf
<1>2. \A tp \in PairsOf(w) : HasMerge(tp) => RankOf(tp) \in Ranks /\ PairOf(RankOf(tp)) = tp
  BY RankIs
<1> QED BY <1>1, <1>2 DEF Applicable

\* One merge of the reference: the one of lowest rank, everywhere.
LEMMA MergeStepIs ==
  ASSUME Constructed, NEW w \in Seq(Vid)
  PROVE  /\ MergeStep(w) \in Seq(Vid)
         /\ Applicable(w) = {} => MergeStep(w) = w
         /\ \A r \in Applicable(w) :
              (\A q \in Applicable(w) : r <= q)
                => MergeStep(w) = Replaced(w, PairOf(r), TargetOf(r))
         /\ Applicable(w) # {} => Len(MergeStep(w)) < Len(w)
<1>1. MergeStep(w) = IF Applicable(w) = {} THEN w
                     ELSE Replaced(w, PairOf(Min(Applicable(w))), TargetOf(Min(Applicable(w))))
  BY Zenon DEF MergeStep, Applicable
<1>2. CASE Applicable(w) = {}
  BY <1>1, <1>2
<1>3. CASE Applicable(w) # {}
  <2> DEFINE r == Min(Applicable(w))
  <2>1. Applicable(w) \in SUBSET (1..Len(model.merges)) /\ Len(model.merges) \in Nat
    BY AppliesIs, ModelTypes
  <2>2. r \in Applicable(w) /\ \A q \in Applicable(w) : r <= q
    BY <1>3, <2>1, EndsOf
  <2> HIDE DEF r
  <2>3. r \in Ranks /\ PairOf(r) \in PairsOf(w) /\ TargetOf(r) \in Vid
    BY <2>2, AppliesIs, ModelTypes
  <2>4. MergeStep(w) = Replaced(w, PairOf(r), TargetOf(r))
    BY <1>1, <1>3 DEF r
  <2>5. MergeStep(w) \in Seq(Vid) /\ Len(MergeStep(w)) < Len(w)
    BY <2>3, <2>4, ReplacedShortens
  <2>6. \A q \in Applicable(w) : (\A s \in Applicable(w) : q <= s) => q = r
    <3>1. \A q \in Applicable(w) : q \in Int
      BY <2>1
    <3> QED BY <2>2, <3>1
  <2> QED BY <1>3, <2>4, <2>5, <2>6
<1> QED BY <1>2, <1>3

\* The words that n merges of the reference make of a word.
Chain(f, n, w) == f = [i \in 0..n |-> IF i = 0 THEN w ELSE MergeStep(f[i - 1] \o << >>)]

\* They exist, and end in the reference's encoding.
LEMMA ChainExists ==
  ASSUME Constructed, NEW w \in Seq(Vid)
  PROVE  \E f : Chain(f, Len(w), w) /\ Encoding(w) = f[Len(w)]
<1> DEFINE S == {n \in Nat : \E f : Chain(f, n, w)}
<1>1. 0 \in S
  <2> DEFINE g == [i \in 0..0 |-> w]
  <2>1. Chain(g, 0, w)
    BY DEF Chain
  <2> QED BY <2>1
<1>2. ASSUME NEW n \in S PROVE n + 1 \in S
  <2>1. PICK g : Chain(g, n, w)
    OBVIOUS
  <2>2. n \in Nat
    OBVIOUS
  <2> DEFINE Next1(x) == MergeStep(x \o << >>)
             h == [i \in 0..n + 1 |-> IF i = n + 1 THEN Next1(g[n]) ELSE g[i]]
  <2>3. \A i \in 0..n : g[i] = IF i = 0 THEN w ELSE Next1(g[i - 1])
    BY <2>1 DEF Chain
  <2> HIDE DEF Next1
  <2>4. \A i \in 0..n + 1 : h[i] = IF i = 0 THEN w ELSE Next1(h[i - 1])
    <3> TAKE i \in 0..n + 1
    <3>1. CASE i = n + 1
      BY <2>2, <3>1
    <3>2. CASE i # n + 1
      <4>1. i \in 0..n /\ (i # 0 => i - 1 \in 0..n /\ h[i - 1] = g[i - 1])
        BY <2>2, <3>2
      <4> QED BY <2>3, <4>1
    <3> QED BY <3>1, <3>2
  <2>5. h = [i \in 0..n + 1 |-> h[i]]
    OBVIOUS
  <2> HIDE DEF h
  <2>6. h = [i \in 0..n + 1 |-> IF i = 0 THEN w ELSE Next1(h[i - 1])]
    BY <2>4, <2>5
  <2>7. Chain(h, n + 1, w)
    BY <2>6, Zenon DEF Chain, Next1
  <2> QED BY <2>2, <2>7
<1>3. S = Nat
  <2>1. S \in SUBSET Nat
    OBVIOUS
  <2> HIDE DEF S
  <2> QED BY <1>1, <1>2, <2>1, NatInd
<1>4. Len(w) \in Nat
  OBVIOUS
<1>5. \E f : Chain(f, Len(w), w)
  BY <1>3, <1>4
<1> DEFINE f == CHOOSE g : Chain(g, Len(w), w)
<1>6. Chain(f, Len(w), w)
  BY <1>5, Zenon
<1>7. Encoding(w) = f[Len(w)]
  BY Zenon DEF Encoding, Chain
<1> QED BY <1>6, <1>7

\* A chain is made of words, and stands still after as many merges as the word
\* has tokens.
LEMMA ChainSettles ==
  ASSUME Constructed, NEW w \in Seq(Vid), NEW n \in Nat, NEW f, Chain(f, n, w)
  PROVE  /\ f[0] = w
         /\ \A i \in 0..n : f[i] \in Seq(Vid)
         /\ \A i \in 0..n - 1 : f[i + 1] = MergeStep(f[i])
         /\ \A i \in 0..n : i >= Len(w) => MergeStep(f[i]) = f[i]
<1>1. f[0] = w /\ \A i \in 0..n - 1 : f[i + 1] = MergeStep(f[i] \o << >>)
  <2>1. \A i \in 0..n : f[i] = IF i = 0 THEN w ELSE MergeStep(f[i - 1] \o << >>)
    BY DEF Chain
  <2>2. ASSUME NEW i \in 0..n - 1 PROVE i + 1 \in 0..n /\ i + 1 # 0 /\ i + 1 - 1 = i
    OBVIOUS
  <2> QED BY <2>1, <2>2
<1> DEFINE Good(i) == /\ f[i] \in Seq(Vid)
                      /\ MergeStep(f[i]) = f[i] \/ Len(f[i]) <= Len(w) - i
           S == {i \in Nat : i <= n => Good(i)}
<1>2. 0 \in S
  BY <1>1
<1>3. ASSUME NEW i \in S PROVE i + 1 \in S
  <2> SUFFICES ASSUME i + 1 <= n PROVE Good(i + 1)
    OBVIOUS
  <2>1. i \in 0..n - 1 /\ Good(i)
    OBVIOUS
  <2> DEFINE v == f[i]
  <2>2. v \in Seq(Vid) /\ v \o << >> = v /\ f[i + 1] = MergeStep(v)
    BY <1>1, <2>1, ConcatEmptySeq
  <2>3. MergeStep(v) \in Seq(Vid) /\ (MergeStep(v) = v \/ Len(MergeStep(v)) < Len(v))
    BY <2>2, MergeStepIs
  <2>4. Len(w) \in Nat /\ Len(v) \in Nat /\ Len(MergeStep(v)) \in Nat
    BY <2>2, <2>3
  <2> QED BY <2>1, <2>2, <2>3, <2>4
<1>4. S = Nat
  <2>1. S \in SUBSET Nat
    OBVIOUS
  <2> HIDE DEF S
  <2> QED BY <1>2, <1>3, <2>1, NatInd
<1>5. \A i \in 0..n : Good(i)
  BY <1>4
<1>6. ASSUME NEW i \in 0..n, i >= Len(w) PROVE MergeStep(f[i]) = f[i]
  <2>1. f[i] \in Seq(Vid) /\ Len(w) \in Nat
    BY <1>5
  <2>2. CASE Len(f[i]) <= Len(w) - i
    <3>1. Len(f[i]) = 0
      BY <1>6, <2>1, <2>2
    <3>2. Len(MergeStep(f[i])) \in Nat
      BY <2>1, MergeStepIs
    <3> QED BY <2>1, <3>1, <3>2, MergeStepIs
  <2> QED BY <1>5, <2>2
<1>7. ASSUME NEW i \in 0..n - 1 PROVE f[i + 1] = MergeStep(f[i])
  <2>1. f[i] \in Seq(Vid)
    BY <1>5
  <2>2. f[i] \o << >> = f[i]
    BY <2>1, ConcatEmptySeq
  <2> QED BY <1>1, <2>2
<1> QED BY <1>1, <1>5, <1>6, <1>7

\* A chain that has come to a word no merge changes ends in it.
LEMMA ChainRests ==
  ASSUME NEW n \in Nat, NEW f, \A i \in 0..n - 1 : f[i + 1] = MergeStep(f[i]),
         NEW k \in 0..n, MergeStep(f[k]) = f[k]
  PROVE  f[n] = f[k]
<1> DEFINE S == {i \in Nat : k + i <= n => f[k + i] = f[k]}
<1>1. 0 \in S
  OBVIOUS
<1>2. ASSUME NEW i \in S PROVE i + 1 \in S
  <2> SUFFICES ASSUME k + (i + 1) <= n PROVE f[k + (i + 1)] = f[k]
    OBVIOUS
  <2>1. k + i \in 0..n - 1 /\ f[k + i] = f[k] /\ k + (i + 1) = (k + i) + 1
    OBVIOUS
  <2>2. f[(k + i) + 1] = MergeStep(f[k + i])
    BY <2>1
  <2> QED BY <2>1, <2>2
<1>3. S = Nat
  <2>1. S \in SUBSET Nat
    OBVIOUS
  <2> HIDE DEF S
  <2> QED BY <1>1, <1>2, <2>1, NatInd
<1>4. n - k \in Nat /\ k + (n - k) = n
  OBVIOUS
<1>5. n - k \in S
  BY <1>3, <1>4
<1> QED BY <1>4, <1>5

\* Two chains that start with the same word go through the same words.
LEMMA ChainsAgree ==
  ASSUME NEW n \in Nat, NEW f, NEW g, f[0] = g[0],
         \A i \in 0..n - 1 : f[i + 1] = MergeStep(f[i]),
         \A i \in 0..n - 1 : g[i + 1] = MergeStep(g[i])
  PROVE  f[n] = g[n]
<1> DEFINE S == {i \in Nat : i <= n => f[i] = g[i]}
<1>1. 0 \in S
  OBVIOUS
<1>2. ASSUME NEW i \in S PROVE i + 1 \in S
  <2> SUFFICES ASSUME i + 1 <= n PROVE f[i + 1] = g[i + 1]
    OBVIOUS
  <2>1. i \in 0..n - 1 /\ f[i] = g[i]
    OBVIOUS
  <2> QED BY <2>1
<1>3. S = Nat
  <2>1. S \in SUBSET Nat
    OBVIOUS
  <2> HIDE DEF S
  <2> QED BY <1>1, <1>2, <2>1, NatInd
<1> QED BY <1>3

\* The reference goes on from any word it comes through, and stops where no
\* merge applies.
LEMMA EncodingIs ==
  ASSUME Constructed, NEW w \in Seq(Vid)
  PROVE  /\ Encoding(w) \in Seq(Vid)
         /\ Encoding(MergeStep(w)) = Encoding(w)
         /\ Applicable(w) = {} => Encoding(w) = w
<1> DEFINE n == Len(w)
           v == MergeStep(w)
           m == Len(v)
<1>1. PICK f : Chain(f, n, w) /\ Encoding(w) = f[n]
  BY ChainExists
<1>2. n \in Nat /\ v \in Seq(Vid) /\ m \in Nat /\ (v = w \/ m < n)
  BY MergeStepIs
<1>3. /\ f[0] = w /\ \A i \in 0..n : f[i] \in Seq(Vid)
      /\ \A i \in 0..n - 1 : f[i + 1] = MergeStep(f[i])
  BY <1>1, <1>2, ChainSettles
<1>4. CASE v = w
  <2>1. f[n] = f[0]
    <3>1. 0 \in 0..n /\ MergeStep(f[0]) = f[0]
      BY <1>2, <1>3, <1>4
    <3> QED BY <1>2, <1>3, <3>1, ChainRests
  <2> QED BY <1>1, <1>3, <1>4, <2>1
<1>5. CASE v # w
  <2>1. PICK g : Chain(g, m, v) /\ Encoding(v) = g[m]
    BY <1>2, ChainExists
  <2>2. /\ g[0] = v
        /\ \A i \in 0..m - 1 : g[i + 1] = MergeStep(g[i])
        /\ \A i \in 0..m : i >= m => MergeStep(g[i]) = g[i]
    BY <1>2, <2>1, ChainSettles
  <2> DEFINE h == [i \in 0..n - 1 |-> f[i + 1]]
  <2> HIDE DEF v, m, n
  <2>3. m <= n - 1
    BY <1>2, <1>5
  <2>4. h[0] = v /\ \A i \in 0..m - 1 : h[i + 1] = MergeStep(h[i])
    <3>1. f[0 + 1] = MergeStep(f[0])
      BY <1>2, <1>3, <2>3
    <3>2. \A i \in 0..m - 1 : f[(i + 1) + 1] = MergeStep(f[i + 1])
      BY <1>2, <1>3, <2>3
    <3> QED BY <1>2, <1>3, <2>3, <3>1, <3>2 DEF v
  <2>5. h[m] = g[m]
    <3> HIDE DEF h
    <3> QED BY <1>2, <2>2, <2>4, ChainsAgree
  <2>6. m + 1 \in 0..n /\ f[m + 1] = g[m] /\ MergeStep(g[m]) = g[m]
    BY <1>2, <2>2, <2>3, <2>5
  <2>7. f[n] = f[m + 1]
    <3>1. \A i \in 0..n - 1 : f[i + 1] = MergeStep(f[i])
      BY <1>3 DEF n
    <3> QED BY <1>2, <2>6, <3>1, ChainRests
  <2>8. f[n] \in Seq(Vid) /\ Encoding(w) = f[n]
    BY <1>1, <1>2, <1>3 DEF n
  <2> QED BY <1>2, <1>5, <2>1, <2>6, <2>7, <2>8, MergeStepIs DEF v
<1>6. Applicable(w) = {} => v = w
  BY MergeStepIs
<1>7. v = w => Encoding(w) = w
  <2> SUFFICES ASSUME v = w PROVE Encoding(w) = w
    OBVIOUS
  <2>1. 0 \in 0..n /\ MergeStep(f[0]) = f[0]
    BY <1>2, <1>3
  <2> QED BY <1>1, <1>2, <1>3, <2>1, ChainRests
<1> QED BY <1>4, <1>5, <1>6, <1>7

-----------------------------------------------------------------------------
(* From a text to its first tokens. *)

\* Every merge makes a token of its own: its target is neither of its operands,
\* nor the token of a unit. The contract of a Unicode model says as much; of a
\* byte model it is true when it was trained, for a target then has at least
\* two bytes.
JoiningModels ==
  \A m \in Models :
    Accepted(m) =>
      \/ m.unicode
      \/ \A r \in DOMAIN m.merges :
           /\ Len(m.vocab[m.merges[r].target]) # 1
           /\ m.merges[r].target \notin Elements(m.merges[r].pair)

\* The tokens a text is cut into at first.
UnitTokens == {VocabBytes[u] : u \in DOMAIN VocabBytes}

\* They are tokens of one unit that nothing rebuilds.
LEMMA UnitTokensAre ==
  ASSUME Constructed
  PROVE  UnitTokens \subseteq SingleIds
<1> SUFFICES ASSUME NEW u \in DOMAIN VocabBytes PROVE VocabBytes[u] \in SingleIds
  BY DEF UnitTokens
<1> DEFINE S == {k \in SingleIds : model.vocab[k][1] = u}
<1>1. VocabBytes[u] = Max(S) /\ S # {}
  BY DEF VocabBytes
<1>2. S \in SUBSET (1..Len(model.vocab)) /\ Len(model.vocab) \in Nat
  BY ModelTypes DEF SingleIds, Vid
<1> HIDE DEF S
<1>3. Max(S) \in S
  BY <1>1, <1>2, EndsOf
<1> QED BY <1>1, <1>3 DEF S

\* A target is a token that no text begins with and no merge of its own takes.
LEMMA TargetsAreNew ==
  ASSUME Constructed, JoiningModels, NEW r \in Ranks
  PROVE  /\ TargetOf(r) \notin UnitTokens
         /\ PairOf(r)[1] # TargetOf(r) /\ PairOf(r)[2] # TargetOf(r)
<1> DEFINE l == model.vocab[PairOf(r)[1]]
           q == model.vocab[PairOf(r)[2]]
           t == model.vocab[TargetOf(r)]
<1>1. /\ l \in Seq(Nat \cup Scalar) /\ q \in Seq(Nat \cup Scalar) /\ t \in Seq(Nat \cup Scalar)
      /\ Elements(PairOf(r)) = {PairOf(r)[1], PairOf(r)[2]}
  BY ModelTypes
<1>2. CASE ~model.unicode
  <2>1. Len(t) # 1 /\ TargetOf(r) \notin Elements(PairOf(r))
    BY <1>2 DEF JoiningModels, Constructed, Ranks, TargetOf, PairOf
  <2>2. TargetOf(r) \notin SingleIds
    BY <2>1 DEF SingleIds
  <2> QED BY <1>1, <2>1, <2>2, UnitTokensAre
<1>3. CASE model.unicode
  <2>1. ValidMerge(l, q, t)
    BY <1>3 DEF Constructed, Accepted, Ranks, PairOf, TargetOf
  <2>2. l # << >> /\ q # << >>
    BY <2>1 DEF ValidMerge, AllScalars, AllBytes
  <2>3. CASE t = l \o q
    <3>1. Len(t) = Len(l) + Len(q) /\ Len(l) \in Nat \ {0} /\ Len(q) \in Nat \ {0}
      BY <1>1, <2>2, <2>3
    <3>2. Len(t) # 1 /\ t # l /\ t # q
      <4> HIDE DEF l, q, t
      <4>1. Len(t) # 1 /\ Len(t) # Len(l) /\ Len(t) # Len(q)
        BY <3>1
      <4> QED BY <4>1
    <3>3. TargetOf(r) \notin SingleIds
      BY <3>2 DEF SingleIds
    <3> QED BY <3>2, <3>3, UnitTokensAre
  <2>4. CASE t # l \o q
    <3>1. PICK s \in Scalar : t = <<s>>
      BY <2>1, <2>4 DEF ValidMerge
    <3>2. AllBytes(l) /\ AllBytes(q)
      BY <2>1, <2>4 DEF ValidMerge
    <3>3. Elements(t) = {s} /\ Len(t) = 1
      BY <3>1 DEF Elements
    <3>4. AllScalars(t)
      BY <3>1, <3>3 DEF AllScalars
    <3>5. t \in SplitTargets
      BY <1>3, <3>2, <3>3, <3>4 DEF SplitTargets, ContentOf
    <3>6. TargetOf(r) \notin SingleIds
      BY <3>5 DEF SingleIds
    <3>7. t # l /\ t # q
      BY <3>2, <3>3 DEF AllBytes
    <3> QED BY <3>6, <3>7, UnitTokensAre
  <2> QED BY <2>3, <2>4
<1> QED BY <1>2, <1>3

\* The first tokens of a text whose units all have one.
LEMMA PretokenIs ==
  ASSUME Constructed, NEW text \in Seq(Scalar), InVocab(text)
  PROVE  /\ Pretoken(text) \in Seq(Vid) /\ Elements(Pretoken(text)) \subseteq UnitTokens
         /\ Pretoken(text) = [i \in DOMAIN UnitsOf(text) |-> VocabBytes[UnitsOf(text)[i]]]
<1> DEFINE U == Nat \cup Scalar
           n == Len(text)
           f == [i \in 1..n |-> IF model.unicode /\ text[i] \in DOMAIN built.vocab_bytes
                                 THEN <<text[i]>> ELSE Utf8[text[i]]]
           units == UnitsOf(text)
<1>1. n \in Nat /\ DOMAIN text = 1..n /\ \A i \in 1..n : text[i] \in Scalar
  OBVIOUS
<1>2. \A i \in 1..n : f[i] \in Seq(U)
  <2>1. \A s \in Scalar : Utf8[s] \in Seq(U) /\ <<s>> \in Seq(U)
    BY Utf8Assumption
  <2> QED BY <1>1, <2>1
<1>3. units \in Seq(U)
  <2>1. units = FlattenSeq([i \in 1..n |-> f[i]])
    <3>1. [i \in 1..n |-> f[i]] = f
      OBVIOUS
    <3>2. units = FlattenSeq(f)
      BY <1>1 DEF UnitsOf
    <3> QED BY <3>1, <3>2
  <2> HIDE DEF f, U, n
  <2> QED BY <1>1, <1>2, <2>1, FlattenMap
<1> DEFINE B == built.vocab_bytes
           ids == [i \in DOMAIN units |-> B[units[i]]]
<1>4. B = VocabBytes /\ \A i \in DOMAIN units : units[i] \in DOMAIN B
  BY DEF Constructed, Built, InVocab, Elements
<1>5. \A i \in DOMAIN units : ids[i] \in UnitTokens
  BY <1>4 DEF UnitTokens
<1>6. UnitTokens \subseteq Vid
  BY UnitTokensAre DEF SingleIds, Vid
<1>7. Len(units) \in Nat /\ DOMAIN units = 1..Len(units)
  <2> HIDE DEF U, units
  <2> QED BY <1>3
<1>8. ids = [i \in 1..Len(units) |-> ids[i]]
  BY <1>7
<1> HIDE DEF ids, units
<1>9. ids \in Seq(UnitTokens) /\ ids \in Seq(Vid)
  BY <1>5, <1>6, <1>7, <1>8
<1>10. Pretoken(text) = ids
  <2>1. Pretoken(text) = ids \o << >>
    BY DEF Pretoken, ids, units
  <2> QED BY <1>9, <2>1, ConcatEmptySeq
<1>11. Elements(ids) \subseteq UnitTokens
  BY <1>9 DEF Elements
<1>12. ids = [i \in DOMAIN UnitsOf(text) |-> VocabBytes[UnitsOf(text)[i]]]
  BY <1>4 DEF ids, units
<1> QED BY <1>9, <1>10, <1>11, <1>12

-----------------------------------------------------------------------------
(* What depends on the model only stays the same in every step. *)

\* The merges, and what one of them does to a word.
LEMMA SameMerges ==
  ASSUME UNCHANGED <<model, built>>
  PROVE  /\ Ranks' = Ranks /\ Vid' = Vid
         /\ \A r : PairOf(r)' = PairOf(r) /\ TargetOf(r)' = TargetOf(r)
         /\ \A tp : RanksOf(tp)' = RanksOf(tp) /\ RankOf(tp)' = RankOf(tp)
         /\ \A tp : HasMerge(tp)' <=> HasMerge(tp)
         /\ \A w : Applicable(w)' = Applicable(w) /\ MergeStep(w)' = MergeStep(w)
<1>1. Ranks' = Ranks /\ Vid' = Vid
  BY DEF Ranks, Vid
<1>2. \A r : PairOf(r)' = PairOf(r) /\ TargetOf(r)' = TargetOf(r)
  BY DEF PairOf, TargetOf
<1>3. \A tp : RanksOf(tp)' = RanksOf(tp)
  BY <1>1, <1>2 DEF RanksOf
<1>4. \A tp : RankOf(tp)' = RankOf(tp)
  BY <1>3 DEF RankOf
<1>5. \A tp : HasMerge(tp)' <=> HasMerge(tp)
  BY <1>3 DEF HasMerge
<1>6. \A w : Applicable(w)' = Applicable(w)
  BY <1>4, <1>5 DEF Applicable
<1>7. \A w : MergeStep(w) = IF Applicable(w) = {} THEN w
                            ELSE Replaced(w, PairOf(Min(Applicable(w))), TargetOf(Min(Applicable(w))))
  BY Zenon DEF MergeStep, Applicable
<1>8. \A w : MergeStep(w)' = IF Applicable(w)' = {} THEN w
                             ELSE Replaced(w, PairOf(Min(Applicable(w)))', TargetOf(Min(Applicable(w)))')
  BY Zenon DEF MergeStep, Applicable
<1>9. \A w : MergeStep(w)' = MergeStep(w)
  BY <1>2, <1>6, <1>7, <1>8
<1> QED BY <1>1, <1>2, <1>3, <1>4, <1>5, <1>6, <1>9

\* The units of a text, and their tokens.
LEMMA SameUnits ==
  ASSUME UNCHANGED <<model, built>>
  PROVE  \A text : /\ UnitsOf(text)' = UnitsOf(text)
                   /\ InVocab(text)' <=> InVocab(text)
                   /\ Pretoken(text)' = Pretoken(text)
                   /\ SpecialIds(text)' = SpecialIds(text)
<1> TAKE text
<1>1. UnitsOf(text)' = UnitsOf(text)
  BY DEF UnitsOf
<1>2. InVocab(text)' <=> InVocab(text)
  BY <1>1 DEF InVocab
<1>3. Pretoken(text)' = Pretoken(text)
  BY <1>1 DEF Pretoken
<1>4. SpecialIds(text)' = SpecialIds(text)
  BY DEF SpecialIds
<1> QED BY <1>1, <1>2, <1>3, <1>4

\* What the constructor derives.
LEMMA SameConstruction ==
  ASSUME UNCHANGED <<model, built>>
  PROVE  Constructed' <=> Constructed
<1>1. SplitTargets' = SplitTargets
  BY SameMerges DEF SplitTargets, ContentOf
<1>2. SingleIds' = SingleIds
  BY <1>1 DEF SingleIds
<1>3. VocabBytes' = VocabBytes
  BY <1>2 DEF VocabBytes
<1>4. Literal' <=> Literal
  BY SameMerges DEF Literal, ContentOf
<1>5. CanSplit' <=> CanSplit
  BY <1>4 DEF CanSplit
<1>6. CanBatch' <=> CanBatch
  BY SameMerges DEF CanBatch
<1>7. Excluded' = Excluded
  BY SameMerges DEF Excluded
<1>8. Bigrams' = Bigrams
  BY <1>7 DEF Bigrams
<1>9. Built' = Built
  BY <1>3, <1>5, <1>6, <1>8 DEF Built
<1> QED BY <1>9 DEF Constructed

\* What EncodingIs says, of every state.
EncodingFacts ==
  Constructed =>
    \A w \in Seq(Vid) :
      /\ MergeStep(w) \in Seq(Vid)
      /\ Applicable(w) # {} => Len(MergeStep(w)) < Len(w)
      /\ \A v : v = MergeStep(w) => Encoding(v) = Encoding(w)
      /\ Applicable(w) = {} => Encoding(w) = w

\* It is a theorem, so that it holds after a step as well.
LEMMA EncodingHolds == EncodingFacts
  BY EncodingIs, MergeStepIs DEF EncodingFacts

\* The encoding of a word.
LEMMA SameEncoding ==
  ASSUME UNCHANGED <<model, built>>, Constructed
  PROVE  \A w \in Seq(Vid) : Encoding(w)' = Encoding(w)
<1>1. EncodingFacts'
  BY EncodingHolds, PTL
<1>2. Constructed'
  BY SameConstruction
<1>3. Vid' = Vid /\ \A w : Applicable(w)' = Applicable(w) /\ MergeStep(w)' = MergeStep(w)
  BY SameMerges
<1>4. \A w \in Seq(Vid) :
        /\ Applicable(w) # {} => \E v \in Seq(Vid) : /\ Len(v) < Len(w)
                                                     /\ Encoding(v) = Encoding(w)
                                                     /\ Encoding(v)' = Encoding(w)'
        /\ Applicable(w) = {} => Encoding(w) = w /\ Encoding(w)' = w
  <2> TAKE w \in Seq(Vid)
  <2>1. CASE Applicable(w) # {}
    <3>1. PICK v : v = MergeStep(w)
      OBVIOUS
    <3>2. v \in Seq(Vid) /\ Len(v) < Len(w) /\ Encoding(v) = Encoding(w)
      BY <2>1, <3>1, EncodingHolds DEF EncodingFacts
    <3>3. Encoding(v)' = Encoding(w)'
      BY <1>1, <1>2, <1>3, <3>1 DEF EncodingFacts
    <3> QED BY <2>1, <3>2, <3>3
  <2>2. CASE Applicable(w) = {}
    BY <1>1, <1>2, <1>3, <2>2, EncodingHolds DEF EncodingFacts
  <2> QED BY <2>1, <2>2
<1>5. PICK Q : Q = {w \in Seq(Vid) : Encoding(w)' = Encoding(w)}
  OBVIOUS
<1>6. PICK V : V = Vid
  OBVIOUS
<1>7. ASSUME NEW w \in Seq(V), \A v \in Seq(V) : Len(v) < Len(w) => v \in Q
      PROVE  w \in Q
  <2>1. CASE Applicable(w) # {}
    <3>1. PICK v \in Seq(V) : /\ Len(v) < Len(w)
                              /\ Encoding(v) = Encoding(w) /\ Encoding(v)' = Encoding(w)'
      BY <1>4, <1>6, <2>1
    <3> QED BY <1>5, <1>6, <1>7, <3>1
  <2>2. CASE Applicable(w) = {}
    BY <1>4, <1>5, <1>6, <2>2
  <2> QED BY <2>1, <2>2
<1>8. \A w \in Seq(V) : w \in Q
  BY <1>7, SeqInd
<1> QED BY <1>5, <1>6, <1>8

\* What a text is encoded to.
LEMMA SameIds ==
  ASSUME UNCHANGED <<model, built>>, Constructed
  PROVE  /\ \A text \in Seq(Scalar) : InVocab(text) => Greedy(text)' = Greedy(text)
         /\ \A piece : piece.text \in Seq(Scalar) /\ (piece.special \/ InVocab(piece.text))
                         => IdsOf(piece)' = IdsOf(piece)
<1>1. ASSUME NEW text \in Seq(Scalar), InVocab(text)
      PROVE  Greedy(text)' = Greedy(text)
  <2>1. PICK w : w = Pretoken(text)
    OBVIOUS
  <2>2. Greedy(text) = Encoding(w) /\ Greedy(text)' = Encoding(w)'
    BY <2>1, SameUnits DEF Greedy
  <2>3. w \in Seq(Vid)
    BY <1>1, <2>1, PretokenIs
  <2> QED BY <2>2, <2>3, SameEncoding
<1>2. ASSUME NEW piece, piece.text \in Seq(Scalar), piece.special \/ InVocab(piece.text)
      PROVE  IdsOf(piece)' = IdsOf(piece)
  <2>1. SpecialIds(piece.text)' = SpecialIds(piece.text)
    BY SameUnits
  <2>2. CASE piece.special
    BY <2>1, <2>2 DEF IdsOf
  <2>3. CASE ~piece.special
    BY <1>1, <1>2, <2>3 DEF IdsOf
  <2> QED BY <2>2, <2>3
<1> QED BY <1>1, <1>2

\* The pieces of an input.
LEMMA SamePieces ==
  ASSUME UNCHANGED <<model, built>>
  PROVE  \A op, input : PiecesOf(op, input)' = PiecesOf(op, input)
<1>1. \A text, i : CutBefore(text, i)' <=> CutBefore(text, i)
  BY DEF CutBefore
<1>2. \A text : Uncut(text)' <=> Uncut(text)
  BY <1>1 DEF Uncut
<1>3. \A text : Emitted(text)' = Emitted(text)
  BY <1>1, Zenon DEF Emitted
<1>4. \A text : Segments(text)' = Segments(text)
  BY <1>2, <1>3 DEF Segments
<1> QED BY <1>4 DEF PiecesOf

-----------------------------------------------------------------------------
(* One merge. *)

\* What a merge makes of a word: the pair is gone, what comes is reported with
\* a positive change, and has the target in it when that is new to the word.
LEMMA Merging ==
  ASSUME Constructed, JoiningModels, NEW w \in Seq(Vid), NEW r \in Ranks
  PROVE  LET m == MergeWord(w, 1, PairOf(r), TargetOf(r))
         IN /\ m.idxs = Replaced(w, PairOf(r), TargetOf(r)) /\ m.idxs \in Seq(Vid)
            /\ PairOf(r) \notin PairsOf(m.idxs)
            /\ PairOf(r) \notin PairsOf(w) => m.idxs = w
            /\ \A k : /\ Entry(m.changes, k) \in Int
                      /\ k \notin PairsOf(w) => /\ Entry(m.changes, k) >= 0
                                                /\ k \in PairsOf(m.idxs) <=> Entry(m.changes, k) > 0
                      /\ Entry(m.changes, k) > 0 => k \in DOMAIN m.changes
            /\ Elements(m.idxs) \subseteq Elements(w) \cup {TargetOf(r)}
            /\ TargetOf(r) \notin Elements(w) =>
                 \A k \in PairsOf(m.idxs) :
                   k \in PairsOf(w) \/ k[1] = TargetOf(r) \/ k[2] = TargetOf(r)
<1> DEFINE m == MergeWord(w, 1, PairOf(r), TargetOf(r))
           tp == PairOf(r)
           target == TargetOf(r)
<1>1. target \in Vid /\ tp[1] # target /\ tp[2] # target
  BY ModelTypes, TargetsAreNew
<1> HIDE DEF m, tp, target
<1>2. m.idxs = Replaced(w, tp, target)
  BY <1>1, MergeWordReplaces DEF m, tp, target
<1>3. m.idxs \in Seq(Vid)
  BY <1>1, <1>2, ReplacedType
<1>4. \A k : /\ Entry(m.changes, k) \in Int
             /\ Entry(m.changes, k) = 1 * (PairCount(m.idxs, k) - PairCount(w, k))
  BY <1>1, ChangesAreExact DEF m, tp, target
<1>5. \A k : /\ PairCount(m.idxs, k) \in Nat /\ PairCount(w, k) \in Nat
             /\ k \in PairsOf(m.idxs) <=> PairCount(m.idxs, k) > 0
             /\ k \in PairsOf(w) <=> PairCount(w, k) > 0
  BY <1>3, CountType, Occurs
<1>6. tp \notin PairsOf(m.idxs)
  <2>1. PairCount(m.idxs, tp) = 0
    BY <1>1, MergeWordRemoves DEF m, tp, target
  <2> QED BY <1>5, <2>1
<1>7. tp \notin PairsOf(w) => m.idxs = w
  BY <1>1, <1>2, NothingToReplace
<1>8. \A k : k \notin PairsOf(w) => /\ Entry(m.changes, k) >= 0
                                    /\ k \in PairsOf(m.idxs) <=> Entry(m.changes, k) > 0
  <2> TAKE k
  <2>1. /\ PairCount(m.idxs, k) \in Nat /\ PairCount(w, k) \in Nat
        /\ k \in PairsOf(m.idxs) <=> PairCount(m.idxs, k) > 0
        /\ k \in PairsOf(w) <=> PairCount(w, k) > 0
        /\ Entry(m.changes, k) = 1 * (PairCount(m.idxs, k) - PairCount(w, k))
    BY <1>4, <1>5
  <2> QED BY <2>1
<1>9. \A k : Entry(m.changes, k) > 0 => k \in DOMAIN m.changes
  BY DEF Entry
<1>10. Elements(m.idxs) \subseteq Elements(w) \cup {target}
  <2> DEFINE U == Elements(w) \cup {target}
  <2>1. w \in Seq(U)
    BY ElementsOf
  <2>2. target \in U
    OBVIOUS
  <2> HIDE DEF U
  <2>3. Replaced(w, tp, target) \in Seq(U)
    BY <2>1, <2>2, ReplacedType
  <2> QED BY <1>2, <2>3 DEF U, Elements
<1>11. ASSUME target \notin Elements(w), NEW k \in PairsOf(m.idxs)
       PROVE  k \in PairsOf(w) \/ k[1] = target \/ k[2] = target
  <2>1. w \in Seq(Elements(w))
    BY ElementsOf
  <2>2. Shrinks(m.idxs, w, tp, target)
    BY <1>2, <1>11, <2>1, ReplacedShrinks
  <2>3. k[1] # target /\ k[2] # target => PairCount(m.idxs, k) <= PairCount(w, k)
    BY <2>2 DEF Shrinks
  <2> QED BY <1>5, <1>11, <2>3
<1> QED BY <1>2, <1>3, <1>4, <1>6, <1>7, <1>8, <1>9, <1>10, <1>11 DEF m, tp, target

-----------------------------------------------------------------------------
(* The segments of a text. *)

\* What the loop has emitted after each of the first n scalars.
Emits(f, n, text) ==
  f = [i \in 0..n |->
         IF i = 0 THEN << >>
         ELSE LET s == f[i - 1]
              IN IF i = 1 \/ CutBefore(text, i) THEN Append(s, <<text[i]>>)
                 ELSE Append(Front(s), Append(Last(s), text[i]))]

\* The definition of Emitted by recursion defines it.
LEMMA EmittedUnfold ==
  ASSUME NEW text \in Seq(Scalar)
  PROVE  Emits(Emitted(text), Len(text), text)
<1> DEFINE S == {n \in Nat : \E f : Emits(f, n, text)}
           Step(s, i) == IF i = 1 \/ CutBefore(text, i) THEN Append(s, <<text[i]>>)
                         ELSE Append(Front(s), Append(Last(s), text[i]))
<1>1. 0 \in S
  <2> DEFINE g == [i \in 0..0 |-> << >>]
  <2>1. Emits(g, 0, text)
    BY DEF Emits
  <2> QED BY <2>1
<1>2. ASSUME NEW n \in S PROVE n + 1 \in S
  <2>1. PICK g : Emits(g, n, text)
    OBVIOUS
  <2>2. n \in Nat
    OBVIOUS
  <2> DEFINE h == [i \in 0..n + 1 |-> IF i = n + 1 THEN Step(g[n], i) ELSE g[i]]
  <2>3. \A i \in 0..n : g[i] = IF i = 0 THEN << >> ELSE Step(g[i - 1], i)
    BY <2>1, Zenon DEF Emits
  <2> HIDE DEF Step
  <2>4. \A i \in 0..n + 1 : h[i] = IF i = 0 THEN << >> ELSE Step(h[i - 1], i)
    <3> TAKE i \in 0..n + 1
    <3>1. CASE i = n + 1
      BY <2>2, <3>1
    <3>2. CASE i # n + 1
      <4>1. i \in 0..n /\ (i # 0 => i - 1 \in 0..n /\ h[i - 1] = g[i - 1])
        BY <2>2, <3>2
      <4> QED BY <2>3, <3>2, <4>1
    <3> QED BY <3>1, <3>2
  <2>5. h = [i \in 0..n + 1 |-> h[i]]
    OBVIOUS
  <2> HIDE DEF h
  <2>6. h = [i \in 0..n + 1 |-> IF i = 0 THEN << >> ELSE Step(h[i - 1], i)]
    BY <2>4, <2>5
  <2>7. Emits(h, n + 1, text)
    BY <2>6, Zenon DEF Emits, Step
  <2> QED BY <2>2, <2>7
<1>3. S = Nat
  <2>1. S \in SUBSET Nat
    OBVIOUS
  <2> HIDE DEF S
  <2> QED BY <1>1, <1>2, <2>1, NatInd
<1>4. \E f : Emits(f, Len(text), text)
  <2>1. Len(text) \in Nat
    OBVIOUS
  <2>2. Len(text) \in S
    <3> HIDE DEF S
    <3> QED BY <1>3, <2>1
  <2> QED BY <2>2
<1> DEFINE f == CHOOSE g : Emits(g, Len(text), text)
<1>5. Emits(f, Len(text), text)
  BY <1>4, Zenon
<1>6. Emitted(text) = f
  BY Zenon DEF Emitted, Emits
<1> QED BY <1>5, <1>6

\* Cutting a text loses nothing of it.
LEMMA SegmentsAre ==
  ASSUME NEW text \in Seq(Scalar)
  PROVE  Segments(text) \in Seq(Seq(Scalar)) /\ FlattenSeq(Segments(text)) = text
<1> DEFINE W == Seq(Scalar)
           e == Emitted(text)
           n == Len(text)
<1>1. n \in Nat /\ \A i \in 1..n : text[i] \in Scalar
  OBVIOUS
<1>2. Emits(e, n, text)
  BY EmittedUnfold
<1>3. \A x \in W, u \in Scalar : <<u>> \in W /\ Append(x, u) \in W /\ Append(x, u) = x \o <<u>>
  BY AppendIsConcat
<1>4. \A x \in W, y \in W, z \in W : x \o y \in W /\ (x \o y) \o z = x \o (y \o z)
  BY ConcatProperties, ConcatAssociative
<1>5. \A ss \in Seq(W) : /\ FlattenSeq(ss) \in W
                         /\ \A s \in W : FlattenSeq(Append(ss, s)) = FlattenSeq(ss) \o s
  BY Flattened
<1>6. \A i \in 1..n : SubSeq(text, 1, i) = SubSeq(text, 1, i - 1) \o <<text[i]>>
  BY <1>1, SubSeqRecursiveSecond
<1> HIDE DEF W
<1>7. << >> \in Seq(W) /\ FlattenSeq(<< >>) = << >> /\ \A x \in W : << >> \o x = x
  <2>1. \A x \in W : << >> \o x = x
    BY ConcatEmptySeq DEF W
  <2> QED BY <2>1 DEF FlattenSeq
<1> DEFINE Good(i) == /\ e[i] \in Seq(W) /\ (i # 0 => e[i] # << >>)
                      /\ FlattenSeq(e[i]) = SubSeq(text, 1, i)
           S == {i \in Nat : i <= n => Good(i)}
<1>8. 0 \in S
  <2>1. e[0] = << >>
    BY <1>1, <1>2 DEF Emits
  <2>2. SubSeq(text, 1, 0) = << >>
    BY SubSeqEmpty
  <2> QED BY <1>7, <2>1, <2>2
<1>9. ASSUME NEW i \in S PROVE i + 1 \in S
  <2> SUFFICES ASSUME i + 1 <= n PROVE Good(i + 1)
    OBVIOUS
  <2> DEFINE u == text[i + 1]
             s == e[i]
  <2>1. i \in Nat /\ i + 1 \in 1..n /\ i + 1 \in 0..n /\ i + 1 - 1 = i /\ i + 1 # 0 /\ Good(i)
    BY <1>1
  <2>2. e[i + 1] = IF i + 1 = 1 \/ CutBefore(text, i + 1) THEN Append(s, <<u>>)
                   ELSE Append(Front(s), Append(Last(s), u))
    <3> DEFINE Step(x, j) == IF j = 1 \/ CutBefore(text, j) THEN Append(x, <<text[j]>>)
                             ELSE Append(Front(x), Append(Last(x), text[j]))
    <3>1. \A j \in 0..n : e[j] = IF j = 0 THEN << >> ELSE Step(e[j - 1], j)
      BY <1>2, Zenon DEF Emits
    <3> HIDE DEF Step
    <3>2. e[i + 1] = Step(s, i + 1)
      BY <2>1, <3>1
    <3> QED BY <3>2 DEF Step
  <2>3. u \in Scalar /\ <<u>> \in W /\ SubSeq(text, 1, i + 1) = FlattenSeq(s) \o <<u>>
    <3>1. u \in Scalar
      BY <1>1, <2>1
    <3>2. \A x \in W : <<u>> \in W
      BY <1>3, <3>1
    <3>3. SubSeq(text, 1, i + 1) = SubSeq(text, 1, i) \o <<u>>
      <4>1. SubSeq(text, 1, i + 1) = SubSeq(text, 1, i + 1 - 1) \o <<text[i + 1]>>
        BY ONLY <1>6, <2>1
      <4> QED BY ONLY <2>1, <4>1 DEF u
    <3>4. << >> \in W
      BY DEF W
    <3> QED BY <2>1, <3>1, <3>2, <3>3, <3>4
  <2>4. CASE i + 1 = 1 \/ CutBefore(text, i + 1)
    <3>1. e[i + 1] = Append(s, <<u>>)
      BY <2>2, <2>4
    <3>2. s \in Seq(W)
      BY <2>1
    <3>3. Append(s, <<u>>) \in Seq(W) /\ Append(s, <<u>>) # << >>
      BY <2>3, <3>2, AppendProperties
    <3>4. FlattenSeq(Append(s, <<u>>)) = FlattenSeq(s) \o <<u>>
      BY <1>5, <2>3, <3>2
    <3> QED BY <2>3, <3>1, <3>3, <3>4
  <2>5. CASE ~(i + 1 = 1 \/ CutBefore(text, i + 1))
    <3>1. e[i + 1] = Append(Front(s), Append(Last(s), u))
      BY <2>2, <2>5
    <3>2. Front(s) \in Seq(W) /\ Last(s) \in W /\ s = Append(Front(s), Last(s))
      BY <2>1, <2>5, FrontIs
    <3>3. FlattenSeq(s) = FlattenSeq(Front(s)) \o Last(s) /\ FlattenSeq(Front(s)) \in W
      BY <1>5, <3>2
    <3> DEFINE l == Append(Last(s), u)
    <3>4. l \in W /\ l = Last(s) \o <<u>>
      BY <1>3, <2>3, <3>2
    <3> HIDE DEF l
    <3>5. Append(Front(s), l) \in Seq(W) /\ Append(Front(s), l) # << >>
      BY <3>2, <3>4, AppendProperties
    <3>6. FlattenSeq(Append(Front(s), l)) = FlattenSeq(Front(s)) \o l
      BY <1>5, <3>2, <3>4
    <3>7. FlattenSeq(Front(s)) \o l = FlattenSeq(s) \o <<u>>
      <4> DEFINE x == FlattenSeq(Front(s))
                 y == Last(s)
                 z == <<u>>
      <4>1. x \in W /\ y \in W /\ z \in W /\ l = y \o z /\ FlattenSeq(s) = x \o y
        BY <2>3, <3>2, <3>3, <3>4
      <4> HIDE DEF x, y, z
      <4>2. (x \o y) \o z = x \o (y \o z)
        BY <1>4, <4>1
      <4>3. x \o l = FlattenSeq(s) \o z
        BY <4>1, <4>2
      <4> QED BY <4>3 DEF x, z
    <3> QED BY <2>3, <3>1, <3>5, <3>6, <3>7 DEF l
  <2> QED BY <2>4, <2>5
<1>10. S = Nat
  <2>1. S \in SUBSET Nat
    OBVIOUS
  <2> HIDE DEF S
  <2> QED BY <1>8, <1>9, <2>1, NatInd
<1>11. Good(n)
  BY <1>1, <1>10
<1>12. SubSeq(text, 1, n) = text
  BY SubSeqFull
<1>13. <<text>> \in Seq(W) /\ FlattenSeq(<<text>>) = text
  <2>1. text \in W /\ << >> \in Seq(W) /\ <<text>> = Append(<< >>, text)
    BY <1>7 DEF W
  <2>2. Append(<< >>, text) \in Seq(W)
    BY <2>1, AppendProperties
  <2>3. FlattenSeq(Append(<< >>, text)) = FlattenSeq(<< >>) \o text
    BY <1>5, <2>1
  <2> QED BY <1>7, <2>1, <2>2, <2>3
<1> QED BY <1>11, <1>12, <1>13 DEF Segments, W

-----------------------------------------------------------------------------
(* The invariant. *)

\* A word, or a special token, of an input.
Piece == [special : BOOLEAN, text : Seq(Scalar)]

Busy == {"pieces", "merging", "batch", "missing"}

\* A piece that has ids.
Encodable(p) == IF p.special THEN SpecialIds(p.text) # {} ELSE InVocab(p.text)

\* Only strings have special tokens, and these are in the vocabulary.
Given(op, p) == p.special => op = "string" /\ SpecialIds(p.text) # {}

Fields == {"pc", "op", "input", "pieces", "todo", "encoded", "missing", "fresh",
           "work", "queue", "occurs", "rank", "result"}

IsCall(s) ==
  /\ s = [f \in Fields |-> s[f]]
  /\ s.pc \in Busy \cup {"idle", "ok", "error"}
  /\ s.op \in {"word", "words", "string"}
  /\ s.input \in Seq(Piece)

\* Every piece is to come, has its ids, or waits among the missing words; only
\* encode_words has such words, and those that are encoded are encoded right.
Gathered(s) ==
  /\ s.pieces = PiecesOf(s.op, s.input) /\ s.pieces \in Seq(Piece)
  /\ s.todo \in Seq(Elements(s.pieces))
  /\ \A p \in Elements(s.pieces) : Given(s.op, p)
  /\ s.op # "words" => s.missing = << >>
  /\ \A p \in Elements(s.pieces) :
       p \in Elements(s.todo) \/ p \in DOMAIN s.encoded \/ p.text \in Elements(s.missing)
  /\ \A p \in DOMAIN s.encoded : p \in Piece /\ Encodable(p) /\ s.encoded[p] = IdsOf(p)
  /\ s.missing \in Seq({p.text : p \in Elements(s.pieces)})
  /\ s.fresh \in Seq(Seq(Vid)) /\ Len(s.fresh) <= Len(s.missing)
  /\ \A i \in 1..Len(s.fresh) : InVocab(s.missing[i]) /\ s.fresh[i] = Greedy(s.missing[i])

\* The text _encode_word works on.
MergedText(s) == IF s.op = "words" THEN s.missing[Len(s.fresh) + 1] ELSE Head(s.todo).text

\* The word has the encoding of its text, and the merges that apply are queued.
MergingOK(s) ==
  /\ IF s.op = "words" THEN s.todo = << >> /\ Len(s.fresh) < Len(s.missing)
     ELSE s.fresh = << >> /\ s.todo # << >> /\ ~Head(s.todo).special
  /\ s.work = <<s.work[1]>> /\ s.work[1] \in Seq(Vid)
  /\ InVocab(MergedText(s)) /\ Encoding(s.work[1]) = Greedy(MergedText(s))
  /\ s.queue \subseteq {r \in Ranks : RankOf(PairOf(r)) = r}
  /\ Applicable(s.work[1]) \subseteq s.queue

\* The same of every word of a batch before the given rank: lower ranks are
\* done with, the targets of the others are still to come, and the words each
\* of these may apply to are known.
WordOK(w, text, i, rank, occurs) ==
  /\ w \in Seq(Vid) /\ InVocab(text) /\ Encoding(w) = Greedy(text)
  /\ \A r \in Ranks :
       /\ r < rank => PairOf(r) \notin PairsOf(w)
       /\ r >= rank => /\ TargetOf(r) \notin Elements(w)
                       /\ PairOf(r) \in PairsOf(w) => i \in occurs[r]

BatchOK(s) ==
  /\ built.can_batch /\ s.fresh = << >> /\ s.rank \in Nat \ {0}
  /\ s.work = [i \in 1..Len(s.missing) |-> s.work[i]]
  /\ DOMAIN s.occurs = Ranks /\ \A r \in Ranks : s.occurs[r] \subseteq 1..Len(s.missing)
  /\ \A i \in 1..Len(s.missing) : WordOK(s.work[i], s.missing[i], i, s.rank, s.occurs)

\* What a call on these pieces returns.
Answer(op, pieces) ==
  LET ids == [i \in DOMAIN pieces |-> IdsOf(pieces[i])]
  IN IF op = "string" THEN <<FlattenSeq(ids)>> ELSE ids

Returned(s) ==
  /\ \A p \in Elements(PiecesOf(s.op, s.input)) : Encodable(p)
  /\ s.result = Answer(s.op, PiecesOf(s.op, s.input))

Refused(s) ==
  \E p \in Elements(PiecesOf(s.op, s.input)) : ~p.special /\ ~InVocab(p.text)

CallOK(s) ==
  /\ IsCall(s)
  /\ s.pc \in Busy => Gathered(s)
  /\ s.pc \notin Busy => s.missing = << >> /\ s.fresh = << >>
  /\ s.pc \notin {"merging", "batch"} => s.work = << >>
  /\ s.pc # "merging" => s.queue = {}
  /\ s.pc = "pieces" => s.fresh = << >>
  /\ s.pc \in {"batch", "missing"} => s.op = "words" /\ s.todo = << >>
  /\ s.pc = "merging" => MergingOK(s)
  /\ s.pc = "batch" => BatchOK(s)
  /\ s.pc = "ok" => Returned(s)
  /\ s.pc = "error" => Refused(s)

\* The cache holds words and their encodings.
CacheOK == \A t \in DOMAIN cache : t \in Seq(Scalar) /\ InVocab(t) /\ cache[t] = Greedy(t)

EncoderInv ==
  /\ Constructed
  /\ CacheOK
  /\ DOMAIN call = Caller
  /\ \A c \in Caller : \A s : s = call[c] => CallOK(s)

\* The pieces of an input; the same pieces when nothing is cut.
LEMMA PiecesAre ==
  ASSUME NEW P, \A t \in Seq(Scalar) : [special |-> FALSE, text |-> t] \in P,
         \A p \in P : p.text \in Seq(Scalar),
         NEW op, NEW input \in Seq(P)
  PROVE  /\ PiecesOf(op, input) \in Seq(P)
         /\ op # "string" => PiecesOf(op, input) = input
<1> DEFINE n == Len(input)
           Texts(s) == [k \in DOMAIN s |-> [special |-> FALSE, text |-> s[k]]]
           f == [i \in 1..n |-> IF input[i].special THEN <<input[i]>>
                                ELSE Texts(Segments(input[i].text))]
<1>1. n \in Nat /\ DOMAIN input = 1..n /\ \A i \in 1..n : input[i] \in P
  OBVIOUS
<1>2. \A s \in Seq(Seq(Scalar)) : Texts(s) \in Seq(P)
  <2> DEFINE W == Seq(Scalar)
  <2> SUFFICES ASSUME NEW s \in Seq(W) PROVE Texts(s) \in Seq(P)
    OBVIOUS
  <2>1. \A t \in W : [special |-> FALSE, text |-> t] \in P
    OBVIOUS
  <2> HIDE DEF W
  <2>2. Len(s) \in Nat /\ DOMAIN s = 1..Len(s) /\ \A k \in 1..Len(s) : s[k] \in W
    OBVIOUS
  <2>3. Texts(s) = [k \in 1..Len(s) |-> [special |-> FALSE, text |-> s[k]]]
    BY <2>2
  <2> QED BY <2>1, <2>2, <2>3
<1>3. \A i \in 1..n : input[i].text \in Seq(Scalar)
  BY <1>1
<1> HIDE DEF Texts
<1>4. \A i \in 1..n : f[i] \in Seq(P)
  <2> TAKE i \in 1..n
  <2>1. Segments(input[i].text) \in Seq(Seq(Scalar))
    BY <1>3, SegmentsAre
  <2>2. Texts(Segments(input[i].text)) \in Seq(P)
    BY <1>2, <2>1
  <2>3. <<input[i]>> \in Seq(P)
    BY <1>1
  <2> QED BY <2>2, <2>3
<1>5. FlattenSeq([i \in 1..n |-> f[i]]) \in Seq(P)
  <2> HIDE DEF f, n
  <2> QED BY <1>1, <1>4, FlattenMap
<1>6. op = "string" => PiecesOf(op, input) = FlattenSeq(f)
  BY <1>1, Zenon DEF PiecesOf, Texts
<1>7. f = [i \in 1..n |-> f[i]]
  OBVIOUS
<1>8. op # "string" => PiecesOf(op, input) = input
  BY DEF PiecesOf
<1> QED BY <1>5, <1>6, <1>7, <1>8

\* What is known of the lengths.
LEMMA LengthsAre ==
  ASSUME NEW s, Gathered(s)
  PROVE  Len(s.fresh) \in Nat /\ Len(s.missing) \in Nat /\ Len(s.fresh) <= Len(s.missing)
<1> DEFINE W == Seq(Vid)
           T == {p.text : p \in Elements(s.pieces)}
<1>1. s.fresh \in Seq(W) /\ s.missing \in Seq(T) /\ Len(s.fresh) <= Len(s.missing)
  BY DEF Gathered
<1> HIDE DEF W, T
<1> QED BY <1>1

\* The words that wait are words of the input.
LEMMA TextsAre ==
  ASSUME NEW s, Gathered(s)
  PROVE  /\ \A p \in Elements(s.pieces) : p \in Piece /\ p.text \in Seq(Scalar)
         /\ \A i \in 1..Len(s.missing) :
              /\ s.missing[i] \in Seq(Scalar)
              /\ \E p \in Elements(s.pieces) : p.text = s.missing[i]
         /\ \A i \in 1..Len(s.fresh) : s.missing[i] \in Seq(Scalar)
         /\ \A i \in 1..Len(s.todo) : s.todo[i] \in Elements(s.pieces)
<1>1. \A p \in Elements(s.pieces) : p \in Piece /\ p.text \in Seq(Scalar)
  <2> SUFFICES ASSUME NEW p \in Elements(s.pieces) PROVE p \in Piece
    BY DEF Piece
  <2> DEFINE P == Piece
  <2>1. s.pieces \in Seq(P)
    BY DEF Gathered
  <2> HIDE DEF P
  <2>2. p \in P
    BY <2>1 DEF Elements
  <2> QED BY <2>2 DEF P
<1> DEFINE T == {p.text : p \in Elements(s.pieces)}
           E == Elements(s.pieces)
<1>2. s.missing \in Seq(T) /\ s.todo \in Seq(E)
  BY DEF Gathered
<1>3. \A t \in T : t \in Seq(Scalar) /\ \E p \in Elements(s.pieces) : p.text = t
  BY <1>1
<1> HIDE DEF T, E
<1>4. \A i \in 1..Len(s.missing) : s.missing[i] \in T
  BY <1>2
<1>5. \A i \in 1..Len(s.todo) : s.todo[i] \in E
  BY <1>2
<1>7. \A i \in 1..Len(s.fresh) : i \in 1..Len(s.missing)
  BY LengthsAre
<1>8. \A i \in 1..Len(s.missing) : /\ s.missing[i] \in Seq(Scalar)
                                   /\ \E p \in Elements(s.pieces) : p.text = s.missing[i]
  BY <1>3, <1>4
<1> QED BY <1>1, <1>5, <1>7, <1>8 DEF E

\* So is the one that is merged.
LEMMA CurrentIs ==
  ASSUME NEW s, Gathered(s), MergingOK(s)
  PROVE  MergedText(s) \in Seq(Scalar) /\ \E p \in Elements(s.pieces) : ~p.special /\ p.text = MergedText(s)
<1>1. CASE s.op = "words"
  <2>1. Len(s.fresh) \in Nat /\ Len(s.missing) \in Nat /\ Len(s.fresh) < Len(s.missing)
    BY <1>1, LengthsAre DEF MergingOK
  <2>2. Len(s.fresh) + 1 \in 1..Len(s.missing)
    BY <2>1
  <2> QED BY <1>1, <2>2, TextsAre DEF MergedText, Gathered, Given
<1>2. CASE s.op # "words"
  <2> DEFINE E == Elements(s.pieces)
  <2>1. s.todo \in Seq(E) /\ s.todo # << >> /\ ~Head(s.todo).special
    BY <1>2 DEF Gathered, MergingOK
  <2> HIDE DEF E
  <2>2. Head(s.todo) \in E
    BY <2>1
  <2> QED BY <1>2, <2>1, <2>2, TextsAre DEF MergedText, E
<1> QED BY <1>1, <1>2

\* What is said of a call stays true while the encoder is the same.
LEMMA SameCall ==
  ASSUME UNCHANGED <<model, built>>, Constructed, NEW s, CallOK(s)
  PROVE  CallOK(s)'
<1>1. \A text : InVocab(text)' <=> InVocab(text)
  BY SameUnits
<1>2. \A p, op : (Encodable(p)' <=> Encodable(p)) /\ (Given(op, p)' <=> Given(op, p))
  BY <1>1, SameUnits DEF Encodable, Given
<1>3. \A text \in Seq(Scalar) : InVocab(text) => Greedy(text)' = Greedy(text)
  BY SameIds
<1>4. \A p \in Piece : Encodable(p) => IdsOf(p)' = IdsOf(p)
  BY SameIds DEF Encodable, Piece
<1>5. \A op, input : PiecesOf(op, input)' = PiecesOf(op, input)
  BY SamePieces
<1>6. Vid' = Vid /\ Ranks' = Ranks
  BY SameMerges
<1>7. ASSUME Gathered(s) PROVE Gathered(s)'
  <2>1. \A i \in 1..Len(s.fresh) : s.missing[i] \in Seq(Scalar)
    BY <1>7, TextsAre DEF Gathered
  <2>2. \A i \in 1..Len(s.fresh) : Greedy(s.missing[i])' = Greedy(s.missing[i])
    BY <1>3, <1>7, <2>1 DEF Gathered
  <2>3. \A p \in DOMAIN s.encoded : IdsOf(p)' = IdsOf(p)
    BY <1>4, <1>7 DEF Gathered
  <2> QED BY <1>1, <1>2, <1>5, <1>6, <1>7, <2>2, <2>3 DEF Gathered
<1>8. ASSUME Gathered(s), MergingOK(s) PROVE MergingOK(s)'
  <2>1. MergedText(s) \in Seq(Scalar)
    BY <1>8, CurrentIs
  <2>2. Greedy(MergedText(s))' = Greedy(MergedText(s))
    BY <1>3, <1>8, <2>1 DEF MergingOK
  <2>3. Encoding(s.work[1])' = Encoding(s.work[1])
    BY <1>8, SameEncoding DEF MergingOK
  <2>4. Applicable(s.work[1])' = Applicable(s.work[1])
    BY SameMerges
  <2>5. \A r : RankOf(PairOf(r))' = RankOf(PairOf(r))
    BY SameMerges
  <2> QED BY <1>1, <1>6, <1>8, <2>2, <2>3, <2>4, <2>5 DEF MergingOK
<1>9. ASSUME Gathered(s), BatchOK(s) PROVE BatchOK(s)'
  <2>1. ASSUME NEW i \in 1..Len(s.missing)
        PROVE  WordOK(s.work[i], s.missing[i], i, s.rank, s.occurs)'
    <3> DEFINE w == s.work[i]
               t == s.missing[i]
    <3>1. WordOK(w, t, i, s.rank, s.occurs) /\ t \in Seq(Scalar)
      BY <1>9, TextsAre DEF BatchOK, Gathered
    <3> HIDE DEF w, t
    <3>2. Greedy(t)' = Greedy(t) /\ Encoding(w)' = Encoding(w)
      BY <1>3, <3>1, SameEncoding DEF WordOK
    <3>3. \A r : PairOf(r)' = PairOf(r) /\ TargetOf(r)' = TargetOf(r)
      BY SameMerges
    <3>4. WordOK(w, t, i, s.rank, s.occurs)'
      BY <1>1, <1>6, <3>1, <3>2, <3>3 DEF WordOK
    <3> QED BY <3>4 DEF w, t
  <2> QED BY <1>6, <1>9, <2>1 DEF BatchOK
<1>10. ASSUME IsCall(s), Returned(s) PROVE Returned(s)'
  <2> DEFINE ps == PiecesOf(s.op, s.input)
  <2>1. ps' = ps /\ ps \in Seq(Piece)
    <3>1. \A t \in Seq(Scalar) : [special |-> FALSE, text |-> t] \in Piece
      BY DEF Piece
    <3>2. \A p \in Piece : p.text \in Seq(Scalar)
      BY DEF Piece
    <3>3. s.input \in Seq(Piece)
      BY <1>10 DEF IsCall
    <3> QED BY <1>5, <3>1, <3>2, <3>3, PiecesAre
  <2> HIDE DEF ps
  <2>2. \A i \in DOMAIN ps : ps[i] \in Elements(ps) /\ ps[i] \in Piece
    BY <2>1 DEF Elements
  <2>3. \A i \in DOMAIN ps : IdsOf(ps[i])' = IdsOf(ps[i])
    BY <1>4, <1>10, <2>1, <2>2 DEF Returned, ps
  <2>4. \A op : Answer(op, ps)' = Answer(op, ps)
    BY <2>1, <2>3 DEF Answer
  <2> QED BY <1>2, <1>10, <2>1, <2>4 DEF Returned, ps
<1>11. ASSUME Refused(s) PROVE Refused(s)'
  BY <1>1, <1>5, <1>11 DEF Refused
<1>12. IsCall(s)
  BY DEF CallOK
<1> QED BY <1>7, <1>8, <1>9, <1>10, <1>11, <1>12 DEF CallOK, IsCall

-----------------------------------------------------------------------------
(* The steps keep the invariant. *)

\* A step of one caller.
LEMMA CallStep ==
  ASSUME EncoderInv, UNCHANGED <<model, built>>, CacheOK', NEW c \in Caller,
         NEW s, Become(c, s), CallOK(s)
  PROVE  EncoderInv'
<1>1. Constructed /\ Constructed'
  BY SameConstruction DEF EncoderInv
<1>2. DOMAIN call = Caller /\ DOMAIN call' = Caller
  BY DEF EncoderInv, Become
<1>3. ASSUME NEW d \in Caller, NEW t, t = call'[d]
      PROVE  CallOK(t)'
  <2>1. CallOK(t)
    <3>1. d = c => t = s
      BY <1>2, <1>3 DEF Become
    <3>2. d # c => t = call[d]
      BY <1>2, <1>3 DEF Become
    <3> QED BY <3>1, <3>2 DEF EncoderInv
  <2> QED BY <1>1, <2>1, SameCall
<1> QED BY <1>1, <1>2, <1>3 DEF EncoderInv

\* What a caller is doing.
LEMMA CallIsOK ==
  ASSUME EncoderInv, NEW c \in Caller
  PROVE  CallOK(call[c]) /\ Constructed
<1>1. PICK s : s = call[c]
  OBVIOUS
<1> QED BY <1>1 DEF EncoderInv

\* The cache stays good when nothing happens to it, when it takes the ids of a
\* word, and when it drops some.
LEMMA CacheSteps ==
  ASSUME EncoderInv, UNCHANGED <<model, built>>
  PROVE  /\ UNCHANGED cache => CacheOK'
         /\ \A t \in DOMAIN cache : Evict(t) => CacheOK'
         /\ \A t \in Seq(Scalar) : \A ids :
              InVocab(t) /\ ids = Greedy(t) /\ Cached(t, ids) => CacheOK'
<1>1. \A t \in Seq(Scalar) : InVocab(t) => InVocab(t)' /\ Greedy(t)' = Greedy(t)
  BY SameIds, SameUnits DEF EncoderInv
<1>2. \A t \in DOMAIN cache : t \in Seq(Scalar) /\ InVocab(t) /\ cache[t] = Greedy(t)
  BY DEF EncoderInv, CacheOK
<1>3. ASSUME \A t \in DOMAIN cache' : t \in Seq(Scalar) /\ InVocab(t) /\ cache'[t] = Greedy(t)
      PROVE  CacheOK'
  BY <1>1, <1>3 DEF CacheOK
<1>4. UNCHANGED cache => CacheOK'
  BY <1>2, <1>3
<1>5. ASSUME NEW t \in DOMAIN cache, Evict(t)
      PROVE  CacheOK'
  <2>1. DOMAIN cache' \subseteq DOMAIN cache /\ \A u \in DOMAIN cache' : cache'[u] = cache[u]
    BY <1>5 DEF Evict
  <2> QED BY <1>2, <1>3, <2>1
<1>6. ASSUME NEW t \in Seq(Scalar), NEW ids, InVocab(t), ids = Greedy(t), Cached(t, ids)
      PROVE  CacheOK'
  <2>1. /\ DOMAIN cache' = DOMAIN cache \cup {t}
        /\ \A u \in DOMAIN cache' : cache'[u] = IF u = t THEN ids ELSE cache[u]
    BY <1>6 DEF Cached, Put
  <2> QED BY <1>2, <1>3, <1>6, <2>1
<1> QED BY <1>4, <1>5, <1>6

\* A call goes on to its next piece, with the ids of more pieces, or with more
\* words that wait.
LEMMA Advances ==
  ASSUME NEW s, IsCall(s), Gathered(s), s.fresh = << >>, s.queue = {}, s.todo # << >>,
         NEW encoded, DOMAIN s.encoded \subseteq DOMAIN encoded,
         \A p \in DOMAIN encoded : p \in Piece /\ Encodable(p) /\ encoded[p] = IdsOf(p),
         NEW missing, missing \in Seq({p.text : p \in Elements(s.pieces)}),
         Elements(s.missing) \subseteq Elements(missing), s.op # "words" => missing = << >>,
         Head(s.todo) \in DOMAIN encoded \/ Head(s.todo).text \in Elements(missing)
  PROVE  CallOK([s EXCEPT !.pc = "pieces", !.work = << >>, !.todo = Tail(@),
                          !.encoded = encoded, !.missing = missing])
<1> DEFINE r == [s EXCEPT !.pc = "pieces", !.work = << >>, !.todo = Tail(@),
                          !.encoded = encoded, !.missing = missing]
<1>1. s = [f \in Fields |-> s[f]]
  BY DEF IsCall
<1>2. /\ r.pc = "pieces" /\ r.op = s.op /\ r.input = s.input /\ r.pieces = s.pieces
      /\ r.todo = Tail(s.todo) /\ r.encoded = encoded /\ r.missing = missing
      /\ r.fresh = s.fresh /\ r.work = << >> /\ r.queue = s.queue
      /\ r = [f \in Fields |-> r[f]]
  BY ONLY <1>1 DEF r, Fields
<1> HIDE DEF r
<1>3. IsCall(r)
  BY <1>2 DEF IsCall, Busy
<1> DEFINE E == Elements(s.pieces)
<1>4. s.todo \in Seq(E)
  BY DEF Gathered
<1> HIDE DEF E
<1>5. /\ Tail(s.todo) \in Seq(E)
      /\ \A p \in Elements(s.todo) : p = Head(s.todo) \/ p \in Elements(Tail(s.todo))
  <2>1. Tail(s.todo) \in Seq(E) /\ Len(Tail(s.todo)) = Len(s.todo) - 1 /\ Len(s.todo) \in Nat \ {0}
    BY <1>4
  <2>2. \A i \in 2..Len(s.todo) : i - 1 \in 1..Len(Tail(s.todo)) /\ Tail(s.todo)[i - 1] = s.todo[i]
    BY <1>4, <2>1
  <2>3. \A i \in 1..Len(s.todo) : i = 1 \/ i \in 2..Len(s.todo)
    BY <2>1
  <2>4. Head(s.todo) = s.todo[1] /\ DOMAIN s.todo = 1..Len(s.todo)
    BY <1>4
  <2>5. DOMAIN Tail(s.todo) = 1..Len(Tail(s.todo))
    BY <2>1
  <2>6. ASSUME NEW i \in 1..Len(s.todo), i # 1
        PROVE  s.todo[i] \in Elements(Tail(s.todo))
    BY <2>2, <2>3, <2>5, <2>6 DEF Elements
  <2> QED BY <2>1, <2>4, <2>6 DEF Elements
<1>6. ASSUME NEW p \in E
      PROVE  p \in Elements(Tail(s.todo)) \/ p \in DOMAIN encoded \/ p.text \in Elements(missing)
  <2>1. p \in Elements(s.todo) \/ p \in DOMAIN s.encoded \/ p.text \in Elements(s.missing)
    BY <1>6 DEF Gathered, E
  <2> QED BY <1>5, <2>1
<1>7. Gathered(r)
  <2>1. r.fresh \in Seq(Seq(Vid)) /\ Len(r.fresh) <= Len(r.missing) /\ 1..Len(r.fresh) = {}
    <3>1. Len(missing) \in Nat
      <4> DEFINE T == {p.text : p \in Elements(s.pieces)}
      <4>1. missing \in Seq(T)
        OBVIOUS
      <4> HIDE DEF T
      <4> QED BY <4>1
    <3>2. << >> \in Seq(Seq(Vid)) /\ Len(<< >>) = 0
      BY DEF Gathered
    <3> QED BY <1>2, <3>1, <3>2
  <2>2. r.pieces = PiecesOf(r.op, r.input) /\ r.pieces \in Seq(Piece)
    BY <1>2 DEF Gathered
  <2>3. \A p \in Elements(r.pieces) : Given(r.op, p)
    BY <1>2 DEF Gathered
  <2> QED BY <1>2, <1>5, <1>6, <2>1, <2>2, <2>3 DEF Gathered, E
<1>8. CallOK(r)
  <2>1. r.pc \in Busy /\ r.pc \notin {"merging", "batch", "missing", "ok", "error"}
    BY <1>2 DEF Busy
  <2> QED BY <1>2, <1>3, <1>7, <2>1 DEF CallOK
<1> QED BY <1>8 DEF r

\* Going through the pieces: one that was met before, a special token, a word
\* in the cache, and one encode_words comes back to.
LEMMA PieceSteps ==
  ASSUME EncoderInv, NEW c \in Caller
  PROVE  Known(c) \/ SpecialToken(c) \/ Hit(c) \/ Defer(c) => EncoderInv'
<1>1. PICK s : s = call[c]
  OBVIOUS
<1>2. CallOK(s) /\ CacheOK
  BY <1>1, CallIsOK DEF EncoderInv
<1> DEFINE Going(encoded, missing) == [s EXCEPT !.pc = "pieces", !.work = << >>, !.todo = Tail(@),
                                                !.encoded = encoded, !.missing = missing]
           p == Head(s.todo)
           T == {q.text : q \in Elements(s.pieces)}
<1>3. ASSUME AtPiece(c)
      PROVE  /\ IsCall(s) /\ Gathered(s) /\ s.pc = "pieces" /\ s.fresh = << >> /\ s.queue = {}
             /\ s.todo # << >> /\ s.work = << >>
             /\ s = [f \in Fields |-> s[f]]
             /\ p \in Elements(s.pieces) /\ p \in Piece /\ Given(s.op, p)
             /\ \A q \in DOMAIN s.encoded : q \in Piece /\ Encodable(q) /\ s.encoded[q] = IdsOf(q)
             /\ s.missing \in Seq(T)
             /\ s.op # "words" => s.missing = << >>
  <2>1. s.pc = "pieces" /\ s.todo # << >>
    BY <1>1, <1>3 DEF AtPiece
  <2>2. IsCall(s) /\ Gathered(s) /\ s.fresh = << >> /\ s.queue = {} /\ s.work = << >>
    BY <1>2, <2>1 DEF CallOK, Busy
  <2>3. p \in Elements(s.pieces)
    <3> DEFINE E == Elements(s.pieces)
    <3>1. s.todo \in Seq(E)
      BY <2>2 DEF Gathered
    <3> HIDE DEF E
    <3>2. p \in E
      BY <2>1, <3>1
    <3> QED BY <3>2 DEF E
  <2>4. p \in Piece
    BY <2>2, <2>3, TextsAre
  <2> QED BY <2>1, <2>2, <2>3, <2>4 DEF IsCall, Gathered
<1> HIDE DEF p, T
<1>4. ASSUME AtPiece(c), UNCHANGED <<model, built, cache>>, NEW encoded, NEW missing,
             Become(c, Going(encoded, missing)),
             DOMAIN s.encoded \subseteq DOMAIN encoded,
             \A q \in DOMAIN encoded : q \in Piece /\ Encodable(q) /\ encoded[q] = IdsOf(q),
             missing \in Seq(T),
             Elements(s.missing) \subseteq Elements(missing), s.op # "words" => missing = << >>,
             p \in DOMAIN encoded \/ p.text \in Elements(missing)
      PROVE  EncoderInv'
  <2>1. CallOK(Going(encoded, missing))
    BY <1>3, <1>4, Advances DEF p, T
  <2>2. CacheOK'
    BY <1>4, CacheSteps
  <2> HIDE DEF Going
  <2> QED BY <1>4, <2>1, <2>2, CallStep
<1>5. ASSUME AtPiece(c), UNCHANGED <<model, built, cache>>, NEW ids, p \notin DOMAIN s.encoded,
             Become(c, [s EXCEPT !.todo = Tail(@), !.encoded = Put(@, p, ids)]),
             Encodable(p), ids = IdsOf(p)
      PROVE  EncoderInv'
  <2> DEFINE encoded == Put(s.encoded, p, ids)
  <2>1. DOMAIN encoded = DOMAIN s.encoded \cup {p}
        /\ \A q \in DOMAIN encoded : encoded[q] = IF q = p THEN ids ELSE s.encoded[q]
    BY DEF Put
  <2> HIDE DEF encoded
  <2>2. [s EXCEPT !.todo = Tail(@), !.encoded = encoded] = Going(encoded, s.missing)
    BY <1>3, <1>5 DEF Fields
  <2>3. Become(c, Going(encoded, s.missing))
    BY <1>5, <2>2 DEF encoded
  <2>4. \A q \in DOMAIN encoded : q \in Piece /\ Encodable(q) /\ encoded[q] = IdsOf(q)
    BY <1>3, <1>5, <2>1
  <2> HIDE DEF Going
  <2> QED BY <1>3, <1>4, <1>5, <2>1, <2>3, <2>4
<1>6. ASSUME Known(c) PROVE EncoderInv'
  <2>1. /\ AtPiece(c) /\ UNCHANGED <<model, built, cache>>
        /\ Become(c, [s EXCEPT !.todo = Tail(@)])
        /\ p \in DOMAIN s.encoded \/ p.text \in Elements(s.missing)
    BY <1>1, <1>6 DEF Known, p
  <2>2. [s EXCEPT !.todo = Tail(@)] = Going(s.encoded, s.missing)
    BY <1>3, <2>1 DEF Fields
  <2> HIDE DEF Going
  <2> QED BY <1>3, <1>4, <2>1, <2>2
<1>7. ASSUME SpecialToken(c) PROVE EncoderInv'
  <2>1. /\ AtPiece(c) /\ UNCHANGED <<model, built, cache>>
        /\ p \notin DOMAIN s.encoded /\ p.special
        /\ Become(c, [s EXCEPT !.todo = Tail(@), !.encoded = Put(@, p, <<Max(SpecialIds(p.text))>>)])
    BY <1>1, <1>7 DEF SpecialToken, New, p
  <2>2. Encodable(p) /\ <<Max(SpecialIds(p.text))>> = IdsOf(p)
    BY <1>3, <2>1 DEF Encodable, Given, IdsOf
  <2> QED BY <1>5, <2>1, <2>2
<1>8. ASSUME Hit(c) PROVE EncoderInv'
  <2>1. /\ AtPiece(c) /\ UNCHANGED <<model, built, cache>>
        /\ p \notin DOMAIN s.encoded /\ ~p.special /\ p.text \in DOMAIN cache
        /\ Become(c, [s EXCEPT !.todo = Tail(@), !.encoded = Put(@, p, cache[p.text])])
    BY <1>1, <1>8 DEF Hit, New, p
  <2>2. Encodable(p) /\ cache[p.text] = IdsOf(p)
    BY <1>2, <2>1 DEF Encodable, IdsOf, CacheOK
  <2> QED BY <1>5, <2>1, <2>2
<1>9. ASSUME Defer(c) PROVE EncoderInv'
  <2> DEFINE missing == Append(s.missing, p.text)
  <2>1. /\ AtPiece(c) /\ UNCHANGED <<model, built, cache>> /\ s.op = "words"
        /\ Become(c, [s EXCEPT !.todo = Tail(@), !.missing = missing])
    BY <1>1, <1>9 DEF Defer, Missed, New, p
  <2>2. missing \in Seq(T) /\ Elements(missing) = Elements(s.missing) \cup {p.text}
    <3>1. p.text \in T /\ s.missing \in Seq(T)
      BY <1>3, <2>1 DEF T
    <3>2. /\ missing \in Seq(T) /\ Len(missing) = Len(s.missing) + 1
          /\ \A i \in 1..Len(missing) :
               missing[i] = IF i = Len(s.missing) + 1 THEN p.text ELSE s.missing[i]
      BY <3>1, AppendProperties
    <3>3. Len(s.missing) \in Nat /\ DOMAIN s.missing = 1..Len(s.missing)
          /\ DOMAIN missing = 1..Len(missing)
      BY <3>1, <3>2
    <3> HIDE DEF missing
    <3>4. \A i \in 1..Len(s.missing) : i \in 1..Len(missing) /\ missing[i] = s.missing[i]
      BY <3>2, <3>3
    <3>5. missing[Len(missing)] = p.text /\ Len(missing) \in 1..Len(missing)
      BY <3>2, <3>3
    <3>6. \A i \in 1..Len(missing) : i = Len(missing) \/ i \in 1..Len(s.missing)
      BY <3>2, <3>3
    <3> QED BY <3>2, <3>3, <3>4, <3>5, <3>6 DEF Elements
  <2> HIDE DEF missing
  <2>3. [s EXCEPT !.todo = Tail(@), !.missing = missing] = Going(s.encoded, missing)
    BY <1>3, <2>1 DEF Fields
  <2>4. Become(c, Going(s.encoded, missing))
    BY <2>1, <2>3
  <2> HIDE DEF Going
  <2> QED BY <1>3, <1>4, <2>1, <2>2, <2>4
<1> QED BY <1>6, <1>7, <1>8, <1>9

\* What is said of the pieces does not depend on the word that is merged.
LEMMA SameGathered ==
  ASSUME NEW s, Gathered(s), NEW r, r.op = s.op, r.input = s.input, r.pieces = s.pieces,
         r.todo = s.todo, r.encoded = s.encoded, r.missing = s.missing, r.fresh = s.fresh
  PROVE  Gathered(r)
BY DEF Gathered

\* A call fails at a word that has no ids.
LEMMA Fails ==
  ASSUME NEW c, IsCall(call[c]), Refused(call[c])
  PROVE  CallOK(Failed(c))
<1> DEFINE r == Failed(c)
<1>1. /\ r.pc = "error" /\ r.op = call[c].op /\ r.input = call[c].input
      /\ r.missing = << >> /\ r.fresh = << >> /\ r.work = << >> /\ r.queue = {}
      /\ r = [f \in Fields |-> r[f]]
  BY DEF Failed, Idle, Fields
<1> HIDE DEF r
<1>2. IsCall(r) /\ Refused(r)
  BY <1>1 DEF IsCall, Refused
<1>3. CallOK(r)
  BY <1>1, <1>2 DEF CallOK, Busy
<1> QED BY <1>3 DEF r

\* The first tokens of a word have its encoding, and their merges are queued.
LEMMA StartSteps ==
  ASSUME EncoderInv, NEW c \in Caller
  PROVE  StartPiece(c) \/ StartMissing(c) => EncoderInv'
<1>1. PICK s : s = call[c]
  OBVIOUS
<1>2. CallOK(s) /\ Constructed
  BY <1>1, CallIsOK
<1>3. ASSUME Start(c, MergedText(s)), Gathered(s), IsCall(s),
             IF s.op = "words" THEN s.todo = << >> /\ Len(s.fresh) < Len(s.missing)
             ELSE s.fresh = << >> /\ s.todo # << >> /\ ~Head(s.todo).special,
             MergedText(s) \in Seq(Scalar),
             \E p \in Elements(s.pieces) : ~p.special /\ p.text = MergedText(s)
      PROVE  EncoderInv'
  <2>1. UNCHANGED <<model, built>> /\ CacheOK'
    BY <1>3, CacheSteps DEF Start
  <2>2. CASE ~InVocab(MergedText(s))
    <3>1. Become(c, Failed(c))
      BY <1>3, <2>2 DEF Start
    <3>2. Refused(call[c])
      BY <1>1, <1>3, <2>2 DEF Refused, Gathered
    <3>3. CallOK(Failed(c))
      BY <1>1, <1>3, <3>2, Fails
    <3> QED BY <2>1, <3>1, <3>3, CallStep
  <2>3. CASE InVocab(MergedText(s))
    <3> DEFINE ids == Pretoken(MergedText(s))
               queue == Applicable(ids)
               r == [s EXCEPT !.pc = "merging", !.work = <<ids>>, !.queue = queue]
    <3>1. Become(c, r)
      BY <1>1, <1>3, <2>3, Zenon DEF Start, Applicable
    <3>2. ids \in Seq(Vid) /\ Encoding(ids) = Greedy(MergedText(s))
      BY <1>2, <1>3, <2>3, PretokenIs DEF Greedy
    <3>3. queue \subseteq {q \in Ranks : RankOf(PairOf(q)) = q}
      BY <1>2, AppliesIs
    <3> HIDE DEF ids, queue
    <3>4. /\ r.pc = "merging" /\ r.op = s.op /\ r.input = s.input /\ r.pieces = s.pieces
          /\ r.todo = s.todo /\ r.encoded = s.encoded /\ r.missing = s.missing
          /\ r.fresh = s.fresh /\ r.work = <<ids>> /\ r.queue = queue
          /\ r = [f \in Fields |-> r[f]]
      BY <1>3 DEF IsCall, Fields
    <3> HIDE DEF r
    <3>5. Gathered(r)
      BY <1>3, <3>4, SameGathered
    <3>6. MergedText(r) = MergedText(s)
      BY <3>4 DEF MergedText
    <3>7. IsCall(r)
      BY <1>3, <3>4 DEF IsCall, Busy
    <3>8. r.work[1] = ids
      BY <3>4
    <3>9. MergingOK(r)
      <4>1. Applicable(r.work[1]) \subseteq r.queue
        BY <3>4, <3>8 DEF queue
      <4> QED BY <1>3, <2>3, <3>2, <3>3, <3>4, <3>6, <3>8, <4>1 DEF MergingOK
    <3>10. CallOK(r)
      BY <3>4, <3>5, <3>7, <3>9 DEF CallOK, Busy
    <3> QED BY <2>1, <3>1, <3>10, CallStep
  <2> QED BY <2>2, <2>3
<1>4. ASSUME StartPiece(c) PROVE EncoderInv'
  <2>1. /\ s.pc = "pieces" /\ s.todo # << >> /\ ~Head(s.todo).special /\ s.op # "words"
        /\ Start(c, Head(s.todo).text)
    BY <1>1, <1>4 DEF StartPiece, Missed, New, AtPiece
  <2>2. Gathered(s) /\ IsCall(s) /\ s.fresh = << >>
    BY <1>2, <2>1 DEF CallOK, Busy
  <2>3. MergedText(s) = Head(s.todo).text
    BY <2>1 DEF MergedText
  <2>4. Head(s.todo) \in Elements(s.pieces)
    <3> DEFINE E == Elements(s.pieces)
    <3>1. s.todo \in Seq(E)
      BY <2>2 DEF Gathered
    <3> HIDE DEF E
    <3>2. Head(s.todo) \in E
      BY <2>1, <3>1
    <3> QED BY <3>2 DEF E
  <2>5. Head(s.todo).text \in Seq(Scalar)
    BY <2>2, <2>4, TextsAre
  <2> QED BY <1>3, <2>1, <2>2, <2>3, <2>4, <2>5
<1>5. ASSUME StartMissing(c) PROVE EncoderInv'
  <2>1. /\ s.pc = "missing" /\ Len(s.fresh) < Len(s.missing)
        /\ Start(c, s.missing[Len(s.fresh) + 1])
    BY <1>1, <1>5 DEF StartMissing
  <2>2. Gathered(s) /\ IsCall(s) /\ s.op = "words" /\ s.todo = << >>
    BY <1>2, <2>1 DEF CallOK, Busy
  <2>3. MergedText(s) = s.missing[Len(s.fresh) + 1]
    BY <2>2 DEF MergedText
  <2>4. Len(s.fresh) + 1 \in 1..Len(s.missing)
    BY <2>1, <2>2, LengthsAre
  <2>5. /\ MergedText(s) \in Seq(Scalar)
        /\ \E p \in Elements(s.pieces) : ~p.special /\ p.text = MergedText(s)
    BY <2>2, <2>3, <2>4, TextsAre DEF Gathered, Given
  <2> QED BY <1>3, <2>1, <2>2, <2>3, <2>5
<1> QED BY <1>4, <1>5

\* The queue's lowest rank is the next merge of the reference, or none at all;
\* what it makes possible is queued.
LEMMA QueuedMerge ==
  ASSUME Constructed, JoiningModels, NEW w \in Seq(Vid),
         NEW queue, queue \subseteq {r \in Ranks : RankOf(PairOf(r)) = r}, queue # {},
         Applicable(w) \subseteq queue
  PROVE  LET r == Min(queue)
             m == MergeWord(w, 1, PairOf(r), TargetOf(r))
             next == Requeued(queue \ {r}, m.changes)
         IN /\ m.idxs \in Seq(Vid) /\ Encoding(m.idxs) = Encoding(w)
            /\ next \subseteq {q \in Ranks : RankOf(PairOf(q)) = q}
            /\ Applicable(m.idxs) \subseteq next
<1> DEFINE r == Min(queue)
           m == MergeWord(w, 1, PairOf(r), TargetOf(r))
           changes == m.changes
           next == Requeued(queue \ {r}, changes)
<1>1. r \in queue /\ \A q \in queue : r <= q
  <2>1. queue \in SUBSET (1..Len(model.merges)) /\ Len(model.merges) \in Nat
    BY ModelTypes
  <2> QED BY <2>1, EndsOf
<1>2. r \in Ranks /\ RankOf(PairOf(r)) = r
  BY <1>1
<1> HIDE DEF r
<1>3. /\ m.idxs = Replaced(w, PairOf(r), TargetOf(r)) /\ m.idxs \in Seq(Vid)
      /\ PairOf(r) \notin PairsOf(m.idxs)
      /\ PairOf(r) \notin PairsOf(w) => m.idxs = w
      /\ \A k \in PairsOf(m.idxs) :
           k \in PairsOf(w) \/ (k \in DOMAIN changes /\ Entry(changes, k) > 0)
  BY <1>2, Merging
<1> HIDE DEF m, changes
<1>4. \A tp : HasMerge(tp) => RankOf(tp) \in Ranks /\ PairOf(RankOf(tp)) = tp
  BY RankIs
<1>5. next = (queue \ {r}) \cup
               {RankOf(tp) : tp \in {q \in DOMAIN changes : HasMerge(q) /\ changes[q] > 0}}
  BY DEF Requeued
<1>6. next \subseteq {q \in Ranks : RankOf(PairOf(q)) = q}
  BY <1>4, <1>5
<1>7. ASSUME NEW k \in Applicable(m.idxs)
      PROVE  k \in next
  <2>1. PICK tp : tp \in PairsOf(m.idxs) /\ HasMerge(tp) /\ k = RankOf(tp)
    BY DEF Applicable
  <2>2. CASE tp \in PairsOf(w)
    <3>1. k \in queue
      BY <2>1, <2>2 DEF Applicable
    <3>2. k # r
      BY <1>3, <1>4, <2>1
    <3> QED BY <1>5, <3>1, <3>2
  <2>3. CASE tp \notin PairsOf(w)
    <3>1. tp \in DOMAIN changes /\ changes[tp] > 0
      BY <1>3, <2>1, <2>3 DEF Entry
    <3> QED BY <1>5, <2>1, <3>1
  <2> QED BY <2>2, <2>3
<1>8. Encoding(m.idxs) = Encoding(w)
  <2>1. CASE PairOf(r) \in PairsOf(w)
    <3>1. r \in Applicable(w)
      BY <1>2, <2>1, AppliesIs
    <3>2. \A q \in Applicable(w) : r <= q
      BY <1>1
    <3>3. MergeStep(w) = m.idxs
      BY <1>3, <3>1, <3>2, MergeStepIs
    <3> QED BY <3>3, EncodingIs
  <2> QED BY <1>3, <2>1
<1> QED BY <1>3, <1>6, <1>7, <1>8 DEF r, m, changes

\* One merge of one word.
LEMMA PopSteps ==
  ASSUME EncoderInv, JoiningModels, NEW c \in Caller
  PROVE  PopMerge(c) => EncoderInv'
<1> SUFFICES ASSUME PopMerge(c) PROVE EncoderInv'
  OBVIOUS
<1>1. PICK s : s = call[c]
  OBVIOUS
<1>2. CallOK(s) /\ Constructed
  BY <1>1, CallIsOK
<1> DEFINE q == Min(s.queue)
           w == s.work[1]
           m == MergeWord(w, 1, PairOf(q), TargetOf(q))
           idxs == m.idxs
           next == Requeued(s.queue \ {q}, m.changes)
           r == [s EXCEPT !.work = <<idxs>>, !.queue = next]
<1>3. /\ s.pc = "merging" /\ s.queue # {} /\ UNCHANGED <<model, built, cache>>
      /\ Become(c, r)
  BY <1>1, Zenon DEF PopMerge
<1>4. IsCall(s) /\ Gathered(s) /\ MergingOK(s)
  BY <1>2, <1>3 DEF CallOK, Busy
<1>5. /\ idxs \in Seq(Vid) /\ Encoding(idxs) = Encoding(w)
      /\ next \subseteq {k \in Ranks : RankOf(PairOf(k)) = k}
      /\ Applicable(idxs) \subseteq next
  BY <1>2, <1>3, <1>4, QueuedMerge DEF MergingOK
<1> HIDE DEF idxs, next, w
<1>6. /\ r.pc = s.pc /\ r.op = s.op /\ r.input = s.input /\ r.pieces = s.pieces
      /\ r.todo = s.todo /\ r.encoded = s.encoded /\ r.missing = s.missing
      /\ r.fresh = s.fresh /\ r.work = <<idxs>> /\ r.queue = next
      /\ r = [f \in Fields |-> r[f]]
  BY <1>4 DEF IsCall, Fields
<1> HIDE DEF r
<1>7. IsCall(r) /\ Gathered(r)
  BY <1>3, <1>4, <1>6, SameGathered DEF IsCall
<1>8. MergedText(r) = MergedText(s) /\ r.work[1] = idxs
  BY <1>6 DEF MergedText
<1>9. MergingOK(r)
  <2>1. Encoding(idxs) = Greedy(MergedText(s)) /\ InVocab(MergedText(s))
    BY <1>4, <1>5 DEF MergingOK, w
  <2>2. IF r.op = "words" THEN r.todo = << >> /\ Len(r.fresh) < Len(r.missing)
        ELSE r.fresh = << >> /\ r.todo # << >> /\ ~Head(r.todo).special
    BY <1>4, <1>6 DEF MergingOK
  <2> QED BY <1>5, <1>6, <1>8, <2>1, <2>2 DEF MergingOK
<1>10. CallOK(r)
  BY <1>3, <1>6, <1>7, <1>9 DEF CallOK, Busy
<1>11. CacheOK'
  BY <1>3, CacheSteps
<1> QED BY <1>3, <1>10, <1>11, CallStep

\* The end of one word: when no rank is queued none applies.
LEMMA FinishSteps ==
  ASSUME EncoderInv, NEW c \in Caller
  PROVE  FinishWord(c) => EncoderInv'
<1> SUFFICES ASSUME FinishWord(c) PROVE EncoderInv'
  OBVIOUS
<1>1. PICK s : s = call[c]
  OBVIOUS
<1>2. CallOK(s) /\ Constructed
  BY <1>1, CallIsOK
<1> DEFINE ids == s.work[1]
<1>3. s.pc = "merging" /\ s.queue = {} /\ UNCHANGED <<model, built>>
  BY <1>1 DEF FinishWord
<1>4. IsCall(s) /\ Gathered(s) /\ MergingOK(s) /\ s = [f \in Fields |-> s[f]]
  BY <1>2, <1>3 DEF CallOK, Busy, IsCall
<1>5. ids \in Seq(Vid) /\ InVocab(MergedText(s)) /\ ids = Greedy(MergedText(s))
  BY <1>2, <1>3, <1>4, EncodingIs DEF MergingOK
<1>6. MergedText(s) \in Seq(Scalar)
  BY <1>4, CurrentIs
<1> HIDE DEF ids
<1>7. CASE s.op = "words"
  <2> DEFINE fresh == Append(s.fresh, ids)
             r == [s EXCEPT !.pc = "missing", !.work = << >>, !.fresh = fresh]
  <2>1. Become(c, r) /\ UNCHANGED cache
    BY <1>1, <1>7 DEF FinishWord, ids
  <2>2. /\ r.pc = "missing" /\ r.op = s.op /\ r.input = s.input /\ r.pieces = s.pieces
        /\ r.todo = s.todo /\ r.encoded = s.encoded /\ r.missing = s.missing
        /\ r.fresh = fresh /\ r.work = << >> /\ r.queue = s.queue
        /\ r = [f \in Fields |-> r[f]]
    BY <1>4 DEF Fields
  <2> HIDE DEF r
  <2>3. /\ fresh \in Seq(Seq(Vid)) /\ Len(fresh) = Len(s.fresh) + 1
        /\ \A i \in 1..Len(fresh) : fresh[i] = IF i = Len(s.fresh) + 1 THEN ids ELSE s.fresh[i]
    <3> DEFINE W == Seq(Vid)
    <3>1. s.fresh \in Seq(W) /\ ids \in W
      BY <1>4, <1>5 DEF Gathered
    <3> HIDE DEF W
    <3>2. /\ fresh \in Seq(W) /\ Len(fresh) = Len(s.fresh) + 1
          /\ \A i \in 1..Len(fresh) : fresh[i] = IF i = Len(s.fresh) + 1 THEN ids ELSE s.fresh[i]
      BY <3>1, AppendProperties
    <3> QED BY <3>2 DEF W
  <2> HIDE DEF fresh
  <2>4. MergedText(s) = s.missing[Len(s.fresh) + 1] /\ s.todo = << >> /\ Len(s.fresh) < Len(s.missing)
    BY <1>4, <1>7 DEF MergedText, MergingOK
  <2>5. Len(s.fresh) \in Nat /\ Len(s.missing) \in Nat
    BY <1>4, LengthsAre
  <2>6. Len(fresh) <= Len(s.missing)
    BY <2>3, <2>4, <2>5
  <2>7. ASSUME NEW i \in 1..Len(fresh)
        PROVE  InVocab(s.missing[i]) /\ fresh[i] = Greedy(s.missing[i])
    <3>1. CASE i = Len(s.fresh) + 1
      BY <1>5, <2>3, <2>4, <3>1
    <3>2. CASE i # Len(s.fresh) + 1
      <4>1. i \in 1..Len(s.fresh)
        BY <2>3, <2>5, <3>2
      <4> QED BY <1>4, <2>3, <3>2, <4>1 DEF Gathered
    <3> QED BY <3>1, <3>2
  <2>8. Gathered(r)
    BY <1>4, <2>2, <2>3, <2>6, <2>7 DEF Gathered
  <2>9. IsCall(r)
    BY <1>4, <2>2 DEF IsCall, Busy
  <2>10. CallOK(r)
    BY <1>3, <1>7, <2>2, <2>4, <2>8, <2>9 DEF CallOK, Busy
  <2>11. CacheOK'
    BY <1>3, <2>1, CacheSteps
  <2> QED BY <1>3, <2>1, <2>10, <2>11, CallStep
<1>8. CASE s.op # "words"
  <2> DEFINE p == Head(s.todo)
             encoded == Put(s.encoded, p, ids)
             r == [s EXCEPT !.pc = "pieces", !.work = << >>, !.todo = Tail(@),
                            !.encoded = encoded, !.missing = s.missing]
  <2>1. /\ Become(c, [s EXCEPT !.pc = "pieces", !.work = << >>, !.todo = Tail(@),
                               !.encoded = encoded])
        /\ Cached(p.text, ids)
    BY <1>1, <1>8 DEF FinishWord, ids
  <2>2. /\ MergedText(s) = p.text /\ s.todo # << >> /\ s.fresh = << >> /\ ~p.special
        /\ s.missing = << >>
    BY <1>4, <1>8 DEF MergedText, MergingOK, Gathered
  <2>3. p \in Piece
    <3> DEFINE E == Elements(s.pieces)
    <3>1. s.todo \in Seq(E)
      BY <1>4 DEF Gathered
    <3> HIDE DEF E
    <3>2. p \in E
      BY <2>2, <3>1
    <3> QED BY <1>4, <3>2, TextsAre DEF E
  <2> HIDE DEF p
  <2>4. /\ DOMAIN encoded = DOMAIN s.encoded \cup {p}
        /\ \A q \in DOMAIN encoded : encoded[q] = IF q = p THEN ids ELSE s.encoded[q]
    BY DEF Put
  <2>5. Encodable(p) /\ ids = IdsOf(p)
    BY <1>5, <2>2 DEF Encodable, IdsOf
  <2>6. \A q \in DOMAIN encoded : q \in Piece /\ Encodable(q) /\ encoded[q] = IdsOf(q)
    BY <1>4, <2>3, <2>4, <2>5 DEF Gathered
  <2> HIDE DEF encoded
  <2>7. s.missing \in Seq({q.text : q \in Elements(s.pieces)})
    BY <1>4 DEF Gathered
  <2>8. CallOK(r)
    <3> HIDE DEF r
    <3>1. p = Head(s.todo)
      BY DEF p
    <3> QED BY <1>3, <1>4, <1>8, <2>2, <2>4, <2>6, <2>7, <3>1, Advances DEF r
  <2>9. Become(c, r)
    <3>1. r = [s EXCEPT !.pc = "pieces", !.work = << >>, !.todo = Tail(@), !.encoded = encoded]
      BY <1>4 DEF Fields
    <3> QED BY <2>1, <3>1
  <2>10. CacheOK'
    BY <1>3, <1>5, <1>6, <2>1, <2>2, CacheSteps
  <2> HIDE DEF r
  <2> QED BY <1>3, <2>8, <2>9, <2>10, CallStep
<1> QED BY <1>7, <1>8

\* All missing words are looked at one by one, or together; together they
\* start with their first tokens, no target among them.
LEMMA EncodeSteps ==
  ASSUME EncoderInv, JoiningModels, NEW c \in Caller
  PROVE  EncodeMissing(c) => EncoderInv'
<1> SUFFICES ASSUME EncodeMissing(c) PROVE EncoderInv'
  OBVIOUS
<1>1. PICK s : s = call[c]
  OBVIOUS
<1>2. CallOK(s) /\ Constructed
  BY <1>1, CallIsOK
<1> DEFINE texts == s.missing
           work == [i \in DOMAIN texts |-> Pretoken(texts[i])]
           occurs == [k \in Ranks |-> {i \in DOMAIN work : PairOf(k) \in PairsOf(work[i])}]
           r == [s EXCEPT !.pc = "batch", !.work = work, !.rank = 1, !.occurs = occurs]
<1>3. /\ s.pc = "pieces" /\ s.todo = << >> /\ texts # << >> /\ UNCHANGED <<model, built, cache>>
      /\ \/ ~built.can_batch /\ Become(c, [s EXCEPT !.pc = "missing"])
         \/ (\E t \in Elements(texts) : ~InVocab(t)) /\ Become(c, Failed(c))
         \/ /\ built.can_batch
            /\ \A t \in Elements(texts) : InVocab(t)
            /\ Become(c, r)
  <2> DEFINE now == call[c]
             first == [i \in DOMAIN now.missing |-> Pretoken(now.missing[i])]
             where == [k \in Ranks |-> {i \in DOMAIN first : PairOf(k) \in PairsOf(first[i])}]
  <2>1. \/ ~built.can_batch /\ Become(c, [now EXCEPT !.pc = "missing"])
        \/ (\E t \in Elements(now.missing) : ~InVocab(t)) /\ Become(c, Failed(c))
        \/ /\ built.can_batch
           /\ \A t \in Elements(now.missing) : InVocab(t)
           /\ Become(c, [now EXCEPT !.pc = "batch", !.work = first, !.rank = 1, !.occurs = where])
    BY Zenon DEF EncodeMissing
  <2>2. now.pc = "pieces" /\ now.todo = << >> /\ now.missing # << >>
        /\ UNCHANGED <<model, built, cache>>
    BY DEF EncodeMissing
  <2>3. now = s
    BY <1>1
  <2> HIDE DEF now
  <2> QED BY <2>1, <2>2, <2>3, Zenon
<1>4. IsCall(s) /\ Gathered(s) /\ s.fresh = << >> /\ s.queue = {} /\ s.work = << >>
      /\ s = [f \in Fields |-> s[f]]
  BY <1>2, <1>3 DEF CallOK, Busy, IsCall
<1>5. s.op = "words"
  BY <1>3, <1>4 DEF Gathered
<1>6. CacheOK'
  BY <1>3, CacheSteps
<1>7. Len(texts) \in Nat /\ DOMAIN texts = 1..Len(texts)
  <2> DEFINE T == {p.text : p \in Elements(s.pieces)}
  <2>1. texts \in Seq(T)
    BY <1>4 DEF Gathered
  <2> HIDE DEF T
  <2> QED BY <2>1
<1>8. \A i \in 1..Len(texts) : /\ texts[i] \in Seq(Scalar) /\ texts[i] \in Elements(texts)
                               /\ \E p \in Elements(s.pieces) : p.text = texts[i]
  BY <1>4, <1>7, TextsAre DEF Elements
<1>9. CASE Become(c, [s EXCEPT !.pc = "missing"])
  <2> DEFINE v == [s EXCEPT !.pc = "missing"]
  <2>1. /\ v.pc = "missing" /\ v.op = s.op /\ v.input = s.input /\ v.pieces = s.pieces
        /\ v.todo = s.todo /\ v.encoded = s.encoded /\ v.missing = s.missing
        /\ v.fresh = s.fresh /\ v.work = s.work /\ v.queue = s.queue
        /\ v = [f \in Fields |-> v[f]]
    BY <1>4 DEF Fields
  <2>2. Become(c, v)
    BY <1>9
  <2> HIDE DEF v
  <2>3. IsCall(v) /\ Gathered(v)
    BY <1>4, <2>1, SameGathered DEF IsCall, Busy
  <2>4. CallOK(v)
    BY <1>3, <1>4, <1>5, <2>1, <2>3 DEF CallOK, Busy
  <2> QED BY <1>3, <1>6, <2>2, <2>4, CallStep
<1>10. CASE (\E t \in Elements(texts) : ~InVocab(t)) /\ Become(c, Failed(c))
  <2>1. PICK t \in Elements(texts) : ~InVocab(t)
    BY <1>10
  <2>2. PICK i \in 1..Len(texts) : t = texts[i]
    BY <1>7 DEF Elements
  <2>3. PICK p \in Elements(s.pieces) : p.text = t
    BY <1>8, <2>2
  <2>4. Refused(call[c])
    <3>1. ~p.special /\ ~InVocab(p.text)
      BY <1>4, <1>5, <2>1, <2>3 DEF Given, Gathered
    <3> QED BY <1>1, <1>4, <2>3, <3>1 DEF Refused, Gathered
  <2>5. CallOK(Failed(c))
    BY <1>1, <1>4, <2>4, Fails
  <2> QED BY <1>3, <1>6, <1>10, <2>5, CallStep
<1>11. CASE built.can_batch /\ (\A t \in Elements(texts) : InVocab(t)) /\ Become(c, r)
  <2>1. /\ DOMAIN work = 1..Len(texts)
        /\ \A i \in 1..Len(texts) : work[i] = Pretoken(texts[i])
        /\ work = [i \in 1..Len(texts) |-> work[i]]
        /\ DOMAIN occurs = Ranks
        /\ \A k \in Ranks : occurs[k] = {i \in 1..Len(texts) : PairOf(k) \in PairsOf(work[i])}
    BY <1>7
  <2> HIDE DEF work, occurs
  <2>2. /\ r.pc = "batch" /\ r.op = s.op /\ r.input = s.input /\ r.pieces = s.pieces
        /\ r.todo = s.todo /\ r.encoded = s.encoded /\ r.missing = s.missing
        /\ r.fresh = s.fresh /\ r.work = work /\ r.queue = s.queue /\ r.rank = 1
        /\ r.occurs = occurs /\ r = [f \in Fields |-> r[f]]
    BY <1>4 DEF Fields
  <2> HIDE DEF r
  <2>3. IsCall(r) /\ Gathered(r)
    BY <1>4, <2>2, SameGathered DEF IsCall, Busy
  <2>4. ASSUME NEW i \in 1..Len(texts)
        PROVE  WordOK(work[i], texts[i], i, 1, occurs)
    <3>1. InVocab(texts[i]) /\ texts[i] \in Seq(Scalar)
      BY <1>8, <1>11
    <3>2. /\ work[i] \in Seq(Vid) /\ Elements(work[i]) \subseteq UnitTokens
          /\ Encoding(work[i]) = Greedy(texts[i])
      BY <1>2, <2>1, <3>1, PretokenIs DEF Greedy
    <3>3. ASSUME NEW k \in Ranks
          PROVE  /\ ~(k < 1)
                 /\ TargetOf(k) \notin Elements(work[i])
                 /\ PairOf(k) \in PairsOf(work[i]) => i \in occurs[k]
      <4>1. ~(k < 1)
        BY <1>2, ModelTypes
      <4>2. TargetOf(k) \notin UnitTokens
        BY <1>2, TargetsAreNew
      <4> QED BY <2>1, <3>2, <4>1, <4>2
    <3> QED BY <3>1, <3>2, <3>3 DEF WordOK
  <2>5. BatchOK(r)
    <3>1. \A i \in 1..Len(r.missing) : WordOK(r.work[i], r.missing[i], i, r.rank, r.occurs)
      BY <2>2, <2>4
    <3>2. r.work = [i \in 1..Len(r.missing) |-> r.work[i]]
      BY <2>1, <2>2
    <3>3. DOMAIN r.occurs = Ranks /\ \A k \in Ranks : r.occurs[k] \subseteq 1..Len(r.missing)
      BY <2>1, <2>2
    <3>4. built.can_batch /\ r.fresh = << >> /\ r.rank \in Nat \ {0}
      BY <1>4, <1>11, <2>2
    <3> QED BY <3>1, <3>2, <3>3, <3>4 DEF BatchOK
  <2>6. CallOK(r)
    BY <1>3, <1>4, <1>5, <2>2, <2>3, <2>5 DEF CallOK, Busy
  <2> QED BY <1>3, <1>6, <1>11, <2>6, CallStep
<1> HIDE DEF r, texts
<1> QED BY <1>3, <1>9, <1>10, <1>11

\* In a batch the merges of a rank leave every word with its encoding, and with
\* no pair of a lower rank or of this one; a pair they make has their target in
\* it, and was in no word before.
LEMMA RankMerge ==
  ASSUME Constructed, JoiningModels, CanBatch, NEW r \in Ranks, NEW w, NEW text, NEW i, NEW occurs,
         WordOK(w, text, i, r, occurs)
  PROVE  LET m == MergeWord(w, 1, PairOf(r), TargetOf(r))
             v == IF i \in occurs[r] THEN m.idxs ELSE w
         IN /\ v \in Seq(Vid) /\ Encoding(v) = Greedy(text)
            /\ \A q \in Ranks :
                 /\ q < r + 1 => PairOf(q) \notin PairsOf(v)
                 /\ q >= r + 1 =>
                      /\ TargetOf(q) \notin Elements(v)
                      /\ \/ PairOf(q) \in PairsOf(v) => i \in occurs[q]
                         \/ /\ i \in occurs[r] /\ TargetOf(r) \in Elements(PairOf(q))
                            /\ Entry(m.changes, PairOf(q)) > 0
                 /\ TargetOf(r) \in Elements(PairOf(q)) => Entry(m.changes, PairOf(q)) \in Nat
<1> DEFINE m == MergeWord(w, 1, PairOf(r), TargetOf(r))
           v == IF i \in occurs[r] THEN m.idxs ELSE w
<1>1. /\ w \in Seq(Vid) /\ Encoding(w) = Greedy(text)
      /\ \A q \in Ranks : q < r => PairOf(q) \notin PairsOf(w)
      /\ \A q \in Ranks : q >= r => /\ TargetOf(q) \notin Elements(w)
                                    /\ PairOf(q) \in PairsOf(w) => i \in occurs[q]
  BY DEF WordOK
<1>2. Ranks \subseteq Int
  BY ModelTypes
<1>3. TargetOf(r) \notin Elements(w) /\ (PairOf(r) \in PairsOf(w) => i \in occurs[r])
  BY <1>1, <1>2
<1>4. /\ m.idxs = Replaced(w, PairOf(r), TargetOf(r)) /\ m.idxs \in Seq(Vid)
      /\ PairOf(r) \notin PairsOf(m.idxs)
      /\ PairOf(r) \notin PairsOf(w) => m.idxs = w
      /\ \A k : /\ Entry(m.changes, k) \in Int
                /\ k \notin PairsOf(w) => /\ Entry(m.changes, k) >= 0
                                          /\ k \in PairsOf(m.idxs) <=> Entry(m.changes, k) > 0
      /\ Elements(m.idxs) \subseteq Elements(w) \cup {TargetOf(r)}
      /\ \A k \in PairsOf(m.idxs) :
           k \in PairsOf(w) \/ k[1] = TargetOf(r) \/ k[2] = TargetOf(r)
  BY <1>1, <1>3, Merging
<1> HIDE DEF m
<1>5. v = m.idxs
  BY <1>3, <1>4
<1> HIDE DEF v
<1>6. /\ \A q \in Ranks : PairOf(q) = PairOf(r) => q = r
      /\ \A q \in Ranks : TargetOf(q) = TargetOf(r) => q = r
      /\ \A q \in Ranks : TargetOf(r) \in Elements(PairOf(q)) => r < q
      /\ \A q \in Ranks : Elements(PairOf(q)) = {PairOf(q)[1], PairOf(q)[2]}
  BY ModelTypes DEF CanBatch
<1>7. Encoding(v) = Encoding(w)
  <2>1. CASE PairOf(r) \in PairsOf(w)
    <3>1. RankOf(PairOf(r)) = r
      <4>1. HasMerge(PairOf(r))
        BY DEF HasMerge, RanksOf
      <4> QED BY <1>6, <4>1, RankIs
    <3>2. r \in Applicable(w)
      BY <2>1, <3>1, AppliesIs
    <3>3. \A q \in Applicable(w) : r <= q
      <4> TAKE q \in Applicable(w)
      <4>1. q \in Ranks /\ PairOf(q) \in PairsOf(w)
        BY AppliesIs
      <4>2. ~(q < r)
        BY <1>1, <4>1
      <4>3. q \in Int /\ r \in Int
        BY <1>2, <4>1
      <4> QED BY <4>2, <4>3
    <3>4. MergeStep(w) = v
      BY <1>1, <1>4, <1>5, <3>2, <3>3, MergeStepIs
    <3> QED BY <1>1, <3>4, EncodingIs
  <2> QED BY <1>4, <1>5, <2>1
<1>8. ASSUME NEW q \in Ranks, TargetOf(r) \in Elements(PairOf(q))
      PROVE  PairOf(q) \notin PairsOf(w)
  <2>1. PairOf(q)[1] = TargetOf(r) \/ PairOf(q)[2] = TargetOf(r)
    BY <1>6, <1>8
  <2>2. PairOf(q) \in PairsOf(w) => PairOf(q)[1] \in Elements(w) /\ PairOf(q)[2] \in Elements(w)
    BY <1>1, PairElements
  <2> QED BY <1>3, <2>1, <2>2
<1>9. ASSUME NEW q \in Ranks, PairOf(q) \in PairsOf(v), PairOf(q) \notin PairsOf(w)
      PROVE  TargetOf(r) \in Elements(PairOf(q)) /\ Entry(m.changes, PairOf(q)) > 0
  BY <1>4, <1>5, <1>6, <1>9
<1>10. ASSUME NEW q \in Ranks
       PROVE  /\ q < r + 1 => PairOf(q) \notin PairsOf(v)
              /\ q >= r + 1 =>
                   /\ TargetOf(q) \notin Elements(v)
                   /\ \/ PairOf(q) \in PairsOf(v) => i \in occurs[q]
                      \/ /\ i \in occurs[r] /\ TargetOf(r) \in Elements(PairOf(q))
                         /\ Entry(m.changes, PairOf(q)) > 0
              /\ TargetOf(r) \in Elements(PairOf(q)) => Entry(m.changes, PairOf(q)) \in Nat
  <2>1. q \in Int /\ r \in Int
    BY <1>2
  <2>2. q < r + 1 => q = r \/ q < r
    BY <2>1
  <2>3. q < r => PairOf(q) \notin PairsOf(v)
    BY <1>1, <1>6, <1>9, <2>1
  <2>4. q >= r + 1 => q >= r /\ q # r /\ q > r
    BY <2>1
  <2>5. q > r => TargetOf(q) \notin Elements(v)
    BY <1>1, <1>4, <1>5, <1>6, <2>1
  <2>6. PairOf(q) \in PairsOf(v) /\ PairOf(q) \notin PairsOf(w) =>
          /\ i \in occurs[r] /\ TargetOf(r) \in Elements(PairOf(q))
          /\ Entry(m.changes, PairOf(q)) > 0
    <3>1. i \notin occurs[r] => v = w
      BY <1>3, <1>4, <1>5
    <3> QED BY <1>9, <3>1
  <2>7. TargetOf(r) \in Elements(PairOf(q)) => Entry(m.changes, PairOf(q)) \in Nat
    BY <1>4, <1>8
  <2> QED BY <1>1, <1>4, <1>5, <2>2, <2>3, <2>4, <2>5, <2>6, <2>7
<1> QED BY <1>1, <1>4, <1>5, <1>7, <1>10 DEF m, v

\* Words that gain a pair are found, if no other word loses it.
LEMMA Finds ==
  ASSUME NEW occurs, NEW r, NEW changes, IsFiniteSet(DOMAIN changes)
  PROVE  LET found == Found(occurs, r, changes)
         IN /\ DOMAIN found = Ranks
            /\ \A q \in Ranks :
                 /\ occurs[q] \subseteq found[q]
                 /\ found[q] \subseteq occurs[q] \cup DOMAIN changes
                 /\ q > r /\ (\A j \in DOMAIN changes : Entry(changes[j], PairOf(q)) \in Nat)
                      => \A i \in DOMAIN changes :
                           Entry(changes[i], PairOf(q)) > 0 => i \in found[q]
<1> DEFINE Gain(i, q) == Entry(changes[i], PairOf(q))
           gains(q) == [i \in DOMAIN changes |-> Gain(i, q)]
<1>1. Found(occurs, r, changes) =
        [q \in Ranks |-> IF q > r /\ SumFunction(gains(q)) > 0
                         THEN occurs[q] \cup {i \in DOMAIN changes : Gain(i, q) > 0}
                         ELSE occurs[q]]
  BY Zenon DEF Found
<1>2. ASSUME NEW q \in Ranks, \A j \in DOMAIN changes : Gain(j, q) \in Nat,
             NEW i \in DOMAIN changes, Gain(i, q) > 0
      PROVE  SumFunction(gains(q)) > 0
  <2> DEFINE g == gains(q)
             D == DOMAIN changes
  <2>1. DOMAIN g = D /\ \A j \in D : g[j] = Gain(j, q)
    OBVIOUS
  <2>2. (\A j \in D : g[j] \in Nat) /\ g[i] > 0 /\ i \in D
    BY <1>2
  <2> HIDE DEF g, D, gains
  <2>3. SumFunction(g) = Sum(g, D)
    BY <2>1, SumOfFunction
  <2>4. Sum(g, D) > 0
    <3>1. IsFiniteSet(D)
      BY DEF D
    <3> QED BY <2>2, <3>1, SumPositive
  <2> QED BY <2>3, <2>4 DEF g
<1> HIDE DEF gains
<1> QED BY <1>1, <1>2

\* One rank of a batch.
LEMMA RankSteps ==
  ASSUME EncoderInv, JoiningModels, NEW c \in Caller
  PROVE  MergeRank(c) => EncoderInv'
<1> SUFFICES ASSUME MergeRank(c) PROVE EncoderInv'
  OBVIOUS
<1>1. PICK s : s = call[c]
  OBVIOUS
<1>2. CallOK(s) /\ Constructed
  BY <1>1, CallIsOK
<1> DEFINE k == s.rank
           merged == [i \in s.occurs[k] |-> MergeWord(s.work[i], 1, PairOf(k), TargetOf(k))]
           changes == [i \in DOMAIN merged |-> merged[i].changes]
           work == [i \in DOMAIN s.work |-> IF i \in DOMAIN merged THEN merged[i].idxs ELSE s.work[i]]
           occurs == Found(s.occurs, k, changes)
           r == [s EXCEPT !.rank = k + 1, !.work = work, !.occurs = occurs]
<1>3. s.pc = "batch" /\ k \in Ranks /\ UNCHANGED <<model, built, cache>> /\ Become(c, r)
  <2> DEFINE now == call[c]
             m == [i \in now.occurs[now.rank] |->
                     MergeWord(now.work[i], 1, PairOf(now.rank), TargetOf(now.rank))]
  <2>1. /\ now.pc = "batch" /\ now.rank \in Ranks /\ UNCHANGED <<model, built, cache>>
        /\ Become(c, [now EXCEPT !.rank = now.rank + 1,
             !.work = [i \in DOMAIN now.work |-> IF i \in DOMAIN m THEN m[i].idxs ELSE now.work[i]],
             !.occurs = Found(now.occurs, now.rank, [i \in DOMAIN m |-> m[i].changes])])
    BY Zenon DEF MergeRank
  <2>2. now = s
    BY <1>1
  <2> HIDE DEF now
  <2> QED BY <2>1, <2>2, Zenon
<1>4. IsCall(s) /\ Gathered(s) /\ BatchOK(s) /\ s.queue = {} /\ s = [f \in Fields |-> s[f]]
      /\ s.op = "words" /\ s.todo = << >>
  BY <1>2, <1>3 DEF CallOK, Busy, IsCall
<1> DEFINE n == Len(s.missing)
<1>5. /\ DOMAIN s.work = 1..n /\ n \in Nat /\ DOMAIN s.occurs = Ranks
      /\ s.occurs[k] \subseteq 1..n /\ k \in Nat \ {0}
      /\ \A q \in Ranks : s.occurs[q] \subseteq 1..n
      /\ \A i \in 1..n : WordOK(s.work[i], s.missing[i], i, k, s.occurs)
  BY <1>3, <1>4, LengthsAre DEF BatchOK
<1>6. CanBatch /\ built.can_batch /\ s.fresh = << >>
  BY <1>2, <1>4 DEF BatchOK, Constructed, Built
<1> HIDE DEF n
<1> DEFINE Gain(i, q) == Entry(MergeWord(s.work[i], 1, PairOf(k), TargetOf(k)).changes, PairOf(q))
<1>7. \A i \in 1..n :
        /\ work[i] \in Seq(Vid) /\ Encoding(work[i]) = Greedy(s.missing[i])
        /\ \A q \in Ranks :
             /\ q < k + 1 => PairOf(q) \notin PairsOf(work[i])
             /\ q >= k + 1 =>
                  /\ TargetOf(q) \notin Elements(work[i])
                  /\ \/ PairOf(q) \in PairsOf(work[i]) => i \in s.occurs[q]
                     \/ i \in s.occurs[k] /\ TargetOf(k) \in Elements(PairOf(q)) /\ Gain(i, q) > 0
             /\ TargetOf(k) \in Elements(PairOf(q)) => Gain(i, q) \in Nat
  <2> TAKE i \in 1..n
  <2>1. work[i] = IF i \in s.occurs[k]
                  THEN MergeWord(s.work[i], 1, PairOf(k), TargetOf(k)).idxs ELSE s.work[i]
    BY <1>5
  <2> HIDE DEF work
  <2> QED BY <1>2, <1>3, <1>5, <1>6, <2>1, RankMerge
<1>8. /\ IsFiniteSet(DOMAIN changes) /\ DOMAIN changes = s.occurs[k]
      /\ \A i \in s.occurs[k] : changes[i] = MergeWord(s.work[i], 1, PairOf(k), TargetOf(k)).changes
  <2>1. IsFiniteSet(1..n)
    BY <1>5, FS_Interval
  <2>2. IsFiniteSet(s.occurs[k])
    BY <1>5, <2>1, FS_Subset
  <2> QED BY <2>2
<1>9. work = [i \in 1..n |-> work[i]]
  BY <1>5
<1> HIDE DEF changes, merged, work
<1>10. /\ DOMAIN occurs = Ranks
       /\ \A q \in Ranks :
            /\ s.occurs[q] \subseteq occurs[q] /\ occurs[q] \subseteq 1..n
            /\ q > k /\ TargetOf(k) \in Elements(PairOf(q))
                 => \A i \in s.occurs[k] : Gain(i, q) > 0 => i \in occurs[q]
  <2>1. /\ DOMAIN occurs = Ranks
        /\ \A q \in Ranks :
             /\ s.occurs[q] \subseteq occurs[q]
             /\ occurs[q] \subseteq s.occurs[q] \cup DOMAIN changes
             /\ q > k /\ (\A j \in DOMAIN changes : Entry(changes[j], PairOf(q)) \in Nat)
                  => \A i \in DOMAIN changes : Entry(changes[i], PairOf(q)) > 0 => i \in occurs[q]
    BY <1>8, Finds
  <2> HIDE DEF occurs
  <2>2. \A q \in Ranks : TargetOf(k) \in Elements(PairOf(q)) =>
          \A j \in DOMAIN changes : Entry(changes[j], PairOf(q)) \in Nat
    BY <1>5, <1>7, <1>8
  <2>3. \A q \in Ranks, i \in s.occurs[k] : Entry(changes[i], PairOf(q)) = Gain(i, q)
    BY <1>8
  <2> HIDE DEF Gain
  <2> QED BY <1>5, <1>8, <2>1, <2>2, <2>3
<1> HIDE DEF Gain, occurs
<1>11. ASSUME NEW i \in 1..n
       PROVE  WordOK(work[i], s.missing[i], i, k + 1, occurs)
  <2>1. InVocab(s.missing[i])
    BY <1>5 DEF WordOK
  <2>2. ASSUME NEW q \in Ranks, q >= k + 1, PairOf(q) \in PairsOf(work[i])
        PROVE  i \in occurs[q]
    <3>1. q > k
      <4>1. q \in Int
        BY <1>2, ModelTypes
      <4> QED BY <1>5, <2>2, <4>1
    <3> QED BY <1>7, <1>10, <2>2, <3>1
  <2> QED BY <1>7, <2>1, <2>2 DEF WordOK
<1>12. /\ r.pc = s.pc /\ r.op = s.op /\ r.input = s.input /\ r.pieces = s.pieces
       /\ r.todo = s.todo /\ r.encoded = s.encoded /\ r.missing = s.missing
       /\ r.fresh = s.fresh /\ r.work = work /\ r.queue = s.queue /\ r.rank = k + 1
       /\ r.occurs = occurs /\ r = [f \in Fields |-> r[f]]
  BY <1>4 DEF Fields
<1> HIDE DEF r
<1>13. IsCall(r) /\ Gathered(r)
  BY <1>3, <1>4, <1>12, SameGathered DEF IsCall
<1>14. BatchOK(r)
  <2>1. \A i \in 1..Len(r.missing) : WordOK(r.work[i], r.missing[i], i, r.rank, r.occurs)
    BY <1>11, <1>12 DEF n
  <2>2. r.work = [i \in 1..Len(r.missing) |-> r.work[i]]
    BY <1>9, <1>12 DEF n
  <2>3. DOMAIN r.occurs = Ranks /\ \A q \in Ranks : r.occurs[q] \subseteq 1..Len(r.missing)
    BY <1>10, <1>12 DEF n
  <2>4. built.can_batch /\ r.fresh = << >>
    BY <1>6, <1>12
  <2>5. r.rank \in Nat \ {0}
    BY <1>5, <1>12
  <2> QED BY <2>1, <2>2, <2>3, <2>4, <2>5 DEF BatchOK
<1>15. CallOK(r)
  BY <1>3, <1>4, <1>12, <1>13, <1>14 DEF CallOK, Busy
<1>16. CacheOK'
  BY <1>3, CacheSteps
<1> QED BY <1>3, <1>15, <1>16, CallStep

\* After the last rank no merge applies to any of the words.
LEMMA BatchEnds ==
  ASSUME EncoderInv, NEW c \in Caller
  PROVE  FinishBatch(c) => EncoderInv'
<1> SUFFICES ASSUME FinishBatch(c) PROVE EncoderInv'
  OBVIOUS
<1>1. PICK s : s = call[c]
  OBVIOUS
<1>2. CallOK(s) /\ Constructed
  BY <1>1, CallIsOK
<1> DEFINE r == [s EXCEPT !.pc = "missing", !.fresh = s.work, !.work = << >>,
                          !.occurs = << >>, !.rank = 0]
           n == Len(s.missing)
<1>3. s.pc = "batch" /\ s.rank \notin Ranks /\ UNCHANGED <<model, built, cache>> /\ Become(c, r)
  BY <1>1 DEF FinishBatch
<1>4. IsCall(s) /\ Gathered(s) /\ BatchOK(s) /\ s.queue = {} /\ s = [f \in Fields |-> s[f]]
      /\ s.op = "words" /\ s.todo = << >>
  BY <1>2, <1>3 DEF CallOK, Busy, IsCall
<1>5. \A q \in Ranks : q < s.rank
  <2>1. Ranks = 1..Len(model.merges) /\ Len(model.merges) \in Nat /\ s.rank \in Nat \ {0}
    BY <1>2, <1>4, ModelTypes DEF BatchOK
  <2> QED BY <1>3, <2>1
<1>6. ASSUME NEW i \in 1..n
      PROVE  /\ s.work[i] \in Seq(Vid) /\ InVocab(s.missing[i])
             /\ s.work[i] = Greedy(s.missing[i])
  <2> DEFINE w == s.work[i]
  <2>1. WordOK(w, s.missing[i], i, s.rank, s.occurs)
    BY <1>4 DEF BatchOK
  <2> HIDE DEF w
  <2>2. Applicable(w) = {}
    BY <1>2, <1>5, <2>1, AppliesIs DEF WordOK
  <2>3. Encoding(w) = w
    BY <1>2, <2>1, <2>2, EncodingIs DEF WordOK
  <2> QED BY <2>1, <2>3 DEF w, WordOK
<1>7. n \in Nat /\ s.work = [i \in 1..n |-> s.work[i]]
  BY <1>4, LengthsAre DEF BatchOK
<1>8. s.work \in Seq(Seq(Vid)) /\ Len(s.work) = n
  BY <1>6, <1>7
<1>9. /\ r.pc = "missing" /\ r.op = s.op /\ r.input = s.input /\ r.pieces = s.pieces
      /\ r.todo = s.todo /\ r.encoded = s.encoded /\ r.missing = s.missing
      /\ r.fresh = s.work /\ r.work = << >> /\ r.queue = s.queue
      /\ r = [f \in Fields |-> r[f]]
  BY <1>4 DEF Fields
<1> HIDE DEF r
<1>10. IsCall(r)
  BY <1>4, <1>9 DEF IsCall, Busy
<1>11. Gathered(r)
  <2>1. /\ r.pieces = PiecesOf(r.op, r.input) /\ r.pieces \in Seq(Piece)
        /\ r.todo \in Seq(Elements(r.pieces))
        /\ \A p \in Elements(r.pieces) : Given(r.op, p)
        /\ r.op # "words" => r.missing = << >>
        /\ \A p \in Elements(r.pieces) :
             p \in Elements(r.todo) \/ p \in DOMAIN r.encoded \/ p.text \in Elements(r.missing)
        /\ \A p \in DOMAIN r.encoded : p \in Piece /\ Encodable(p) /\ r.encoded[p] = IdsOf(p)
        /\ r.missing \in Seq({p.text : p \in Elements(r.pieces)})
    BY <1>4, <1>9 DEF Gathered
  <2>2. r.fresh \in Seq(Seq(Vid)) /\ Len(r.fresh) = n /\ Len(r.missing) = n
    BY <1>8, <1>9
  <2>3. \A i \in 1..Len(r.fresh) : InVocab(r.missing[i]) /\ r.fresh[i] = Greedy(r.missing[i])
    BY <1>6, <1>9, <2>2
  <2>4. Len(r.fresh) <= Len(r.missing)
    BY <1>7, <2>2
  <2> QED BY <2>1, <2>2, <2>3, <2>4 DEF Gathered
<1>12. CallOK(r)
  BY <1>3, <1>4, <1>9, <1>10, <1>11 DEF CallOK, Busy
<1>13. CacheOK'
  BY <1>3, CacheSteps
<1> QED BY <1>3, <1>12, <1>13, CallStep

\* A word and its ids leave the two lists together.
LEMMA StoreSteps ==
  ASSUME EncoderInv, NEW c \in Caller
  PROVE  Store(c) => EncoderInv'
<1> SUFFICES ASSUME Store(c) PROVE EncoderInv'
  OBVIOUS
<1>1. PICK s : s = call[c]
  OBVIOUS
<1>2. CallOK(s) /\ Constructed
  BY <1>1, CallIsOK
<1> DEFINE text == Head(s.missing)
           ids == Head(s.fresh)
           p == [special |-> FALSE, text |-> text]
           encoded == Put(s.encoded, p, ids)
           r == [s EXCEPT !.missing = Tail(@), !.fresh = Tail(@), !.encoded = encoded]
<1>3. /\ s.pc = "missing" /\ s.missing # << >> /\ Len(s.fresh) = Len(s.missing)
      /\ UNCHANGED <<model, built>> /\ Become(c, r) /\ Cached(text, ids)
  BY <1>1 DEF Store, Stored
<1>4. IsCall(s) /\ Gathered(s) /\ s.queue = {} /\ s = [f \in Fields |-> s[f]]
      /\ s.op = "words" /\ s.todo = << >> /\ s.work = << >>
  BY <1>2, <1>3 DEF CallOK, Busy, IsCall
<1> DEFINE T == {q.text : q \in Elements(s.pieces)}
           W == Seq(Vid)
<1>5. s.missing \in Seq(T) /\ s.fresh \in Seq(W)
  BY <1>4 DEF Gathered
<1> HIDE DEF T, W
<1>6. /\ Len(s.missing) \in Nat \ {0}
      /\ text = s.missing[1] /\ ids = s.fresh[1]
      /\ Tail(s.missing) \in Seq(T) /\ Tail(s.fresh) \in Seq(W)
      /\ Len(Tail(s.missing)) = Len(s.missing) - 1 /\ Len(Tail(s.fresh)) = Len(s.fresh) - 1
      /\ \A i \in 1..Len(s.missing) - 1 : Tail(s.missing)[i] = s.missing[i + 1]
      /\ \A i \in 1..Len(s.fresh) - 1 : Tail(s.fresh)[i] = s.fresh[i + 1]
  <2>1. Len(s.missing) \in Nat \ {0} /\ Len(s.fresh) \in Nat \ {0} /\ s.fresh # << >>
    BY <1>3, <1>5
  <2> QED BY <1>3, <1>5, <2>1
<1>7. /\ InVocab(text) /\ ids = Greedy(text) /\ text \in Seq(Scalar)
      /\ \A i \in 1..Len(s.fresh) - 1 : /\ InVocab(Tail(s.missing)[i])
                                        /\ Tail(s.fresh)[i] = Greedy(Tail(s.missing)[i])
  <2>1. \A i \in 1..Len(s.fresh) : InVocab(s.missing[i]) /\ s.fresh[i] = Greedy(s.missing[i])
    BY <1>4 DEF Gathered
  <2>2. \A i \in 1..Len(s.fresh) - 1 : i + 1 \in 1..Len(s.fresh)
    BY <1>3, <1>6
  <2>3. 1 \in 1..Len(s.fresh)
    BY <1>3, <1>6
  <2>4. text \in Seq(Scalar)
    BY <1>4, <1>6, <2>3, TextsAre
  <2> QED BY <1>3, <1>6, <2>1, <2>2, <2>3, <2>4
<1>8. p \in Piece /\ Encodable(p) /\ ids = IdsOf(p)
  BY <1>7 DEF Piece, Encodable, IdsOf
<1>9. \A q \in Elements(s.pieces) : q.text = text => q = p
  <2> SUFFICES ASSUME NEW q \in Elements(s.pieces), q.text = text PROVE q = p
    OBVIOUS
  <2>1. q \in Piece /\ ~q.special
    BY <1>4, TextsAre DEF Gathered, Given
  <2> QED BY <2>1 DEF Piece
<1> HIDE DEF p
<1>10. /\ DOMAIN encoded = DOMAIN s.encoded \cup {p}
       /\ \A q \in DOMAIN encoded : encoded[q] = IF q = p THEN ids ELSE s.encoded[q]
  BY DEF Put
<1> HIDE DEF encoded, text, ids
<1>11. \A t \in Elements(s.missing) : t = text \/ t \in Elements(Tail(s.missing))
  <2> TAKE t \in Elements(s.missing)
  <2>1. PICK i \in 1..Len(s.missing) : t = s.missing[i]
    BY <1>5 DEF Elements
  <2>2. CASE i = 1
    BY <1>6, <2>1, <2>2
  <2>3. CASE i # 1
    <3>1. i - 1 \in 1..Len(s.missing) - 1 /\ (i - 1) + 1 = i
      BY <1>6, <2>3
    <3>2. Tail(s.missing)[i - 1] = t
      BY <1>6, <2>1, <3>1
    <3>3. DOMAIN Tail(s.missing) = 1..Len(s.missing) - 1
      BY <1>6
    <3> QED BY <3>1, <3>2, <3>3 DEF Elements
  <2> QED BY <2>2, <2>3
<1>12. /\ r.pc = "missing" /\ r.op = s.op /\ r.input = s.input /\ r.pieces = s.pieces
       /\ r.todo = s.todo /\ r.encoded = encoded /\ r.missing = Tail(s.missing)
       /\ r.fresh = Tail(s.fresh) /\ r.work = s.work /\ r.queue = s.queue
       /\ r = [f \in Fields |-> r[f]]
  BY <1>3, <1>4 DEF Fields
<1> HIDE DEF r
<1>13. IsCall(r)
  BY <1>4, <1>12 DEF IsCall, Busy
<1>14. Gathered(r)
  <2>1. \A q \in Elements(r.pieces) :
          q \in Elements(r.todo) \/ q \in DOMAIN r.encoded \/ q.text \in Elements(r.missing)
    BY <1>4, <1>9, <1>10, <1>11, <1>12 DEF Gathered
  <2>2. \A q \in DOMAIN r.encoded : q \in Piece /\ Encodable(q) /\ r.encoded[q] = IdsOf(q)
    BY <1>4, <1>8, <1>10, <1>12 DEF Gathered
  <2>3. r.missing \in Seq({q.text : q \in Elements(r.pieces)}) /\ r.fresh \in Seq(Seq(Vid))
    BY <1>6, <1>12 DEF T, W
  <2>4. Len(r.fresh) <= Len(r.missing) /\ Len(r.fresh) = Len(s.fresh) - 1
    BY <1>3, <1>6, <1>12
  <2>5. \A i \in 1..Len(r.fresh) : InVocab(r.missing[i]) /\ r.fresh[i] = Greedy(r.missing[i])
    BY <1>7, <1>12, <2>4
  <2>6. /\ r.pieces = PiecesOf(r.op, r.input) /\ r.pieces \in Seq(Piece)
        /\ r.todo \in Seq(Elements(r.pieces))
        /\ \A q \in Elements(r.pieces) : Given(r.op, q)
        /\ r.op # "words" => r.missing = << >>
    BY <1>4, <1>12 DEF Gathered
  <2> QED BY <2>1, <2>2, <2>3, <2>4, <2>5, <2>6 DEF Gathered
<1>15. CallOK(r)
  BY <1>3, <1>4, <1>12, <1>13, <1>14 DEF CallOK, Busy
<1>16. CacheOK'
  BY <1>3, <1>7, CacheSteps
<1> QED BY <1>3, <1>15, <1>16, CallStep

\* The end of a call: all of its pieces have their ids.
LEMMA ReturnSteps ==
  ASSUME EncoderInv, NEW c \in Caller
  PROVE  Return(c) => EncoderInv'
<1> SUFFICES ASSUME Return(c) PROVE EncoderInv'
  OBVIOUS
<1>1. PICK s : s = call[c]
  OBVIOUS
<1>2. CallOK(s) /\ Constructed
  BY <1>1, CallIsOK
<1> DEFINE ids == [i \in DOMAIN s.pieces |-> s.encoded[s.pieces[i]]]
           result == IF s.op = "string" THEN <<FlattenSeq(ids)>> ELSE ids
           r == [Idle EXCEPT !.pc = "ok", !.op = s.op, !.input = s.input, !.result = result]
<1>3. /\ s.pc \in {"pieces", "missing"} /\ s.todo = << >> /\ s.missing = << >>
      /\ UNCHANGED <<model, built, cache>> /\ Become(c, r)
  <2> DEFINE now == call[c]
             its == [i \in DOMAIN now.pieces |-> now.encoded[now.pieces[i]]]
  <2>1. /\ now.pc \in {"pieces", "missing"} /\ now.todo = << >> /\ now.missing = << >>
        /\ UNCHANGED <<model, built, cache>>
        /\ Become(c, [Idle EXCEPT !.pc = "ok", !.op = now.op, !.input = now.input,
                       !.result = IF now.op = "string" THEN <<FlattenSeq(its)>> ELSE its])
    BY Zenon DEF Return, Assembled
  <2>2. now = s
    BY <1>1
  <2> HIDE DEF now
  <2> QED BY <2>1, <2>2, Zenon
<1>4. IsCall(s) /\ Gathered(s)
  BY <1>2, <1>3 DEF CallOK, Busy
<1>5. \A p \in Elements(s.pieces) : Encodable(p) /\ s.encoded[p] = IdsOf(p)
  <2>1. Elements(<< >>) = {}
    BY DEF Elements
  <2> QED BY <1>3, <1>4, <2>1 DEF Gathered
<1>6. result = Answer(s.op, s.pieces)
  <2> DEFINE its == [i \in DOMAIN s.pieces |-> IdsOf(s.pieces[i])]
  <2>1. \A i \in DOMAIN s.pieces : s.encoded[s.pieces[i]] = IdsOf(s.pieces[i])
    BY <1>5 DEF Elements
  <2>2. ids = its
    BY <2>1
  <2>3. Answer(s.op, s.pieces) = IF s.op = "string" THEN <<FlattenSeq(its)>> ELSE its
    BY DEF Answer
  <2> HIDE DEF ids, its
  <2> QED BY <2>2, <2>3
<1> HIDE DEF result
<1>7. /\ r.pc = "ok" /\ r.op = s.op /\ r.input = s.input /\ r.result = result
      /\ r.missing = << >> /\ r.fresh = << >> /\ r.work = << >> /\ r.queue = {}
      /\ r = [f \in Fields |-> r[f]]
  BY DEF Idle, Fields
<1> HIDE DEF r
<1>8. IsCall(r)
  BY <1>4, <1>7 DEF IsCall
<1>9. Returned(r)
  BY <1>4, <1>5, <1>6, <1>7 DEF Returned, Gathered
<1>10. CallOK(r)
  BY <1>7, <1>8, <1>9 DEF CallOK, Busy
<1>11. CacheOK'
  BY <1>3, CacheSteps
<1> QED BY <1>3, <1>10, <1>11, CallStep

\* The beginning of one: all of its pieces are to come.
LEMMA CallSteps ==
  ASSUME EncoderInv, NEW c \in Caller, NEW op \in {"word", "words", "string"}, NEW input \in Inputs
  PROVE  Call(c, op, input) => EncoderInv'
<1> SUFFICES ASSUME Call(c, op, input) PROVE EncoderInv'
  OBVIOUS
<1> DEFINE now == PiecesOf(op, input)
           next(p) == [Idle EXCEPT !.pc = "pieces", !.op = op, !.input = input,
                                   !.pieces = p, !.todo = p]
<1>1. PICK pieces : pieces = now
  OBVIOUS
<1> DEFINE r == next(pieces)
<1>2. /\ UNCHANGED <<model, built, cache>> /\ Become(c, next(now))
      /\ \A p \in Elements(input) : p.special => op = "string" /\ SpecialIds(p.text) # {}
  BY Zenon DEF Call
<1>3. Become(c, r)
  <2> HIDE DEF now, next
  <2> QED BY <1>1, <1>2
<1>4. input \in Seq(Piece)
  BY InputAssumption DEF Piece
<1>5. /\ pieces \in Seq(Piece) /\ (op # "string" => pieces = input)
      /\ \A p \in Elements(pieces) : Given(op, p)
  <2> DEFINE P == {p \in Piece : Given(op, p)}
  <2>1. input \in Seq(P)
    <3>1. \A i \in DOMAIN input : Given(op, input[i])
      BY <1>2 DEF Given, Elements
    <3>2. \A i \in 1..Len(input) : input[i] \in P
      BY <1>4, <3>1
    <3>3. input = [i \in 1..Len(input) |-> input[i]] /\ Len(input) \in Nat
      BY <1>4
    <3> HIDE DEF P
    <3> QED BY <3>2, <3>3
  <2>2. \A t \in Seq(Scalar) : [special |-> FALSE, text |-> t] \in P
    BY DEF Piece, Given
  <2>3. \A p \in P : p.text \in Seq(Scalar) /\ p \in Piece /\ Given(op, p)
    BY DEF Piece
  <2> HIDE DEF P
  <2>4. pieces \in Seq(P) /\ (op # "string" => pieces = input)
    BY <1>1, <2>1, <2>2, <2>3, PiecesAre
  <2>5. \A i \in 1..Len(pieces) : pieces[i] \in P /\ Len(pieces) \in Nat
    BY <2>4
  <2>6. pieces = [i \in 1..Len(pieces) |-> pieces[i]] /\ Len(pieces) \in Nat
    BY <2>4
  <2>7. pieces \in Seq(Piece)
    BY <2>3, <2>5, <2>6
  <2>8. \A p \in Elements(pieces) : p \in P
    BY <2>4 DEF Elements
  <2> QED BY <2>3, <2>4, <2>7, <2>8
<1>6. /\ r.pc = "pieces" /\ r.op = op /\ r.input = input /\ r.pieces = pieces
      /\ r.todo = pieces /\ r.encoded = << >> /\ r.missing = << >>
      /\ r.fresh = << >> /\ r.work = << >> /\ r.queue = {}
      /\ r = [f \in Fields |-> r[f]]
  BY DEF Idle, Fields
<1> HIDE DEF r
<1>7. IsCall(r)
  BY <1>4, <1>6 DEF IsCall, Busy
<1>8. Gathered(r)
  <2>1. r.todo \in Seq(Elements(r.pieces))
    BY <1>5, <1>6, ElementsOf
  <2>2. \A i \in 1..Len(r.fresh) : FALSE
    BY <1>6
  <2>3. r.fresh \in Seq(Seq(Vid)) /\ r.missing \in Seq({p.text : p \in Elements(r.pieces)})
    BY <1>6
  <2>4. Len(r.fresh) <= Len(r.missing)
    BY <1>6
  <2>5. \A p \in Elements(r.pieces) : Given(r.op, p)
    BY <1>5, <1>6
  <2>6. DOMAIN r.encoded = {}
    BY <1>6
  <2>7. r.pieces = PiecesOf(r.op, r.input)
    BY <1>1, <1>6
  <2> HIDE DEF now
  <2> QED BY <1>5, <1>6, <2>1, <2>2, <2>3, <2>4, <2>5, <2>6, <2>7 DEF Gathered
<1>9. CallOK(r)
  BY <1>6, <1>7, <1>8 DEF CallOK, Busy
<1>10. CacheOK'
  BY <1>2, CacheSteps
<1> QED BY <1>2, <1>3, <1>9, <1>10, CallStep

\* The cache drops a word.
LEMMA EvictSteps ==
  ASSUME EncoderInv, NEW text \in DOMAIN cache, Evict(text)
  PROVE  EncoderInv'
<1>1. UNCHANGED <<model, built, call>>
  BY DEF Evict
<1>2. CacheOK'
  BY <1>1, CacheSteps
<1>3. Constructed /\ Constructed'
  BY <1>1, SameConstruction DEF EncoderInv
<1>4. ASSUME NEW c \in Caller, NEW s, s = call'[c]
      PROVE  CallOK(s)'
  <2>1. CallOK(s)
    BY <1>1, <1>4 DEF EncoderInv
  <2> QED BY <1>1, <1>3, <2>1, SameCall
<1>5. DOMAIN call' = Caller
  BY <1>1 DEF EncoderInv
<1> QED BY <1>2, <1>3, <1>4, <1>5 DEF EncoderInv

\* A step that changes nothing.
LEMMA StutterKeeps ==
  ASSUME EncoderInv, UNCHANGED vars
  PROVE  EncoderInv'
<1>1. UNCHANGED <<model, built, cache, call>>
  BY DEF vars
<1>2. CacheOK'
  BY <1>1, CacheSteps
<1>3. Constructed /\ Constructed'
  BY <1>1, SameConstruction DEF EncoderInv
<1>4. ASSUME NEW c \in Caller, NEW s, s = call'[c]
      PROVE  CallOK(s)'
  <2>1. CallOK(s)
    BY <1>1, <1>4 DEF EncoderInv
  <2> QED BY <1>1, <1>3, <2>1, SameCall
<1>5. DOMAIN call' = Caller
  BY <1>1 DEF EncoderInv
<1> QED BY <1>2, <1>3, <1>4, <1>5 DEF EncoderInv

\* The invariant holds first.
LEMMA InitOK == Init => EncoderInv
<1> SUFFICES ASSUME Init PROVE EncoderInv
  OBVIOUS
<1>1. Constructed
  BY DEF Init, Constructed
<1>2. CacheOK
  BY DEF Init, CacheOK
<1>3. CallOK(Idle)
  <2> DEFINE r == Idle
  <2>1. /\ r.pc = "idle" /\ r.op = "word" /\ r.input = << >>
        /\ r.missing = << >> /\ r.fresh = << >> /\ r.work = << >> /\ r.queue = {}
        /\ r = [f \in Fields |-> r[f]]
    BY DEF Idle, Fields
  <2> HIDE DEF r
  <2>2. IsCall(r)
    BY <2>1 DEF IsCall
  <2>3. CallOK(r)
    BY <2>1, <2>2 DEF CallOK, Busy
  <2> QED BY <2>3 DEF r
<1>4. call = [c \in Caller |-> Idle]
  BY DEF Init
<1>5. \A c \in Caller : call[c] = Idle
  BY <1>4
<1>6. ASSUME NEW c \in Caller, NEW s, s = call[c] PROVE CallOK(s)
  BY <1>3, <1>5, <1>6
<1> QED BY <1>1, <1>2, <1>4, <1>6 DEF EncoderInv

\* What each caller does keeps the queued ranks, the words of a batch, the
\* pieces of every call and the cache in order.
THEOREM EncoderInvariance == ASSUME JoiningModels PROVE Spec => []EncoderInv
<1>1. Init => EncoderInv
  BY InitOK
<1>2. EncoderInv /\ [Next]_vars => EncoderInv'
  <2> SUFFICES ASSUME EncoderInv, [Next]_vars PROVE EncoderInv'
    OBVIOUS
  <2>1. ASSUME NEW c \in Caller, Work(c) PROVE EncoderInv'
    <3>1. CASE Known(c) \/ SpecialToken(c) \/ Hit(c) \/ Defer(c)
      BY <3>1, PieceSteps
    <3>2. CASE StartPiece(c) \/ StartMissing(c)
      BY <3>2, StartSteps
    <3>3. CASE PopMerge(c)
      BY <3>3, PopSteps
    <3>4. CASE FinishWord(c)
      BY <3>4, FinishSteps
    <3>5. CASE EncodeMissing(c)
      BY <3>5, EncodeSteps
    <3>6. CASE MergeRank(c)
      BY <3>6, RankSteps
    <3>7. CASE FinishBatch(c)
      BY <3>7, BatchEnds
    <3>8. CASE Store(c)
      BY <3>8, StoreSteps
    <3>9. CASE Return(c)
      BY <3>9, ReturnSteps
    <3> QED BY <2>1, <3>1, <3>2, <3>3, <3>4, <3>5, <3>6, <3>7, <3>8, <3>9, Zenon DEF Work
  <2>2. ASSUME NEW c \in Caller, NEW op \in {"word", "words", "string"}, NEW i \in Inputs,
               Call(c, op, i)
        PROVE  EncoderInv'
    BY <2>2, CallSteps
  <2>3. ASSUME NEW text \in DOMAIN cache, Evict(text) PROVE EncoderInv'
    BY <2>3, EvictSteps
  <2>4. CASE UNCHANGED vars
    BY <2>4, StutterKeeps
  <2> QED BY <2>1, <2>2, <2>3, <2>4, Zenon DEF Next
<1> QED BY <1>1, <1>2, PTL DEF Spec

-----------------------------------------------------------------------------
(* The properties of every state. *)

\* The reference gives ids, of every text whose units have tokens.
LEMMA GreedyIs ==
  ASSUME Constructed, NEW text \in Seq(Scalar), InVocab(text)
  PROVE  Greedy(text) \in Ids
<1>1. Pretoken(text) \in Seq(Vid)
  BY PretokenIs
<1>2. Encoding(Pretoken(text)) \in Seq(Vid)
  BY <1>1, EncodingIs
<1> QED BY <1>2 DEF Greedy, Ids, Vid

\* The invariant says of each property what it claims.
LEMMA InvTypes == EncoderInv => EncoderTypeOK
<1> SUFFICES ASSUME EncoderInv PROVE EncoderTypeOK
  OBVIOUS
<1>1. Constructed /\ Ids = Seq(Vid)
  BY DEF EncoderInv, Ids, Vid
<1>2. \A t \in DOMAIN cache : cache[t] \in Ids
  BY <1>1, GreedyIs DEF EncoderInv, CacheOK
<1>3. ASSUME NEW c \in Caller, NEW s, s = call[c]
      PROVE  /\ s.pc \in {"idle", "pieces", "merging", "batch", "missing", "ok", "error"}
             /\ s.queue \subseteq Ranks
             /\ \A i \in DOMAIN s.work : s.work[i] \in Ids
             /\ Len(s.fresh) <= Len(s.missing)
             /\ s.pc = "batch" => Len(s.work) = Len(s.missing)
  <2>1. CallOK(s)
    BY <1>3 DEF EncoderInv
  <2>2. s.pc \in {"idle", "pieces", "merging", "batch", "missing", "ok", "error"}
    BY <2>1 DEF CallOK, IsCall, Busy
  <2>3. s.queue \subseteq Ranks
    BY <2>1 DEF CallOK, MergingOK
  <2>4. s.pc \in Busy => Gathered(s)
    BY <2>1 DEF CallOK
  <2>5. Len(s.fresh) <= Len(s.missing)
    BY <2>1, <2>4 DEF CallOK, Gathered
  <2>6. CASE s.pc = "merging"
    <3>1. s.work = <<s.work[1]>> /\ s.work[1] \in Ids
      BY <1>1, <2>1, <2>6 DEF CallOK, MergingOK
    <3>2. DOMAIN s.work = {1}
      BY <3>1
    <3> QED BY <2>2, <2>3, <2>5, <2>6, <3>1, <3>2
  <2>7. CASE s.pc = "batch"
    <3>1. Len(s.missing) \in Nat
      BY <2>4, <2>7, LengthsAre DEF Busy
    <3>2. s.work = [i \in 1..Len(s.missing) |-> s.work[i]]
      BY <2>1, <2>7 DEF CallOK, BatchOK
    <3>3. DOMAIN s.work = 1..Len(s.missing)
      BY <3>2
    <3>4. Len(s.work) = Len(s.missing)
      BY <3>1, <3>3
    <3>5. \A i \in 1..Len(s.missing) : s.work[i] \in Ids
      BY <1>1, <2>1, <2>7 DEF CallOK, BatchOK, WordOK
    <3> QED BY <2>2, <2>3, <2>5, <2>7, <3>3, <3>4, <3>5
  <2>8. CASE s.pc \notin {"merging", "batch"}
    <3>1. s.work = << >>
      BY <2>1, <2>8 DEF CallOK
    <3> QED BY <2>2, <2>3, <2>5, <2>8, <3>1
  <2> QED BY <2>6, <2>7, <2>8
<1> QED BY <1>2, <1>3 DEF EncoderTypeOK

\* The cache is right.
LEMMA InvCache == EncoderInv => CacheIsExact
  BY DEF EncoderInv, CacheOK, CacheIsExact

\* Every merge that applies is queued, or known to the batch.
LEMMA InvRanks == EncoderInv => NothingIsLost
<1> SUFFICES ASSUME EncoderInv PROVE NothingIsLost
  OBVIOUS
<1>1. Constructed
  BY DEF EncoderInv
<1>2. ASSUME NEW c \in Caller, NEW s, s = call[c]
      PROVE  /\ s.pc = "merging" =>
                  \A tp \in PairsOf(s.work[1]) : HasMerge(tp) => RankOf(tp) \in s.queue
             /\ s.pc = "batch" =>
                  \A r \in Ranks, i \in DOMAIN s.work :
                    r >= s.rank /\ PairOf(r) \in PairsOf(s.work[i]) => i \in s.occurs[r]
  <2>1. CallOK(s)
    BY <1>2 DEF EncoderInv
  <2>2. CASE s.pc = "merging"
    <3>1. Applicable(s.work[1]) \subseteq s.queue
      BY <2>1, <2>2 DEF CallOK, MergingOK
    <3> QED BY <1>1, <2>2, <3>1, AppliesIs
  <2>3. CASE s.pc = "batch"
    <3>1. BatchOK(s)
      BY <2>1, <2>3 DEF CallOK
    <3>2. DOMAIN s.work = 1..Len(s.missing)
      BY <3>1 DEF BatchOK
    <3> QED BY <2>3, <3>1, <3>2 DEF BatchOK, WordOK
  <2> QED BY <2>2, <2>3
<1> QED BY <1>2 DEF NothingIsLost

\* Words that are not cut are the pieces of their call.
LEMMA InvBatch == EncoderInv => BatchKeepsIds
<1> SUFFICES ASSUME EncoderInv PROVE BatchKeepsIds
  OBVIOUS
<1>1. ASSUME NEW c \in Caller, NEW s, s = call[c], s.pc = "ok", s.op = "words"
      PROVE  s.result = [i \in DOMAIN s.input |-> IdsOf(s.input[i])]
  <2>1. Returned(s) /\ IsCall(s)
    BY <1>1 DEF EncoderInv, CallOK
  <2>2. PiecesOf(s.op, s.input) = s.input
    BY <1>1 DEF PiecesOf
  <2> QED BY <1>1, <2>1, <2>2 DEF Returned, Answer
<1>2. ASSUME NEW c \in Caller, call[c].pc = "ok", call[c].op = "words"
      PROVE  call[c].result = Promised(c)
  BY <1>1, <1>2 DEF Promised
<1> QED BY <1>2 DEF BatchKeepsIds

\* The words of a call, its queue and its batch have the types they should.
THEOREM EncoderTypes == ASSUME JoiningModels PROVE Spec => []EncoderTypeOK
  BY EncoderInvariance, InvTypes, PTL

\* Callers that share the cache only find the ids of the word they look up
\* (encode_word_cached, encode_words_impl).
THEOREM CacheExact == ASSUME JoiningModels PROVE Spec => []CacheIsExact
  BY EncoderInvariance, InvCache, PTL

\* No merge that applies is forgotten (_encode_word, _encode_words).
THEOREM RanksKept == ASSUME JoiningModels PROVE Spec => []NothingIsLost
  BY EncoderInvariance, InvRanks, PTL

\* encode_words gives every word its own ids, whether it merged the missing
\* words together or one by one, and whatever it found in the cache.
THEOREM BatchIsGreedy == ASSUME JoiningModels PROVE Spec => []BatchKeepsIds
  BY EncoderInvariance, InvBatch, PTL

-----------------------------------------------------------------------------
(* What merging maps to. *)

\* A replacement by a unit that maps to what the pair maps to changes nothing.
LEMMA ReplacedMaps ==
  ASSUME NEW E, NEW U, NEW h, Maps(h, E, U), NEW a \in E, NEW b \in E, NEW target \in E,
         h[target] = Cat(h[a], h[b])
  PROVE  \A w \in Seq(E) : Mapped(h, Replaced(w, <<a, b>>, target)) = Mapped(h, w)
<1> DEFINE H(s) == Mapped(h, s)
           R(s) == Replaced(s, <<a, b>>, target)
           Q == {s \in Seq(E) : H(R(s)) = H(s)}
<1>1. /\ H(<< >>) = << >> /\ \A s \in Seq(E) : H(s) \in Seq(U)
      /\ \A x \in E, s \in Seq(E) : H(Onto(x, s)) = Cat(h[x], H(s))
      /\ \A x \in E : h[x] \in Seq(U)
  BY MapCat DEF Maps
<1>2. /\ R(<< >>) = << >>
      /\ \A p \in E : R(Onto(p, << >>)) = Onto(p, << >>)
      /\ \A u \in Seq(E) : R(u) \in Seq(E)
      /\ \A p, q \in E, u \in Seq(E) :
           R(Onto(p, Onto(q, u))) = IF <<p, q>> = <<a, b>> THEN Onto(target, R(u))
                                                          ELSE Onto(p, R(Onto(q, u)))
  <2>1. R(<< >>) = << >>
    BY ReplacedNone
  <2>2. \A p \in E : R(Onto(p, << >>)) = Onto(p, << >>)
    BY ReplacedOne
  <2>3. \A u \in Seq(E) : R(u) \in Seq(E)
    BY ReplacedType
  <2>4. \A p, q \in E, u \in Seq(E) :
          R(Onto(p, Onto(q, u))) = IF <<p, q>> = <<a, b>> THEN Onto(target, R(u))
                                                         ELSE Onto(p, R(Onto(q, u)))
    BY ReplacedTwo
  <2> QED BY <2>1, <2>2, <2>3, <2>4
<1>3. /\ \A x \in E, s \in Seq(E) : Onto(x, s) \in Seq(E)
      /\ \A s, t, u \in Seq(U) : Cat(Cat(s, t), u) = Cat(s, Cat(t, u))
  BY ConsAlgebra, Zenon
<1> HIDE DEF H, R
<1>4. ASSUME NEW s \in Seq(E), \A t \in Seq(E) : Len(t) < Len(s) => t \in Q
      PROVE  s \in Q
  <2>1. CASE s = << >>
    BY <1>2, <2>1
  <2>2. ASSUME NEW p \in E, s = Onto(p, << >>) PROVE s \in Q
    BY <1>2, <2>2
  <2>3. ASSUME NEW p \in E, NEW q \in E, NEW t \in Seq(E), s = Onto(p, Onto(q, t)),
               Len(t) < Len(s), Len(Onto(q, t)) < Len(s)
        PROVE  s \in Q
    <3>1. Onto(q, t) \in Seq(E) /\ R(t) \in Seq(E) /\ R(Onto(q, t)) \in Seq(E)
      BY <1>2, <1>3
    <3>2. H(R(t)) = H(t) /\ H(R(Onto(q, t))) = H(Onto(q, t))
      BY <1>4, <2>3, <3>1
    <3>3. H(s) = Cat(h[p], Cat(h[q], H(t))) /\ H(Onto(q, t)) = Cat(h[q], H(t))
      BY <1>1, <2>3, <3>1
    <3>4. CASE <<p, q>> = <<a, b>>
      <4>1. p = a /\ q = b
        BY <3>4
      <4>2. H(R(s)) = Cat(h[target], H(t))
        BY <1>1, <1>2, <2>3, <3>1, <3>2, <3>4
      <4>3. Cat(Cat(h[a], h[b]), H(t)) = Cat(h[a], Cat(h[b], H(t)))
        BY <1>1, <1>3
      <4> QED BY <3>3, <4>1, <4>2, <4>3
    <3>5. CASE <<p, q>> # <<a, b>>
      <4>1. R(s) = Onto(p, R(Onto(q, t)))
        BY <1>2, <2>3, <3>5
      <4>2. H(R(s)) = Cat(h[p], H(Onto(q, t)))
        BY <1>1, <3>1, <3>2, <4>1
      <4> QED BY <3>3, <4>2
    <3> QED BY <3>4, <3>5
  <2>4. \/ s = << >>
        \/ \E p \in E : s = Onto(p, << >>)
        \/ \E p, q \in E, t \in Seq(E) :
             s = Onto(p, Onto(q, t)) /\ Len(t) < Len(s) /\ Len(Onto(q, t)) < Len(s)
    BY WordCases, Zenon
  <2> HIDE DEF Q
  <2> QED BY <2>1, <2>2, <2>3, <2>4, Zenon
<1> HIDE DEF Q
<1>5. \A s \in Seq(E) : s \in Q
  BY <1>4, SeqInd
<1> QED BY <1>5 DEF Q, H, R

-----------------------------------------------------------------------------
(* Decoding. *)

\* The bytes of a unit, and of a token.
UnitBytes == [u \in Nat \cup Scalar |-> IF u \in Scalar THEN Utf8[u] ELSE <<u>>]

TokenBytes == [k \in Vid |-> BytesOf(model.vocab[k])]

\* The bytes of a content are those of its units.
LEMMA BytesAre ==
  /\ Maps(UnitBytes, Nat \cup Scalar, Nat)
  /\ \A c \in Seq(Nat \cup Scalar) : BytesOf(c) = Mapped(UnitBytes, c) /\ BytesOf(c) \in Seq(Nat)
<1> DEFINE E == Nat \cup Scalar
<1>1. \A u \in E : UnitBytes[u] \in Seq(Nat)
  <2> TAKE u \in E
  <2>1. CASE u \in Scalar
    BY <2>1, Utf8Assumption DEF UnitBytes
  <2>2. CASE u \notin Scalar
    BY <2>2 DEF UnitBytes
  <2> QED BY <2>1, <2>2
<1>2. Maps(UnitBytes, E, Nat)
  BY <1>1 DEF Maps
<1>3. \A c \in Seq(E) : BytesOf(c) = Mapped(UnitBytes, c)
  <2> TAKE c \in Seq(E)
  <2>1. \A i \in DOMAIN c : UnitBytes[c[i]] = IF c[i] \in Scalar THEN Utf8[c[i]] ELSE <<c[i]>>
    BY DEF UnitBytes
  <2>2. [i \in DOMAIN c |-> UnitBytes[c[i]]]
          = [i \in DOMAIN c |-> IF c[i] \in Scalar THEN Utf8[c[i]] ELSE <<c[i]>>]
    BY <2>1, Zenon
  <2> QED BY <2>2, Zenon DEF Mapped, BytesOf
<1>4. \A c \in Seq(E) : Mapped(UnitBytes, c) \in Seq(Nat)
  <2> HIDE DEF E
  <2> QED BY <1>2, MapCat
<1> QED BY <1>2, <1>3, <1>4

\* The bytes of bytes are themselves.
LEMMA BytesKept ==
  ASSUME NEW w \in Seq(Nat), \A i \in DOMAIN w : w[i] \notin Scalar
  PROVE  Mapped(UnitBytes, w) = w
<1> DEFINE D == Nat \ Scalar
           Q == {s \in Seq(D) : Mapped(UnitBytes, s) = s}
<1>1. w \in Seq(D)
  <2>1. w = [i \in 1..Len(w) |-> w[i]] /\ Len(w) \in Nat /\ DOMAIN w = 1..Len(w)
    OBVIOUS
  <2>2. \A i \in 1..Len(w) : w[i] \in D
    BY <2>1
  <2> QED BY <2>1, <2>2
<1>2. \A u \in D : UnitBytes[u] = <<u>>
  BY DEF UnitBytes
<1>3. Maps(UnitBytes, D, Nat)
  <2>1. \A u \in D : <<u>> \in Seq(Nat)
    OBVIOUS
  <2> HIDE DEF D
  <2> QED BY <1>2, <2>1 DEF Maps
<1> HIDE DEF D
<1>4. /\ Mapped(UnitBytes, << >>) = << >>
      /\ \A x \in D, s \in Seq(D) : Mapped(UnitBytes, Onto(x, s)) = Cat(UnitBytes[x], Mapped(UnitBytes, s))
  BY <1>3, MapCat
<1>5. \A x, s : Onto(x, s) = Cat(<<x>>, s)
  BY DEF Onto, Cat
<1>6. ASSUME NEW s \in Seq(D), \A t \in Seq(D) : Len(t) < Len(s) => t \in Q
      PROVE  s \in Q
  <2>1. CASE s = << >>
    BY <1>4, <2>1
  <2>2. ASSUME NEW x \in D, NEW t \in Seq(D), s = Onto(x, t), Len(t) < Len(s)
        PROVE  s \in Q
    <3>1. Mapped(UnitBytes, t) = t
      BY <1>6, <2>2
    <3> QED BY <1>2, <1>4, <1>5, <2>2, <3>1
  <2> QED BY <2>1, <2>2, OntoCases
<1> HIDE DEF Q
<1>7. \A s \in Seq(D) : s \in Q
  BY <1>6, SeqInd
<1> QED BY <1>1, <1>7 DEF Q

\* Every token has bytes, and a literal merge keeps those of a word.
LEMMA MergeDecodes ==
  ASSUME Constructed
  PROVE  /\ Maps(TokenBytes, Vid, Nat)
         /\ Literal => \A r \in Ranks, w \in Seq(Vid) :
              Mapped(TokenBytes, Replaced(w, PairOf(r), TargetOf(r))) = Mapped(TokenBytes, w)
<1>1. \A k \in Vid : model.vocab[k] \in Seq(Nat \cup Scalar)
  BY ModelTypes
<1>2. Maps(TokenBytes, Vid, Nat)
  BY <1>1, BytesAre DEF Maps, TokenBytes
<1>3. ASSUME Literal, NEW r \in Ranks, NEW w \in Seq(Vid)
      PROVE  Mapped(TokenBytes, Replaced(w, PairOf(r), TargetOf(r))) = Mapped(TokenBytes, w)
  <2> DEFINE a == PairOf(r)[1]
             b == PairOf(r)[2]
             t == TargetOf(r)
  <2>1. a \in Vid /\ b \in Vid /\ t \in Vid /\ PairOf(r) = <<a, b>>
    BY ModelTypes
  <2>2. BytesOf(model.vocab[a]) \o BytesOf(model.vocab[b]) = BytesOf(model.vocab[t])
    BY <1>3 DEF Literal, ContentOf
  <2>3. TokenBytes[t] = Cat(TokenBytes[a], TokenBytes[b])
    BY <2>1, <2>2 DEF TokenBytes, Cat
  <2> HIDE DEF a, b, t
  <2>4. \A v \in Seq(Vid) : Mapped(TokenBytes, Replaced(v, <<a, b>>, t)) = Mapped(TokenBytes, v)
    BY <1>2, <2>1, <2>3, ReplacedMaps
  <2> QED BY <2>1, <2>4 DEF t
<1> QED BY <1>2, <1>3

\* So does merging until no merge applies.
LEMMA EncodingDecodes ==
  ASSUME Constructed, Literal
  PROVE  \A w \in Seq(Vid) : Mapped(TokenBytes, Encoding(w)) = Mapped(TokenBytes, w)
<1> DEFINE D(w) == Mapped(TokenBytes, w)
           Q == {w \in Seq(Vid) : D(Encoding(w)) = D(w)}
<1>1. \A w \in Seq(Vid) : /\ MergeStep(w) \in Seq(Vid)
                          /\ Encoding(MergeStep(w)) = Encoding(w)
                          /\ Applicable(w) = {} => Encoding(w) = w
                          /\ Applicable(w) # {} => Len(MergeStep(w)) < Len(w)
  BY EncodingIs, MergeStepIs
<1>2. ASSUME NEW w \in Seq(Vid), Applicable(w) # {}
      PROVE  D(MergeStep(w)) = D(w)
  <2>1. MergeStep(w) = Replaced(w, PairOf(Min(Applicable(w))), TargetOf(Min(Applicable(w))))
    BY <1>2, Zenon DEF MergeStep, Applicable
  <2>2. Min(Applicable(w)) \in Ranks
    <3>1. Applicable(w) \in SUBSET (1..Len(model.merges)) /\ Len(model.merges) \in Nat
      BY AppliesIs, ModelTypes
    <3>2. Min(Applicable(w)) \in Applicable(w)
      BY <1>2, <3>1, EndsOf
    <3> QED BY <3>2, AppliesIs
  <2> QED BY <2>1, <2>2, MergeDecodes
<1> HIDE DEF D
<1>3. ASSUME NEW w \in Seq(Vid), \A v \in Seq(Vid) : Len(v) < Len(w) => v \in Q
      PROVE  w \in Q
  <2>1. CASE Applicable(w) = {}
    BY <1>1, <2>1
  <2>2. CASE Applicable(w) # {}
    <3>1. MergeStep(w) \in Q
      BY <1>1, <1>3, <2>2
    <3> QED BY <1>1, <1>2, <2>2, <3>1
  <2> QED BY <2>1, <2>2
<1> HIDE DEF Q
<1>4. \A w \in Seq(Vid) : w \in Q
  BY <1>3, SeqInd
<1> QED BY <1>4 DEF Q, D

\* The units a scalar is given tokens for.
ScalarUnits ==
  [s \in Scalar |-> IF model.unicode /\ s \in DOMAIN built.vocab_bytes THEN <<s>> ELSE Utf8[s]]

\* The units of a text are those of its scalars, and have its bytes.
LEMMA UnitsAre ==
  /\ Maps(ScalarUnits, Scalar, Nat \cup Scalar)
  /\ \A text \in Seq(Scalar) : /\ UnitsOf(text) = Mapped(ScalarUnits, text)
                               /\ UnitsOf(text) \in Seq(Nat \cup Scalar)
                               /\ Mapped(UnitBytes, UnitsOf(text)) = BytesOf(text)
<1> DEFINE E == Nat \cup Scalar
<1>1. \A s \in Scalar : ScalarUnits[s] \in Seq(E)
  <2> TAKE s \in Scalar
  <2>1. Utf8[s] \in Seq(E)
    <3>1. Utf8[s] \in Seq(Nat)
      BY Utf8Assumption
    <3> QED BY <3>1
  <2>2. <<s>> \in Seq(E)
    OBVIOUS
  <2> QED BY <2>1, <2>2 DEF ScalarUnits
<1>2. Maps(ScalarUnits, Scalar, E)
  BY <1>1 DEF Maps
<1>3. \A text \in Seq(Scalar) : UnitsOf(text) = Mapped(ScalarUnits, text)
  <2> TAKE text \in Seq(Scalar)
  <2>1. \A i \in DOMAIN text : ScalarUnits[text[i]]
          = IF model.unicode /\ text[i] \in DOMAIN built.vocab_bytes THEN <<text[i]>> ELSE Utf8[text[i]]
    BY DEF ScalarUnits
  <2>2. [i \in DOMAIN text |-> ScalarUnits[text[i]]]
          = [i \in DOMAIN text |-> IF model.unicode /\ text[i] \in DOMAIN built.vocab_bytes
                                   THEN <<text[i]>> ELSE Utf8[text[i]]]
    BY <2>1, Zenon
  <2> QED BY <2>2, Zenon DEF Mapped, UnitsOf
<1>4. \A s \in Scalar : UnitBytes[s] = Mapped(UnitBytes, ScalarUnits[s])
  <2> TAKE s \in Scalar
  <2>1. UnitBytes[s] = Utf8[s]
    BY DEF UnitBytes
  <2>2. Mapped(UnitBytes, <<s>>) = UnitBytes[s]
    <3>1. s \in E
      OBVIOUS
    <3> QED BY <3>1, BytesAre, MapCat
  <2>3. Mapped(UnitBytes, Utf8[s]) = Utf8[s]
    <3>1. Utf8[s] \in Seq(Nat) /\ Elements(Utf8[s]) \cap Scalar = {}
      BY Utf8Assumption
    <3> PICK w : w = Utf8[s]
      OBVIOUS
    <3>2. w \in Seq(Nat) /\ \A i \in DOMAIN w : w[i] \in Nat /\ w[i] \notin Scalar
      BY <3>1 DEF Elements
    <3>3. Mapped(UnitBytes, w) = w
      BY <3>2, BytesKept
    <3> QED BY <3>3
  <2> QED BY <2>1, <2>2, <2>3 DEF ScalarUnits
<1> HIDE DEF E
<1>5. \A text \in Seq(Scalar) : Mapped(ScalarUnits, text) \in Seq(E)
  BY <1>2, MapCat
<1>6. \A text \in Seq(Scalar) : Mapped(UnitBytes, Mapped(ScalarUnits, text)) = Mapped(UnitBytes, text)
  <2>1. Maps(UnitBytes, E, Nat)
    BY BytesAre DEF E
  <2>2. Composes(ScalarUnits, Scalar, E, UnitBytes, Nat, UnitBytes)
    BY <1>2, <1>4, <2>1 DEF Composes
  <2> QED BY ONLY <2>2, MapMap
<1>7. \A text \in Seq(Scalar) : text \in Seq(E)
  BY DEF E
<1> QED BY <1>2, <1>3, <1>5, <1>6, <1>7, BytesAre DEF E

\* The token of a unit has the unit as its content.
LEMMA UnitTokenIs ==
  ASSUME Constructed, NEW u \in DOMAIN VocabBytes
  PROVE  VocabBytes[u] \in Vid /\ model.vocab[VocabBytes[u]] = <<u>> /\ u \in Nat \cup Scalar
<1> DEFINE S == {k \in SingleIds : model.vocab[k][1] = u}
           k == Max(S)
<1>1. VocabBytes[u] = k /\ S # {}
  BY DEF VocabBytes
<1>2. S \in SUBSET (1..Len(model.vocab)) /\ Len(model.vocab) \in Nat
  BY ModelTypes DEF SingleIds, Vid
<1>3. k \in S
  <2> HIDE DEF S
  <2> QED BY <1>1, <1>2, EndsOf
<1> HIDE DEF k
<1>4. k \in Vid /\ Len(model.vocab[k]) = 1 /\ model.vocab[k][1] = u
  BY <1>3 DEF SingleIds, Vid
<1>5. PICK c : c = model.vocab[k]
  OBVIOUS
<1>6. c \in Seq(Nat \cup Scalar) /\ Len(c) = 1 /\ c[1] = u
  BY <1>4, <1>5, ModelTypes
<1>7. c = <<u>> /\ u \in Nat \cup Scalar
  BY <1>6
<1> QED BY <1>1, <1>4, <1>5, <1>7

\* The first tokens of a text have its bytes, and so have the ids it is given.
LEMMA GreedyDecodes ==
  ASSUME Constructed, NEW text \in Seq(Scalar), InVocab(text)
  PROVE  /\ Mapped(TokenBytes, Pretoken(text)) = BytesOf(text)
         /\ Literal => Mapped(TokenBytes, Greedy(text)) = BytesOf(text)
<1> DEFINE units == UnitsOf(text)
           ids == Pretoken(text)
<1>1. /\ ids \in Seq(Vid) /\ ids = [i \in DOMAIN units |-> VocabBytes[units[i]]]
      /\ \A i \in DOMAIN units : units[i] \in DOMAIN VocabBytes
  <2>1. \A i \in DOMAIN units : units[i] \in DOMAIN VocabBytes
    BY DEF InVocab, Elements, Constructed, Built
  <2> QED BY <2>1, PretokenIs
<1>2. units \in Seq(Nat \cup Scalar) /\ Mapped(UnitBytes, units) = BytesOf(text)
  BY UnitsAre
<1> HIDE DEF ids, units
<1>3. DOMAIN ids = DOMAIN units
  BY <1>1
<1>4. ASSUME NEW i \in DOMAIN units PROVE TokenBytes[ids[i]] = UnitBytes[units[i]]
  <2> DEFINE u == units[i]
  <2>1. ids[i] = VocabBytes[u] /\ u \in DOMAIN VocabBytes
    BY <1>1
  <2> HIDE DEF u
  <2>2. VocabBytes[u] \in Vid /\ model.vocab[VocabBytes[u]] = <<u>> /\ u \in Nat \cup Scalar
    BY <2>1, UnitTokenIs
  <2>3. TokenBytes[ids[i]] = BytesOf(<<u>>)
    BY <2>1, <2>2 DEF TokenBytes
  <2>4. BytesOf(<<u>>) = UnitBytes[u]
    <3> DEFINE E == Nat \cup Scalar
    <3>1. <<u>> \in Seq(E) /\ u \in E
      BY <2>2
    <3>2. Maps(UnitBytes, E, Nat) /\ BytesOf(<<u>>) = Mapped(UnitBytes, <<u>>)
      BY <3>1, BytesAre
    <3> HIDE DEF E
    <3> QED BY <3>1, <3>2, MapCat
  <2> QED BY <2>3, <2>4 DEF u
<1>5. [i \in DOMAIN ids |-> TokenBytes[ids[i]]] = [i \in DOMAIN units |-> UnitBytes[units[i]]]
  BY <1>3, <1>4
<1>6. Mapped(TokenBytes, ids) = Mapped(UnitBytes, units)
  BY <1>5 DEF Mapped
<1>7. Literal => Mapped(TokenBytes, Encoding(ids)) = Mapped(TokenBytes, ids)
  BY <1>1, EncodingDecodes
<1> QED BY <1>2, <1>6, <1>7 DEF ids, Greedy

\* What a piece is encoded to are tokens, with its bytes.
LEMMA PieceDecodes ==
  ASSUME Constructed, NEW p \in Piece, Encodable(p)
  PROVE  IdsOf(p) \in Seq(Vid) /\ (Literal => Mapped(TokenBytes, IdsOf(p)) = BytesOf(p.text))
<1>1. p.text \in Seq(Scalar)
  BY DEF Piece
<1>2. CASE ~p.special
  <2>1. InVocab(p.text) /\ IdsOf(p) = Greedy(p.text)
    BY <1>2 DEF Encodable, IdsOf
  <2>2. Greedy(p.text) \in Seq(Vid)
    BY <1>1, <2>1, GreedyIs DEF Ids, Vid
  <2> QED BY <1>1, <2>1, <2>2, GreedyDecodes
<1>3. CASE p.special
  <2> DEFINE S == SpecialIds(p.text)
             k == Max(S)
  <2>1. S # {} /\ IdsOf(p) = <<k>>
    BY <1>3 DEF Encodable, IdsOf
  <2>2. S \in SUBSET (1..Len(model.vocab)) /\ Len(model.vocab) \in Nat
    BY ModelTypes DEF SpecialIds, Vid
  <2>3. k \in S
    <3> HIDE DEF S
    <3> QED BY <2>1, <2>2, EndsOf
  <2> HIDE DEF k
  <2>4. k \in Vid /\ BytesOf(model.vocab[k]) = BytesOf(p.text)
    BY <2>3, ModelTypes DEF SpecialIds, Vid
  <2>5. TokenBytes[k] = BytesOf(p.text)
    BY <2>4 DEF TokenBytes
  <2>6. Mapped(TokenBytes, <<k>>) = TokenBytes[k]
    BY <2>4, MergeDecodes, MapCat
  <2> QED BY <2>1, <2>4, <2>5, <2>6
<1> QED BY <1>2, <1>3

-----------------------------------------------------------------------------
(* The pieces of a string. *)

\* Texts as pieces, and the pieces that stand for one piece of a string.
Words(texts) == [k \in DOMAIN texts |-> [special |-> FALSE, text |-> texts[k]]]

PieceParts == [p \in Piece |-> IF p.special THEN <<p>> ELSE Words(Segments(p.text))]

\* Words map to what their texts map to.
LEMMA WordsMap ==
  ASSUME NEW W, NEW texts \in Seq(W), NEW g, NEW h,
         \A t \in W : g[[special |-> FALSE, text |-> t]] = h[t]
  PROVE  Mapped(g, Words(texts)) = Mapped(h, texts)
<1>1. DOMAIN Words(texts) = DOMAIN texts
  BY DEF Words
<1>2. \A k \in DOMAIN texts : g[Words(texts)[k]] = h[texts[k]]
  <2> TAKE k \in DOMAIN texts
  <2>1. Words(texts)[k] = [special |-> FALSE, text |-> texts[k]]
    BY DEF Words
  <2>2. texts[k] \in W
    OBVIOUS
  <2> QED BY <2>1, <2>2
<1>3. [k \in DOMAIN Words(texts) |-> g[Words(texts)[k]]] = [k \in DOMAIN texts |-> h[texts[k]]]
  BY <1>1, <1>2
<1> QED BY <1>3 DEF Mapped

\* The words of a sequence of texts are pieces.
LEMMA WordsAre ==
  ASSUME NEW P, NEW W, \A t \in W : [special |-> FALSE, text |-> t] \in P
  PROVE  \A texts \in Seq(W) : Words(texts) \in Seq(P)
<1> TAKE texts \in Seq(W)
<1>1. Len(texts) \in Nat /\ DOMAIN texts = 1..Len(texts) /\ \A k \in 1..Len(texts) : texts[k] \in W
  OBVIOUS
<1>2. Words(texts) = [k \in 1..Len(texts) |-> [special |-> FALSE, text |-> texts[k]]]
  BY <1>1 DEF Words
<1> QED BY <1>1, <1>2

\* The pieces of a string are those of its pieces.
LEMMA PartsAre ==
  /\ Maps(PieceParts, Piece, Piece)
  /\ \A input \in Seq(Piece) : PiecesOf("string", input) = Mapped(PieceParts, input)
<1>1. \A p \in Piece : PieceParts[p] \in Seq(Piece)
  <2> TAKE p \in Piece
  <2> DEFINE W == Seq(Scalar)
  <2>1. Segments(p.text) \in Seq(W)
    BY SegmentsAre DEF Piece
  <2>2. \A t \in W : [special |-> FALSE, text |-> t] \in Piece
    BY DEF Piece
  <2> HIDE DEF W
  <2>3. Words(Segments(p.text)) \in Seq(Piece)
    BY <2>1, <2>2, WordsAre
  <2> QED BY <2>3 DEF PieceParts
<1>2. ASSUME NEW input \in Seq(Piece)
      PROVE  PiecesOf("string", input) = Mapped(PieceParts, input)
  <2>1. \A i \in DOMAIN input : input[i] \in Piece
    OBVIOUS
  <2>2. \A i \in DOMAIN input : PieceParts[input[i]]
          = IF input[i].special THEN <<input[i]>> ELSE Words(Segments(input[i].text))
    BY <2>1 DEF PieceParts
  <2>3. PiecesOf("string", input)
          = FlattenSeq([i \in DOMAIN input |->
              IF input[i].special THEN <<input[i]>> ELSE Words(Segments(input[i].text))])
    BY Zenon DEF PiecesOf, Words
  <2>4. [i \in DOMAIN input |-> PieceParts[input[i]]]
          = [i \in DOMAIN input |->
              IF input[i].special THEN <<input[i]>> ELSE Words(Segments(input[i].text))]
    BY <2>2, Zenon
  <2> QED BY <2>3, <2>4, Zenon DEF Mapped
<1> QED BY <1>1, <1>2 DEF Maps

\* The bytes of a piece, and what it is encoded to.
PieceBytes == [p \in Piece |-> BytesOf(p.text)]

EncodablePiece == {p \in Piece : Encodable(p)}

PieceIds == [p \in EncodablePiece |-> IdsOf(p)]

\* Cutting a string into pieces keeps its bytes.
LEMMA PartsKeepBytes ==
  /\ Maps(PieceBytes, Piece, Nat)
  /\ \A op : \A input \in Seq(Piece) :
       /\ PiecesOf(op, input) \in Seq(Piece)
       /\ Mapped(PieceBytes, PiecesOf(op, input)) = Mapped(PieceBytes, input)
<1> DEFINE W == Seq(Scalar)
           b == [t \in W |-> BytesOf(t)]
<1>1. \A t \in W : BytesOf(t) = Mapped(UnitBytes, t) /\ BytesOf(t) \in Seq(Nat)
  <2>1. \A t \in W : t \in Seq(Nat \cup Scalar)
    OBVIOUS
  <2> QED BY <2>1, BytesAre
<1>2. Maps(UnitBytes, Scalar, Nat)
  BY BytesAre DEF Maps
<1>3. \A ss \in Seq(W) : Mapped(UnitBytes, FlattenSeq(ss)) = Mapped(b, ss)
  <2>1. \A t \in W : b[t] = Mapped(UnitBytes, t)
    BY <1>1
  <2> HIDE DEF b
  <2> QED BY ONLY <1>2, <2>1, MapFlatten
<1>4. /\ \A t \in W : [special |-> FALSE, text |-> t] \in Piece
      /\ \A p \in Piece : p.text \in W
  BY DEF Piece
<1>5. Maps(PieceBytes, Piece, Nat)
  BY <1>1, <1>4 DEF PieceBytes, Maps
<1>6. \A t \in W : PieceBytes[[special |-> FALSE, text |-> t]] = b[t]
  BY <1>4 DEF PieceBytes
<1>7. \A t \in W : Segments(t) \in Seq(W) /\ FlattenSeq(Segments(t)) = t
  BY SegmentsAre
<1>8. \A t \in W : Mapped(b, Segments(t)) = BytesOf(t)
  <2> HIDE DEF b, W
  <2> QED BY <1>1, <1>3, <1>7
<1> HIDE DEF b, W
<1>9. \A p \in Piece : PieceBytes[p] = Mapped(PieceBytes, PieceParts[p])
  <2> TAKE p \in Piece
  <2>1. PieceBytes[p] = BytesOf(p.text) /\ p.text \in W
    BY <1>4 DEF PieceBytes
  <2>2. CASE p.special
    <3>1. PieceParts[p] = <<p>>
      BY <2>2 DEF PieceParts
    <3> QED BY <1>5, <3>1, MapCat
  <2>3. CASE ~p.special
    <3>1. PieceParts[p] = Words(Segments(p.text))
      BY <2>3 DEF PieceParts
    <3>2. Mapped(PieceBytes, Words(Segments(p.text))) = Mapped(b, Segments(p.text))
      <4>1. Segments(p.text) \in Seq(W)
        BY <1>7, <2>1
      <4>2. \A texts \in Seq(W) : Mapped(PieceBytes, Words(texts)) = Mapped(b, texts)
        BY ONLY <1>6, WordsMap
      <4> QED BY <4>1, <4>2
    <3> QED BY <1>8, <2>1, <3>1, <3>2
  <2> QED BY <2>2, <2>3
<1>10. Composes(PieceParts, Piece, Piece, PieceBytes, Nat, PieceBytes)
  BY <1>5, <1>9, PartsAre DEF Composes
<1>11. \A input \in Seq(Piece) : Mapped(PieceBytes, Mapped(PieceParts, input)) = Mapped(PieceBytes, input)
  BY ONLY <1>10, MapMap
<1>12. \A input \in Seq(Piece) : Mapped(PieceParts, input) \in Seq(Piece)
  BY PartsAre, MapCat
<1>13. \A op, input : op # "string" => PiecesOf(op, input) = input
  BY DEF PiecesOf
<1> QED BY <1>5, <1>11, <1>12, <1>13, PartsAre

\* What a call returns decodes to the bytes of its pieces.
LEMMA AnswerDecodes ==
  ASSUME Constructed, Literal, NEW op, NEW pieces \in Seq(EncodablePiece),
         NEW ids, ids = FlattenSeq(Answer(op, pieces))
  PROVE  ids = Mapped(PieceIds, pieces) /\ ids \in Seq(Vid)
         /\ Mapped(TokenBytes, ids) = Mapped(PieceBytes, pieces)
<1>1. \A p \in EncodablePiece :
        p \in Piece /\ IdsOf(p) \in Seq(Vid) /\ Mapped(TokenBytes, IdsOf(p)) = BytesOf(p.text)
  BY PieceDecodes DEF EncodablePiece
<1>2. Maps(PieceIds, EncodablePiece, Vid)
  BY <1>1 DEF PieceIds, Maps
<1>3. Mapped(PieceIds, pieces) \in Seq(Vid)
  BY <1>2, MapCat
<1>4. \A i \in DOMAIN pieces : PieceIds[pieces[i]] = IdsOf(pieces[i])
  BY DEF PieceIds
<1>5. [i \in DOMAIN pieces |-> PieceIds[pieces[i]]] = [i \in DOMAIN pieces |-> IdsOf(pieces[i])]
  BY <1>4
<1>6. Mapped(PieceIds, pieces) = FlattenSeq([i \in DOMAIN pieces |-> IdsOf(pieces[i])])
  BY <1>5 DEF Mapped
<1>7. ids = Mapped(PieceIds, pieces)
  <2>1. CASE op = "string"
    <3>1. Answer(op, pieces) = <<Mapped(PieceIds, pieces)>>
      BY <1>6, <2>1 DEF Answer
    <3> QED BY <1>3, <3>1, FlattenOne
  <2>2. CASE op # "string"
    BY <1>6, <2>2 DEF Answer
  <2> QED BY <2>1, <2>2
<1>8. \A p \in EncodablePiece : PieceBytes[p] = Mapped(TokenBytes, PieceIds[p])
  BY <1>1 DEF PieceBytes, PieceIds
<1>9. Composes(PieceIds, EncodablePiece, Vid, TokenBytes, Nat, PieceBytes)
  BY <1>2, <1>8, MergeDecodes DEF Composes
<1>10. Mapped(TokenBytes, Mapped(PieceIds, pieces)) = Mapped(PieceBytes, pieces)
  BY ONLY <1>9, MapMap
<1> QED BY <1>3, <1>7, <1>10

\* Decoding what a call returned gives the bytes of its input.
LEMMA InvDecodes == EncoderInv => DecodesToInput
<1> SUFFICES ASSUME EncoderInv, Literal, NEW c \in Caller, NEW s, s = call[c], s.pc = "ok"
             PROVE  LET ids == FlattenSeq(s.result)
                    IN FlattenSeq([i \in DOMAIN ids |-> BytesOf(model.vocab[ids[i]])])
                         = FlattenSeq([i \in DOMAIN s.input |-> BytesOf(s.input[i].text)])
  BY DEF DecodesToInput
<1> DEFINE pieces == PiecesOf(s.op, s.input)
           ids == FlattenSeq(s.result)
<1>1. Constructed /\ Returned(s) /\ s.input \in Seq(Piece)
  BY DEF EncoderInv, CallOK, IsCall
<1>2. pieces \in Seq(Piece) /\ Mapped(PieceBytes, pieces) = Mapped(PieceBytes, s.input)
  BY <1>1, PartsKeepBytes
<1>3. pieces \in Seq(EncodablePiece) /\ ids = FlattenSeq(Answer(s.op, pieces))
  <2>1. (\A p \in Elements(pieces) : Encodable(p)) /\ ids = FlattenSeq(Answer(s.op, pieces))
    BY <1>1 DEF Returned
  <2> HIDE DEF pieces
  <2>2. Len(pieces) \in Nat /\ pieces = [i \in 1..Len(pieces) |-> pieces[i]]
        /\ DOMAIN pieces = 1..Len(pieces) /\ \A i \in 1..Len(pieces) : pieces[i] \in Piece
    BY <1>2
  <2>3. \A i \in 1..Len(pieces) : pieces[i] \in EncodablePiece
    BY <2>1, <2>2 DEF Elements, EncodablePiece
  <2> QED BY <2>1, <2>2, <2>3
<1> HIDE DEF pieces, ids
<1>4. ids \in Seq(Vid) /\ Mapped(TokenBytes, ids) = Mapped(PieceBytes, s.input)
  BY <1>1, <1>2, <1>3, AnswerDecodes
<1>5. Mapped(TokenBytes, ids) = FlattenSeq([i \in DOMAIN ids |-> BytesOf(model.vocab[ids[i]])])
  <2>1. \A i \in DOMAIN ids : TokenBytes[ids[i]] = BytesOf(model.vocab[ids[i]])
    BY <1>4 DEF TokenBytes
  <2>2. [i \in DOMAIN ids |-> TokenBytes[ids[i]]] = [i \in DOMAIN ids |-> BytesOf(model.vocab[ids[i]])]
    BY <2>1
  <2> QED BY <2>2 DEF Mapped
<1>6. Mapped(PieceBytes, s.input) = FlattenSeq([i \in DOMAIN s.input |-> BytesOf(s.input[i].text)])
  <2>1. \A i \in DOMAIN s.input : PieceBytes[s.input[i]] = BytesOf(s.input[i].text)
    BY <1>1 DEF PieceBytes
  <2>2. [i \in DOMAIN s.input |-> PieceBytes[s.input[i]]] = [i \in DOMAIN s.input |-> BytesOf(s.input[i].text)]
    BY <2>1
  <2> QED BY <2>2 DEF Mapped
<1> QED BY <1>4, <1>5, <1>6 DEF ids

\* Decoding inverts encoding when the merges are literal (encode_string, decode).
THEOREM DecodingInverts == ASSUME JoiningModels PROVE Spec => []DecodesToInput
  BY EncoderInvariance, InvDecodes, PTL

-----------------------------------------------------------------------------
(* Two words in a row. *)

\* The pairs of two words in a row: theirs, and the one that joins them.
LEMMA PairsCat ==
  ASSUME NEW E
  PROVE  \A s, t \in Seq(E) : s # << >> /\ t # << >> =>
           PairsOf(Cat(s, t)) = PairsOf(s) \cup PairsOf(t) \cup {<<Last(s), Head(t)>>}
<1> SUFFICES ASSUME NEW s \in Seq(E), NEW t \in Seq(E), s # << >>, t # << >>
             PROVE  PairsOf(Cat(s, t)) = PairsOf(s) \cup PairsOf(t) \cup {<<Last(s), Head(t)>>}
  OBVIOUS
<1> DEFINE w == Cat(s, t)
           n == Len(s)
           m == Len(t)
<1>1. /\ w \in Seq(E) /\ Len(w) = n + m /\ n \in Nat \ {0} /\ m \in Nat \ {0}
      /\ \A i \in 1..n + m : w[i] = IF i <= n THEN s[i] ELSE t[i - n]
  BY ConcatProperties DEF Cat
<1>2. Last(s) = s[n] /\ Head(t) = t[1]
  BY DEF Last
<1> HIDE DEF w
<1>3. \A i \in 1..n - 1 : PairAt(w, i) = PairAt(s, i)
  <2> TAKE i \in 1..n - 1
  <2>1. i \in 1..n + m /\ i + 1 \in 1..n + m /\ i <= n /\ i + 1 <= n
    BY <1>1
  <2>2. w[i] = s[i] /\ w[i + 1] = s[i + 1]
    BY <1>1, <2>1
  <2> QED BY <2>2 DEF PairAt
<1>4. \A i \in 1..m - 1 : PairAt(w, i + n) = PairAt(t, i)
  <2> TAKE i \in 1..m - 1
  <2>1. /\ i + n \in 1..n + m /\ i + n + 1 \in 1..n + m /\ ~(i + n <= n) /\ ~(i + n + 1 <= n)
        /\ i + n - n = i /\ i + n + 1 - n = i + 1
    BY <1>1
  <2>2. w[i + n] = t[i] /\ w[i + n + 1] = t[i + 1]
    BY <1>1, <2>1
  <2> QED BY <2>2 DEF PairAt
<1>5. PairAt(w, n) = <<Last(s), Head(t)>>
  <2>1. n \in 1..n + m /\ n + 1 \in 1..n + m /\ ~(n + 1 <= n) /\ n + 1 - n = 1
    BY <1>1
  <2>2. w[n] = s[n] /\ w[n + 1] = t[1]
    BY <1>1, <2>1
  <2> QED BY <1>2, <2>2 DEF PairAt
<1>6. PairsOf(w) \subseteq PairsOf(s) \cup PairsOf(t) \cup {<<Last(s), Head(t)>>}
  <2> SUFFICES ASSUME NEW i \in 1..Len(w) - 1
               PROVE  PairAt(w, i) \in PairsOf(s) \cup PairsOf(t) \cup {<<Last(s), Head(t)>>}
    BY DEF PairsOf
  <2>1. CASE i < n
    <3>1. i \in 1..n - 1
      BY <1>1, <2>1
    <3> QED BY <1>3, <3>1 DEF PairsOf
  <2>2. CASE i = n
    BY <1>5, <2>2
  <2>3. CASE i > n
    <3>1. i - n \in 1..m - 1 /\ (i - n) + n = i
      BY <1>1, <2>3
    <3>2. PairAt(w, (i - n) + n) = PairAt(t, i - n)
      BY <1>4, <3>1
    <3> QED BY <3>1, <3>2 DEF PairsOf
  <2> QED BY <1>1, <2>1, <2>2, <2>3
<1>7. PairsOf(s) \subseteq PairsOf(w)
  <2> SUFFICES ASSUME NEW i \in 1..n - 1 PROVE PairAt(s, i) \in PairsOf(w)
    BY DEF PairsOf
  <2>1. i \in 1..Len(w) - 1
    BY <1>1
  <2> QED BY <1>3, <2>1 DEF PairsOf
<1>8. PairsOf(t) \subseteq PairsOf(w)
  <2> SUFFICES ASSUME NEW i \in 1..m - 1 PROVE PairAt(t, i) \in PairsOf(w)
    BY DEF PairsOf
  <2>1. i + n \in 1..Len(w) - 1
    BY <1>1
  <2> QED BY <1>4, <2>1 DEF PairsOf
<1>9. <<Last(s), Head(t)>> \in PairsOf(w)
  <2>1. n \in 1..Len(w) - 1
    BY <1>1
  <2> QED BY <1>5, <2>1 DEF PairsOf
<1> QED BY <1>6, <1>7, <1>8, <1>9 DEF w

\* A pair that does not join two words is replaced in each of them.
LEMMA ReplacedCat ==
  ASSUME NEW E, NEW tp, NEW target \in E
  PROVE  \A s, t \in Seq(E) :
           s # << >> /\ t # << >> /\ <<Last(s), Head(t)>> # tp =>
             Replaced(Cat(s, t), tp, target) = Cat(Replaced(s, tp, target), Replaced(t, tp, target))
<1> DEFINE R(w) == Replaced(w, tp, target)
<1> SUFFICES ASSUME NEW r \in Seq(E), r # << >>
             PROVE  \A s \in Seq(E) : s # << >> /\ <<Last(s), Head(r)>> # tp =>
                      R(Cat(s, r)) = Cat(R(s), R(r))
  OBVIOUS
<1> DEFINE Good(s) == (s # << >> => <<Last(s), Head(r)>> # tp) => R(Cat(s, r)) = Cat(R(s), R(r))
           Q == {s \in Seq(E) : Good(s)}
<1>1. /\ R(<< >>) = << >>
      /\ \A p \in E : R(Onto(p, << >>)) = Onto(p, << >>)
      /\ \A u \in Seq(E) : R(u) \in Seq(E)
      /\ \A p, q \in E, u \in Seq(E) :
           R(Onto(p, Onto(q, u))) = IF <<p, q>> = tp THEN Onto(target, R(u))
                                                     ELSE Onto(p, R(Onto(q, u)))
  <2>1. R(<< >>) = << >>
    BY ReplacedNone
  <2>2. \A p \in E : R(Onto(p, << >>)) = Onto(p, << >>)
    BY ReplacedOne
  <2>3. \A u \in Seq(E) : R(u) \in Seq(E)
    BY ReplacedType
  <2>4. \A p, q \in E, u \in Seq(E) :
          R(Onto(p, Onto(q, u))) = IF <<p, q>> = tp THEN Onto(target, R(u))
                                                    ELSE Onto(p, R(Onto(q, u)))
    <3> TAKE p, q \in E, u \in Seq(E)
    <3>1. Replaced(Onto(p, Onto(q, u)), tp, target)
            = IF <<p, q>> = tp THEN Onto(target, Replaced(u, tp, target))
                               ELSE Onto(p, Replaced(Onto(q, u), tp, target))
      BY ONLY target \in E, p \in E, q \in E, u \in Seq(E), ReplacedTwo
    <3> QED BY <3>1
  <2> QED BY <2>1, <2>2, <2>3, <2>4
<1>2. /\ << >> \in Seq(E)
      /\ \A x \in E, s \in Seq(E) : Onto(x, s) \in Seq(E) /\ Onto(x, s) # << >>
      /\ \A s \in Seq(E) : Cat(<< >>, s) = s
      /\ \A s, t \in Seq(E) : Cat(s, t) \in Seq(E)
      /\ \A x \in E, s, t \in Seq(E) : Cat(Onto(x, s), t) = Onto(x, Cat(s, t))
  BY ConsAlgebra, Zenon
<1>3. /\ \A x \in E, s \in Seq(E) : Head(Onto(x, s)) = x
      /\ \A x \in E : Last(Onto(x, << >>)) = x
      /\ \A s \in Seq(E) : s # << >> => \A x \in E : Last(Onto(x, s)) = Last(s)
  BY EndsAre
<1> HIDE DEF R
<1>4. ASSUME NEW s \in Seq(E), \A t \in Seq(E) : Len(t) < Len(s) => Good(t)
      PROVE  Good(s)
  <2> SUFFICES ASSUME s # << >> => <<Last(s), Head(r)>> # tp
               PROVE  R(Cat(s, r)) = Cat(R(s), R(r))
    OBVIOUS
  <2>1. CASE s = << >>
    BY <1>1, <1>2, <2>1
  <2>2. ASSUME NEW p \in E, s = Onto(p, << >>)
        PROVE  R(Cat(s, r)) = Cat(R(s), R(r))
    <3>1. PICK q \in E, u \in Seq(E) : r = Onto(q, u)
      BY OntoCases
    <3>2. <<p, q>> # tp
      BY <1>2, <1>3, <2>2, <3>1
    <3>3. Cat(s, r) = Onto(p, Onto(q, u))
      <4>1. Cat(Onto(p, << >>), r) = Onto(p, Cat(<< >>, r)) /\ Cat(<< >>, r) = r
        BY <1>2
      <4> QED BY <2>2, <3>1, <4>1
    <3>4. R(Cat(s, r)) = Onto(p, R(r))
      BY <1>1, <3>1, <3>2, <3>3
    <3>5. Cat(R(s), R(r)) = Onto(p, R(r))
      <4>1. R(r) \in Seq(E) /\ R(s) = Onto(p, << >>)
        BY <1>1, <2>2
      <4>2. Cat(Onto(p, << >>), R(r)) = Onto(p, Cat(<< >>, R(r)))
        BY <1>2, <4>1
      <4> QED BY <1>2, <4>1, <4>2
    <3> QED BY <3>4, <3>5
  <2>3. ASSUME NEW p \in E, NEW q \in E, NEW u \in Seq(E), s = Onto(p, Onto(q, u)),
               Len(u) < Len(s), Len(Onto(q, u)) < Len(s)
        PROVE  R(Cat(s, r)) = Cat(R(s), R(r))
    <3> DEFINE v == Onto(q, u)
    <3>1. v \in Seq(E) /\ v # << >> /\ s # << >> /\ Last(s) = Last(v)
      BY <1>2, <1>3, <2>3
    <3>2. R(Cat(v, r)) = Cat(R(v), R(r))
      <4> HIDE DEF v
      <4> QED BY <1>4, <2>3, <3>1 DEF v
    <3>3. u # << >> => Last(v) = Last(u)
      BY <1>3
    <3>4. R(Cat(u, r)) = Cat(R(u), R(r))
      BY <1>4, <2>3, <3>1, <3>3
    <3>5. Cat(u, r) \in Seq(E) /\ Cat(v, r) = Onto(q, Cat(u, r)) /\ Cat(s, r) = Onto(p, Onto(q, Cat(u, r)))
      BY <1>2, <2>3, <3>1
    <3>6. R(u) \in Seq(E) /\ R(v) \in Seq(E) /\ R(r) \in Seq(E)
      BY <1>1, <3>1
    <3>7. CASE <<p, q>> = tp
      <4>1. R(Cat(s, r)) = Onto(target, R(Cat(u, r))) /\ R(s) = Onto(target, R(u))
        BY <1>1, <2>3, <3>5, <3>7
      <4>2. Cat(Onto(target, R(u)), R(r)) = Onto(target, Cat(R(u), R(r)))
        BY <1>2, <3>6
      <4> QED BY <3>4, <4>1, <4>2
    <3>8. CASE <<p, q>> # tp
      <4>1. R(Cat(s, r)) = Onto(p, R(Cat(v, r))) /\ R(s) = Onto(p, R(v))
        BY <1>1, <2>3, <3>5, <3>8
      <4>2. Cat(Onto(p, R(v)), R(r)) = Onto(p, Cat(R(v), R(r)))
        BY <1>2, <3>6
      <4> QED BY <3>2, <4>1, <4>2
    <3> QED BY <3>7, <3>8
  <2>4. \/ s = << >>
        \/ \E p \in E : s = Onto(p, << >>)
        \/ \E p, q \in E, t \in Seq(E) :
             s = Onto(p, Onto(q, t)) /\ Len(t) < Len(s) /\ Len(Onto(q, t)) < Len(s)
    BY WordCases, Zenon
  <2> QED BY <2>1, <2>2, <2>3, <2>4, Zenon
<1>5. ASSUME NEW s \in Seq(E), \A t \in Seq(E) : Len(t) < Len(s) => t \in Q
      PROVE  s \in Q
  <2> HIDE DEF Good
  <2> QED BY <1>4, <1>5
<1> HIDE DEF Q
<1>6. \A s \in Seq(E) : s \in Q
  BY <1>5, SeqInd
<1> QED BY <1>6 DEF Q

-----------------------------------------------------------------------------
(* Words that are cut where no merge of a byte model joins them. *)

\* The tokens with a content.
Spelled == {k \in Vid : model.vocab[k] # << >>}

\* The bytes the words meet at are no bigram of the vocabulary.
Separated(s, t) ==
  /\ s \in Seq(Spelled) /\ t \in Seq(Spelled) /\ s # << >> /\ t # << >>
  /\ <<Last(Mapped(TokenBytes, s)), Head(Mapped(TokenBytes, t))>> \notin Bigrams

\* The bytes of a token of a byte model are its content.
LEMMA ByteTokens ==
  ASSUME Constructed, ~model.unicode
  PROVE  /\ \A k \in Vid : TokenBytes[k] = model.vocab[k] /\ TokenBytes[k] \in Seq(Nat)
         /\ \A k \in Spelled : TokenBytes[k] # << >>
         /\ Maps(TokenBytes, Spelled, Nat) /\ Spelled \subseteq Vid
<1>1. ASSUME NEW k \in Vid PROVE TokenBytes[k] = model.vocab[k] /\ TokenBytes[k] \in Seq(Nat)
  <2>1. model.vocab[k] \in Seq(Nat \cup Scalar) /\ Elements(model.vocab[k]) \cap Scalar = {}
    BY <1>1, ModelTypes, ModelAssumption DEF Constructed, Vid
  <2>2. TokenBytes[k] = BytesOf(model.vocab[k])
    BY DEF TokenBytes
  <2>3. PICK w : w = model.vocab[k]
    OBVIOUS
  <2>4. w \in Seq(Nat \cup Scalar) /\ \A i \in DOMAIN w : w[i] \notin Scalar
    BY <2>1, <2>3 DEF Elements
  <2>5. w \in Seq(Nat)
    <3>1. w = [i \in 1..Len(w) |-> w[i]] /\ Len(w) \in Nat /\ \A i \in 1..Len(w) : w[i] \in Nat
      BY <2>4
    <3> QED BY ONLY <3>1
  <2>6. BytesOf(w) = w
    BY <2>4, <2>5, BytesAre, BytesKept
  <2> QED BY <2>2, <2>3, <2>5, <2>6
<1> QED BY <1>1 DEF Spelled, Maps

\* The bytes a merge joins are a bigram.
LEMMA MergesJoinBigrams ==
  ASSUME Constructed, ~model.unicode, Literal, NEW r \in Ranks,
         PairOf(r)[1] \in Spelled, PairOf(r)[2] \in Spelled
  PROVE  /\ <<Last(TokenBytes[PairOf(r)[1]]), Head(TokenBytes[PairOf(r)[2]])>> \in Bigrams
         /\ TargetOf(r) \in Spelled
<1> DEFINE a == TokenBytes[PairOf(r)[1]]
           b == TokenBytes[PairOf(r)[2]]
           t == model.vocab[TargetOf(r)]
<1>1. PairOf(r)[1] \in Vid /\ PairOf(r)[2] \in Vid /\ TargetOf(r) \in Vid
  BY ModelTypes
<1>2. a \in Seq(Nat) /\ b \in Seq(Nat) /\ a # << >> /\ b # << >>
  BY <1>1, ByteTokens
<1>3. t = Cat(a, b)
  <2>1. a = BytesOf(model.vocab[PairOf(r)[1]]) /\ b = BytesOf(model.vocab[PairOf(r)[2]])
        /\ t = BytesOf(t)
    BY <1>1, ByteTokens DEF TokenBytes
  <2>2. BytesOf(model.vocab[PairOf(r)[1]]) \o BytesOf(model.vocab[PairOf(r)[2]]) = BytesOf(t)
    BY DEF Literal, ContentOf
  <2> QED BY <2>1, <2>2 DEF Cat
<1> HIDE DEF a, b
<1>4. PairsOf(t) = PairsOf(a) \cup PairsOf(b) \cup {<<Last(a), Head(b)>>} /\ t # << >>
  <2>1. PairsOf(Cat(a, b)) = PairsOf(a) \cup PairsOf(b) \cup {<<Last(a), Head(b)>>}
    BY <1>2, PairsCat
  <2>2. Cat(a, b) # << >>
    BY <1>2, EndsAre
  <2> QED BY <1>3, <2>1, <2>2
<1>5. TargetOf(r) \in DOMAIN model.vocab \ Excluded
  BY <1>1 DEF Vid, Excluded
<1>6. PairsOf(t) \subseteq Bigrams
  BY <1>5 DEF Bigrams
<1> QED BY <1>1, <1>4, <1>6 DEF Spelled, a, b

\* Words that are separated are not joined by any merge, and a merge leaves
\* them separated.
LEMMA SeparatedApart ==
  ASSUME Constructed, ~model.unicode, Literal, NEW s, NEW t, Separated(s, t)
  PROVE  \A r \in Ranks : <<Last(s), Head(t)>> # PairOf(r)
<1>1. s \in Seq(Spelled) /\ t \in Seq(Spelled) /\ s # << >> /\ t # << >>
  BY DEF Separated
<1>2. Maps(TokenBytes, Spelled, Nat) /\ \A k \in Spelled : TokenBytes[k] # << >>
  BY ByteTokens
<1>3. \A w \in Seq(Spelled) : w # << >> =>
        /\ Last(Mapped(TokenBytes, w)) = Last(TokenBytes[Last(w)])
        /\ Head(Mapped(TokenBytes, w)) = Head(TokenBytes[Head(w)])
  BY <1>2, MapEnds
<1>4. <<Last(TokenBytes[Last(s)]), Head(TokenBytes[Head(t)])>> \notin Bigrams
  BY <1>1, <1>3 DEF Separated
<1>5. Last(s) \in Spelled /\ Head(t) \in Spelled
  BY <1>1, EndsAre
<1> SUFFICES ASSUME NEW r \in Ranks, <<Last(s), Head(t)>> = PairOf(r) PROVE FALSE
  OBVIOUS
<1>6. PairOf(r)[1] = Last(s) /\ PairOf(r)[2] = Head(t)
  <2>1. <<Last(s), Head(t)>>[1] = Last(s) /\ <<Last(s), Head(t)>>[2] = Head(t)
    OBVIOUS
  <2> QED BY <2>1
<1> QED BY <1>4, <1>5, <1>6, MergesJoinBigrams

\* A merge keeps a word over spelled tokens, and its bytes.
LEMMA MergeKeepsSpelled ==
  ASSUME Constructed, ~model.unicode, Literal, NEW w \in Seq(Spelled), NEW r \in Ranks
  PROVE  LET v == Replaced(w, PairOf(r), TargetOf(r))
         IN /\ v \in Seq(Spelled) /\ Mapped(TokenBytes, v) = Mapped(TokenBytes, w)
            /\ w # << >> => v # << >>
            /\ PairOf(r) \notin PairsOf(w) => v = w
<1> DEFINE v == Replaced(w, PairOf(r), TargetOf(r))
<1>1. w \in Seq(Vid) /\ TargetOf(r) \in Vid
  BY ModelTypes DEF Spelled
<1>2. Mapped(TokenBytes, v) = Mapped(TokenBytes, w)
  BY <1>1, MergeDecodes
<1>3. PairOf(r) \notin PairsOf(w) => v = w
  BY <1>1, NothingToReplace
<1>4. PairOf(r) \in PairsOf(w) => v \in Seq(Spelled)
  <2> SUFFICES ASSUME PairOf(r) \in PairsOf(w) PROVE v \in Seq(Spelled)
    OBVIOUS
  <2>1. PICK i \in 1..Len(w) - 1 : PairOf(r) = <<w[i], w[i + 1]>>
    BY DEF PairsOf, PairAt
  <2>2. w[i] \in Spelled /\ w[i + 1] \in Spelled
    <3>1. i \in 1..Len(w) /\ i + 1 \in 1..Len(w)
      BY <1>1
    <3> QED BY <3>1
  <2>3. PairOf(r)[1] \in Spelled /\ PairOf(r)[2] \in Spelled
    BY <2>1, <2>2
  <2>4. TargetOf(r) \in Spelled
    BY <2>3, MergesJoinBigrams
  <2> QED BY <2>4, ReplacedType
<1>5. v \in Seq(Spelled)
  BY <1>3, <1>4
<1>6. w # << >> => v # << >>
  <2>1. Maps(TokenBytes, Spelled, Nat) /\ \A k \in Spelled : TokenBytes[k] # << >>
    BY ByteTokens
  <2>2. w # << >> => Mapped(TokenBytes, w) # << >>
    BY <2>1, MapEnds
  <2>3. Mapped(TokenBytes, << >>) = << >>
    BY <2>1, MapCat
  <2> QED BY <1>2, <2>2, <2>3
<1> QED BY <1>2, <1>3, <1>5, <1>6

\* The merges that apply to separated words are those that apply to one of them.
LEMMA ApplicableCat ==
  ASSUME Constructed, ~model.unicode, Literal, NEW s, NEW t, Separated(s, t)
  PROVE  Applicable(Cat(s, t)) = Applicable(s) \cup Applicable(t)
<1>1. \A r \in Ranks : <<Last(s), Head(t)>> # PairOf(r)
  BY SeparatedApart
<1>2. PairsOf(Cat(s, t)) = PairsOf(s) \cup PairsOf(t) \cup {<<Last(s), Head(t)>>}
  BY PairsCat DEF Separated
<1>3. \A w, r : r \in Applicable(w) <=>
        r \in Ranks /\ PairOf(r) \in PairsOf(w) /\ RankOf(PairOf(r)) = r
  BY AppliesIs
<1> QED BY <1>1, <1>2, <1>3

\* The lowest rank that applies to a word, or one that does not apply: the word
\* has the same encoding when it is merged.
LEMMA LowerMerge ==
  ASSUME Constructed, NEW w \in Seq(Vid), NEW r \in Ranks, RankOf(PairOf(r)) = r,
         \A q \in Applicable(w) : r <= q
  PROVE  Encoding(Replaced(w, PairOf(r), TargetOf(r))) = Encoding(w)
<1>1. CASE r \in Applicable(w)
  BY <1>1, MergeStepIs, EncodingIs
<1>2. CASE r \notin Applicable(w)
  <2>1. PairOf(r) \notin PairsOf(w) /\ TargetOf(r) \in Vid
    BY <1>2, AppliesIs, ModelTypes
  <2>2. Replaced(w, PairOf(r), TargetOf(r)) = w
    BY <2>1, NothingToReplace
  <2> QED BY <2>2
<1> QED BY <1>1, <1>2

\* Separated words are encoded as if each stood alone.
LEMMA EncodingCat ==
  ASSUME Constructed, ~model.unicode, Literal
  PROVE  \A s, t : Separated(s, t) => Encoding(Cat(s, t)) = Cat(Encoding(s), Encoding(t))
<1> DEFINE Good(w) == \A s, t : w = Cat(s, t) /\ Separated(s, t)
                                  => Encoding(w) = Cat(Encoding(s), Encoding(t))
           Q == {w \in Seq(Vid) : Good(w)}
<1>1. ASSUME NEW w \in Seq(Vid), \A v \in Seq(Vid) : Len(v) < Len(w) => v \in Q
      PROVE  w \in Q
  <2> SUFFICES ASSUME NEW s, NEW t, w = Cat(s, t), Separated(s, t)
               PROVE  Encoding(w) = Cat(Encoding(s), Encoding(t))
    OBVIOUS
  <2>1. s \in Seq(Spelled) /\ t \in Seq(Spelled) /\ s \in Seq(Vid) /\ t \in Seq(Vid)
        /\ s # << >> /\ t # << >>
    BY DEF Separated, Spelled
  <2>2. Applicable(w) = Applicable(s) \cup Applicable(t)
    BY ApplicableCat
  <2>3. CASE Applicable(w) = {}
    <3>1. Encoding(w) = w /\ Encoding(s) = s /\ Encoding(t) = t
      BY <2>1, <2>2, <2>3, EncodingIs
    <3> QED BY <3>1
  <2>4. CASE Applicable(w) # {}
    <3> DEFINE r == Min(Applicable(w))
               R(v) == Replaced(v, PairOf(r), TargetOf(r))
    <3>1. r \in Applicable(w) /\ \A q \in Applicable(w) : r <= q
      <4>1. Applicable(w) \in SUBSET (1..Len(model.merges)) /\ Len(model.merges) \in Nat
        BY AppliesIs, ModelTypes
      <4> QED BY <2>4, <4>1, EndsOf
    <3> HIDE DEF r
    <3>2. r \in Ranks /\ RankOf(PairOf(r)) = r /\ TargetOf(r) \in Vid
      BY <3>1, AppliesIs, ModelTypes
    <3>3. R(w) = Cat(R(s), R(t))
      <4>1. <<Last(s), Head(t)>> # PairOf(r)
        BY <3>2, SeparatedApart
      <4> QED BY <2>1, <3>2, <4>1, ReplacedCat
    <3>4. Separated(R(s), R(t))
      <4>1. \A v \in Seq(Spelled) :
              /\ R(v) \in Seq(Spelled) /\ Mapped(TokenBytes, R(v)) = Mapped(TokenBytes, v)
              /\ v # << >> => R(v) # << >>
        BY <3>2, MergeKeepsSpelled
      <4> HIDE DEF R
      <4> QED BY <2>1, <4>1 DEF Separated
    <3>5. Encoding(R(s)) = Encoding(s) /\ Encoding(R(t)) = Encoding(t)
      <4>1. (\A q \in Applicable(s) : r <= q) /\ (\A q \in Applicable(t) : r <= q)
        BY <2>2, <3>1
      <4> QED BY <2>1, <3>2, <4>1, LowerMerge
    <3>6. MergeStep(w) = R(w) /\ MergeStep(w) \in Seq(Vid) /\ Len(MergeStep(w)) < Len(w)
          /\ Encoding(MergeStep(w)) = Encoding(w)
      BY <2>4, <3>1, MergeStepIs, EncodingIs
    <3> HIDE DEF R
    <3>7. R(w) \in Q
      <4> HIDE DEF Q
      <4> QED BY <1>1, <3>6
    <3> QED BY <3>3, <3>4, <3>5, <3>6, <3>7
  <2> QED BY <2>3, <2>4
<1> HIDE DEF Q
<1>2. \A w \in Seq(Vid) : w \in Q
  BY <1>1, SeqInd
<1>3. \A s, t : Separated(s, t) => Cat(s, t) \in Seq(Vid)
  <2> TAKE s, t
  <2> HAVE Separated(s, t)
  <2>1. s \in Seq(Vid) /\ t \in Seq(Vid)
    BY DEF Separated, Spelled
  <2> QED BY <2>1, ConcatProperties DEF Cat
<1> QED BY <1>2, <1>3 DEF Q

\* The scalars that have tokens, or whose bytes have.
Covered == {s \in Scalar : Elements(ScalarUnits[s]) \subseteq DOMAIN built.vocab_bytes}

\* A text is in the vocabulary when its scalars are.
LEMMA CoveredTexts == \A t \in Seq(Scalar) : InVocab(t) <=> t \in Seq(Covered)
<1> DEFINE E == Nat \cup Scalar
           D == E \cap DOMAIN built.vocab_bytes
           W == Seq(E)
           X == Seq(D)
<1>1. Maps(ScalarUnits, Scalar, E) /\ \A s \in Scalar : ScalarUnits[s] \in W
  BY UnitsAre DEF Maps
<1>2. \A t \in Seq(Scalar) : UnitsOf(t) = Mapped(ScalarUnits, t) /\ UnitsOf(t) \in W
  BY UnitsAre
<1>3. \A w \in W : w \in X <=> Elements(w) \subseteq DOMAIN built.vocab_bytes
  <2> TAKE w \in W
  <2>1. w = [i \in 1..Len(w) |-> w[i]] /\ Len(w) \in Nat /\ DOMAIN w = 1..Len(w)
        /\ \A i \in 1..Len(w) : w[i] \in E
    OBVIOUS
  <2>2. ASSUME Elements(w) \subseteq DOMAIN built.vocab_bytes PROVE w \in X
    <3>1. \A i \in 1..Len(w) : w[i] \in D
      BY <2>1, <2>2 DEF Elements
    <3> HIDE DEF D
    <3> QED BY <2>1, <3>1
  <2>3. ASSUME w \in X PROVE Elements(w) \subseteq DOMAIN built.vocab_bytes
    <3>1. \A i \in DOMAIN w : w[i] \in D
      BY <2>3
    <3> QED BY <3>1 DEF Elements
  <2> QED BY <2>2, <2>3
<1>4. \A ss \in Seq(W) : FlattenSeq(ss) \in X => ss \in Seq(X)
  <2>1. D \in SUBSET E
    OBVIOUS
  <2> HIDE DEF D, E
  <2> QED BY <2>1, FlattenOver
<1>5. Maps(ScalarUnits, Covered, D) /\ \A s \in Scalar : ScalarUnits[s] \in X => s \in Covered
  <2>1. \A s \in Covered : ScalarUnits[s] \in W /\ ScalarUnits[s] \in X
    BY <1>1, <1>3 DEF Covered
  <2> QED BY <1>1, <1>3, <2>1 DEF Maps, Covered
<1> HIDE DEF E, D, W, X
<1> TAKE t \in Seq(Scalar)
<1>6. InVocab(t) <=> Mapped(ScalarUnits, t) \in X
  BY <1>2, <1>3 DEF InVocab
<1>7. ASSUME Mapped(ScalarUnits, t) \in X PROVE t \in Seq(Covered)
  <2>1. Into(ScalarUnits, Scalar, W)
    BY <1>1 DEF Into
  <2>2. /\ Image(ScalarUnits, t) \in Seq(W) /\ Len(Image(ScalarUnits, t)) = Len(t)
        /\ \A i \in 1..Len(t) : Image(ScalarUnits, t)[i] = ScalarUnits[t[i]]
    BY <2>1, ImageCat
  <2>3. Image(ScalarUnits, t) \in Seq(X)
    <3>1. FlattenSeq(Image(ScalarUnits, t)) \in X
      BY <1>7 DEF Mapped, Image
    <3> QED BY <1>4, <2>2, <3>1
  <2>4. \A i \in 1..Len(t) : ScalarUnits[t[i]] \in X
    BY <2>2, <2>3
  <2>5. \A i \in 1..Len(t) : t[i] \in Covered
    BY <1>5, <2>4
  <2> QED BY <2>5
<1>8. t \in Seq(Covered) => Mapped(ScalarUnits, t) \in X
  BY <1>5, MapCat DEF X
<1> QED BY <1>6, <1>7, <1>8

\* The first tokens of a text are those of its scalars, and have a content.
LEMMA PretokenCat ==
  ASSUME Constructed
  PROVE  /\ \A u \in Seq(Covered) : /\ Pretoken(u) \in Seq(Spelled) /\ InVocab(u)
                                    /\ u # << >> => Pretoken(u) # << >>
         /\ \A u, v \in Seq(Covered) : Pretoken(Cat(u, v)) = Cat(Pretoken(u), Pretoken(v))
<1> DEFINE D == DOMAIN VocabBytes
<1>1. Into(VocabBytes, D, Spelled)
  <2>1. \A x \in D : VocabBytes[x] \in Vid /\ model.vocab[VocabBytes[x]] = <<x>>
    BY UnitTokenIs
  <2>2. \A x \in D : Len(<<x>>) # Len(<< >>)
    OBVIOUS
  <2> QED BY <2>1, <2>2 DEF Into, Spelled
<1>2. Maps(ScalarUnits, Covered, D) /\ \A s \in Covered : ScalarUnits[s] # << >>
  <2> SUFFICES ASSUME NEW s \in Covered PROVE ScalarUnits[s] \in Seq(D) /\ ScalarUnits[s] # << >>
    BY DEF Maps
  <2>1. s \in Scalar /\ ScalarUnits[s] \in Seq(Nat \cup Scalar)
        /\ \A i \in DOMAIN ScalarUnits[s] : ScalarUnits[s][i] \in D
    BY UnitsAre DEF Covered, Elements, Constructed, Built, Maps
  <2>2. ScalarUnits[s] \in Seq(D)
    <3> PICK w : w = ScalarUnits[s]
      OBVIOUS
    <3>1. w = [i \in 1..Len(w) |-> w[i]] /\ Len(w) \in Nat /\ \A i \in 1..Len(w) : w[i] \in D
      BY <2>1
    <3> HIDE DEF D
    <3>2. w \in Seq(D)
      BY ONLY <3>1
    <3> QED BY <3>2
  <2>3. ScalarUnits[s] # << >>
    <3>1. Utf8[s] # << >> /\ <<s>> # << >>
      BY <2>1, Utf8Assumption
    <3> QED BY <2>1, <3>1 DEF ScalarUnits
  <2> QED BY <2>2, <2>3
<1>3. \A u \in Seq(Covered) : /\ u \in Seq(Scalar) /\ InVocab(u)
                              /\ UnitsOf(u) = Mapped(ScalarUnits, u)
                              /\ Pretoken(u) = Image(VocabBytes, UnitsOf(u))
  <2> TAKE u \in Seq(Covered)
  <2>1. u \in Seq(Scalar)
    BY DEF Covered
  <2>2. InVocab(u)
    BY <2>1, CoveredTexts
  <2> QED BY <2>1, <2>2, UnitsAre, PretokenIs DEF Image
<1> HIDE DEF D
<1>4. /\ \A u \in Seq(Covered) : UnitsOf(u) \in Seq(D)
      /\ \A u, v \in Seq(Covered) : UnitsOf(Cat(u, v)) = Cat(UnitsOf(u), UnitsOf(v))
  <2>1. \A u, v \in Seq(Covered) : Cat(u, v) \in Seq(Covered)
    BY ConcatProperties DEF Cat
  <2>2. /\ \A u \in Seq(Covered) : Mapped(ScalarUnits, u) \in Seq(D)
        /\ \A u, v \in Seq(Covered) :
             Mapped(ScalarUnits, Cat(u, v)) = Cat(Mapped(ScalarUnits, u), Mapped(ScalarUnits, v))
    <3>1. Maps(ScalarUnits, Covered, D)
      BY <1>2
    <3> QED BY ONLY <3>1, MapCat
  <2>3. \A u \in Seq(Covered) : UnitsOf(u) = Mapped(ScalarUnits, u)
    BY <1>3
  <2> QED BY ONLY <2>1, <2>2, <2>3
<1>5. \A u \in Seq(Covered) : u # << >> => UnitsOf(u) # << >>
  BY <1>2, <1>3, MapEnds
<1>6. \A u \in Seq(Covered) :
        Pretoken(u) \in Seq(Spelled) /\ Len(Pretoken(u)) = Len(UnitsOf(u))
  BY <1>1, <1>3, <1>4, ImageCat
<1>7. \A u \in Seq(Covered) : u # << >> => Pretoken(u) # << >>
  BY <1>4, <1>5, <1>6
<1>8. \A u, v \in Seq(Covered) : Pretoken(Cat(u, v)) = Cat(Pretoken(u), Pretoken(v))
  <2>1. \A u, v \in Seq(Covered) : Cat(u, v) \in Seq(Covered)
    BY ConcatProperties DEF Cat
  <2> QED BY <1>1, <1>3, <1>4, <2>1, ImageCat
<1> QED BY <1>3, <1>6, <1>7, <1>8

\* A text may be cut where the bytes that meet are no bigram.
LEMMA GreedyCat ==
  ASSUME Constructed, ~model.unicode, Literal
  PROVE  \A u, v \in Seq(Covered) :
           /\ u # << >> /\ v # << >>
           /\ <<Last(Utf8[Last(u)]), Head(Utf8[Head(v)])>> \notin Bigrams
           => Greedy(Cat(u, v)) = Cat(Greedy(u), Greedy(v))
<1> TAKE u, v \in Seq(Covered)
<1> HAVE /\ u # << >> /\ v # << >>
         /\ <<Last(Utf8[Last(u)]), Head(Utf8[Head(v)])>> \notin Bigrams
<1>1. Maps(UnitBytes, Scalar, Nat) /\ \A s \in Scalar : UnitBytes[s] = Utf8[s] /\ UnitBytes[s] # << >>
  BY BytesAre, Utf8Assumption DEF Maps, UnitBytes
<1>2. \A t \in Seq(Covered) :
        t # << >> =>
          /\ Last(Mapped(TokenBytes, Pretoken(t))) = Last(Utf8[Last(t)])
          /\ Head(Mapped(TokenBytes, Pretoken(t))) = Head(Utf8[Head(t)])
  <2> TAKE t \in Seq(Covered)
  <2> HAVE t # << >>
  <2>1. t \in Seq(Scalar) /\ t \in Seq(Nat \cup Scalar) /\ InVocab(t)
    BY PretokenCat DEF Covered
  <2>2. Mapped(TokenBytes, Pretoken(t)) = Mapped(UnitBytes, t)
    BY <2>1, GreedyDecodes, BytesAre
  <2>3. Last(t) \in Scalar /\ Head(t) \in Scalar
    BY <2>1, EndsAre
  <2>4. /\ Last(Mapped(UnitBytes, t)) = Last(UnitBytes[Last(t)])
        /\ Head(Mapped(UnitBytes, t)) = Head(UnitBytes[Head(t)])
    BY <1>1, <2>1, MapEnds
  <2> QED BY <1>1, <2>2, <2>3, <2>4
<1>3. Separated(Pretoken(u), Pretoken(v))
  BY <1>2, PretokenCat DEF Separated
<1>4. Encoding(Cat(Pretoken(u), Pretoken(v))) = Cat(Encoding(Pretoken(u)), Encoding(Pretoken(v)))
  BY <1>3, EncodingCat
<1> QED BY <1>4, PretokenCat DEF Greedy

\* A sequence with one more unit.
Then(s, x) == Append(s, x)

\* Sequences in a row, as the proofs below use them.
LEMMA CatFacts ==
  ASSUME NEW U
  PROVE  /\ << >> \in Seq(U)
         /\ \A s, t \in Seq(U) : Cat(s, t) \in Seq(U)
         /\ \A s, t, w \in Seq(U) : Cat(Cat(s, t), w) = Cat(s, Cat(t, w))
         /\ \A s \in Seq(U) : Cat(<< >>, s) = s /\ Cat(s, << >>) = s
         /\ \A x \in U, s \in Seq(U) :
              /\ Then(s, x) \in Seq(U) /\ Then(s, x) = Cat(s, Then(<< >>, x))
              /\ Then(s, x) # << >> /\ Front(Then(s, x)) = s /\ Last(Then(s, x)) = x
         /\ \A s \in Seq(U) : s # << >> =>
              Front(s) \in Seq(U) /\ Last(s) \in U /\ s = Then(Front(s), Last(s))
<1>1. \A x \in U, s \in Seq(U) : Front(Append(s, x)) = s /\ Last(Append(s, x)) = x
  <2> TAKE x \in U, s \in Seq(U)
  <2> DEFINE w == Append(s, x)
  <2>1. w \in Seq(U) /\ Len(w) = Len(s) + 1 /\ w[Len(w)] = x /\ Len(s) \in Nat
        /\ \A i \in 1..Len(s) : w[i] = s[i]
    BY AppendProperties
  <2> HIDE DEF w
  <2>2. Len(w) - 1 = Len(s)
    BY <2>1
  <2>3. Front(w) = [i \in 1..Len(s) |-> w[i]]
    BY <2>1, <2>2, SubSeqProperties DEF Front
  <2>4. Front(w) = s
    BY <2>1, <2>3
  <2> QED BY <2>1, <2>4 DEF w, Last
<1>2. \A x \in U, s \in Seq(U) : Append(s, x) \in Seq(U) /\ Append(s, x) # << >>
  BY AppendProperties
<1>3. \A x \in U, s \in Seq(U) : Append(s, x) = Cat(s, Append(<< >>, x))
  <2> TAKE x \in U, s \in Seq(U)
  <2>1. Append(<< >>, x) = <<x>>
    OBVIOUS
  <2> QED BY <2>1, AppendIsConcat DEF Cat
<1>4. /\ << >> \in Seq(U)
      /\ \A s, t \in Seq(U) : Cat(s, t) \in Seq(U)
      /\ \A s, t, w \in Seq(U) : Cat(Cat(s, t), w) = Cat(s, Cat(t, w))
      /\ \A s \in Seq(U) : Cat(<< >>, s) = s /\ Cat(s, << >>) = s
  BY ConcatProperties, ConcatAssociative, ConcatEmptySeq DEF Cat
<1>5. \A s \in Seq(U) : s # << >> =>
              Front(s) \in Seq(U) /\ Last(s) \in U /\ s = Append(Front(s), Last(s))
  BY FrontIs
<1> QED BY <1>1, <1>2, <1>3, <1>4, <1>5, Zenon DEF Then

\* The map g has the same value where a text over V is cut before the i in C as
\* on the whole text.
Cuttable(g, text, V, C) ==
  \A i \in C : \A u, v \in Seq(V) :
    u # << >> /\ v # << >> /\ Last(u) = text[i - 1] /\ Head(v) = text[i]
      => g[Cat(u, v)] = Cat(g[u], g[v])

\* The parts of a text that is cut before the i in C, one scalar after another.
CutInto(e, text, C) ==
  /\ e[0] = << >>
  /\ \A i \in 1..Len(text) :
       e[i] = IF i = 1 \/ i \in C THEN Then(e[i - 1], Then(<< >>, text[i]))
              ELSE Then(Front(e[i - 1]), Then(Last(e[i - 1]), text[i]))

\* Cutting a text where the map may be cut does not change what it maps to.
LEMMA CutsKeep ==
  ASSUME NEW V, NEW U, NEW g, Maps(g, Seq(V), U), NEW text \in Seq(V), text # << >>,
         NEW C, Cuttable(g, text, V, C), NEW e, CutInto(e, text, C)
  PROVE  e[Len(text)] \in Seq(Seq(V)) /\ Mapped(g, e[Len(text)]) = g[text]
<1> DEFINE W == Seq(V)
           n == Len(text)
           P(i) == SubSeq(text, 1, i)
           One(x) == Then(<< >>, x)
<1>1. n \in Nat \ {0} /\ \A i \in 1..n : text[i] \in V
  OBVIOUS
<1>2. /\ << >> \in W
      /\ \A s, t \in W : Cat(s, t) \in W
      /\ \A s, t, w \in W : Cat(Cat(s, t), w) = Cat(s, Cat(t, w))
      /\ \A s \in W : Cat(<< >>, s) = s /\ Cat(s, << >>) = s
      /\ \A x \in V, s \in W :
           /\ Then(s, x) \in W /\ Then(s, x) = Cat(s, Then(<< >>, x))
           /\ Then(s, x) # << >> /\ Front(Then(s, x)) = s /\ Last(Then(s, x)) = x
  BY CatFacts, Zenon
<1>3. \A i \in 1..n - 1 : P(i) \in W /\ P(i + 1) = Cat(P(i), One(text[i + 1]))
  <2> TAKE i \in 1..n - 1
  <2>1. i \in Nat /\ i + 1 \in 1..n /\ i + 1 - 1 = i /\ n \in Nat /\ i <= n
    BY <1>1
  <2>2. SubSeq(text, 1, i + 1) = SubSeq(text, 1, i + 1 - 1) \o <<text[i + 1]>>
    BY <2>1, SubSeqRecursiveSecond
  <2>3. P(i) \in W
    BY <2>1, SubSeqProperties
  <2>4. One(text[i + 1]) = <<text[i + 1]>>
    BY DEF Then
  <2> QED BY <2>1, <2>2, <2>3, <2>4 DEF Cat
<1>4. P(1) = One(text[1]) /\ P(n) = text /\ text \in W
  <2>1. SubSeq(text, 1, 1) = SubSeq(text, 1, 1 - 1) \o <<text[1]>> /\ SubSeq(text, 1, 0) = << >>
    BY <1>1, SubSeqRecursiveSecond, SubSeqEmpty
  <2>2. SubSeq(text, 1, 1) = <<text[1]>>
    <3>1. << >> \o <<text[1]>> = <<text[1]>> /\ 1 - 1 = 0
      OBVIOUS
    <3> QED BY <2>1, <3>1
  <2>3. One(text[1]) = <<text[1]>>
    BY DEF Then
  <2> QED BY <2>2, <2>3, SubSeqFull
<1>5. \A x \in V, s \in W : Head(Cat(One(x), s)) = x /\ Cat(One(x), s) # << >>
  <2> TAKE x \in V, s \in W
  <2>1. One(x) \in W /\ One(x) # << >> /\ Head(One(x)) = x
    BY DEF Then
  <2>2. \A t \in W : t # << >> => Cat(t, s) # << >> /\ Head(Cat(t, s)) = Head(t)
    BY EndsAre
  <2> HIDE DEF W, One
  <2> QED BY <2>1, <2>2
<1> HIDE DEF P, n
<1>6. e[0] = << >> /\ \A i \in 1..n :
        e[i] = IF i = 1 \/ i \in C THEN Then(e[i - 1], One(text[i]))
               ELSE Then(Front(e[i - 1]), Then(Last(e[i - 1]), text[i]))
  BY Zenon DEF CutInto, n
<1>7. \A i \in C : \A u, v \in W :
        u # << >> /\ v # << >> /\ Last(u) = text[i - 1] /\ Head(v) = text[i]
          => g[Cat(u, v)] = Cat(g[u], g[v])
  BY DEF Cuttable
<1>8. /\ << >> \in Seq(W)
      /\ \A x \in W, s \in Seq(W) :
           /\ Then(s, x) \in Seq(W) /\ Then(s, x) = Cat(s, One(x))
           /\ Then(s, x) # << >> /\ Front(Then(s, x)) = s /\ Last(Then(s, x)) = x
      /\ \A s \in Seq(W) : s # << >> =>
           Front(s) \in Seq(W) /\ Last(s) \in W /\ s = Then(Front(s), Last(s))
  <2> HIDE DEF W
  <2> QED BY CatFacts, Zenon
<1> HIDE DEF W
<1>9. /\ \A s \in Seq(W) : Mapped(g, s) \in Seq(U) /\ Mapped(g, << >>) = << >>
      /\ \A s \in Seq(W), x \in W : Mapped(g, Then(s, x)) = Cat(Mapped(g, s), g[x])
      /\ \A x \in W : g[x] \in Seq(U)
  <2>1. Maps(g, W, U)
    BY DEF W
  <2>2. /\ Mapped(g, << >>) = << >> /\ \A s \in Seq(W) : Mapped(g, s) \in Seq(U)
        /\ \A s, t \in Seq(W) : Mapped(g, Cat(s, t)) = Cat(Mapped(g, s), Mapped(g, t))
        /\ \A x \in W : Mapped(g, <<x>>) = g[x]
    BY ONLY <2>1, MapCat
  <2>3. \A x \in W : g[x] \in Seq(U)
    BY <2>1 DEF Maps
  <2>4. \A x \in W : One(x) = <<x>> /\ One(x) \in Seq(W)
    BY DEF Then
  <2>5. \A s \in Seq(W), x \in W : Mapped(g, Then(s, x)) = Cat(Mapped(g, s), g[x])
    <3> TAKE s \in Seq(W), x \in W
    <3>1. Then(s, x) = Cat(s, One(x)) /\ One(x) \in Seq(W) /\ Mapped(g, One(x)) = g[x]
      BY <1>8, <2>2, <2>4
    <3> HIDE DEF One
    <3> QED BY <2>2, <3>1
  <2> QED BY <2>2, <2>3, <2>5
<1>10. /\ \A x, y, z \in Seq(U) : Cat(Cat(x, y), z) = Cat(x, Cat(y, z))
       /\ \A x \in Seq(U) : Cat(<< >>, x) = x
  BY CatFacts
<1>0. \A x \in V : One(x) \in W /\ One(x) # << >> /\ Last(One(x)) = x
  BY <1>2
<1> HIDE DEF One
<1> DEFINE Good(i) ==
             /\ e[i] \in Seq(W) /\ e[i] # << >> /\ Last(e[i]) # << >>
             /\ Last(Last(e[i])) = text[i]
             /\ \A t \in W : Cat(Mapped(g, Front(e[i])), g[Cat(Last(e[i]), t)]) = g[Cat(P(i), t)]
           S == {k \in Nat : k + 1 <= n => Good(k + 1)}
<1>11. 0 \in S
  <2>1. 1 \in 1..n /\ 1 - 1 = 0 /\ text[1] \in V
    BY <1>1
  <2>2. e[1] = Then(<< >>, One(text[1]))
    BY <1>6, <2>1
  <2> DEFINE x == One(text[1])
  <2>3. x \in W /\ x # << >> /\ Last(x) = text[1] /\ x = P(1)
    BY <1>0, <1>4, <2>1
  <2> HIDE DEF x
  <2>4. e[1] = Then(<< >>, x)
    BY <2>2 DEF x
  <2>5. e[1] \in Seq(W) /\ e[1] # << >> /\ Front(e[1]) = << >> /\ Last(e[1]) = x
    <3> DEFINE o == << >>
    <3>1. o \in Seq(W) /\ e[1] = Then(o, x)
      BY <1>8, <2>4
    <3> HIDE DEF o
    <3>2. e[1] \in Seq(W) /\ e[1] # << >> /\ Front(e[1]) = o /\ Last(e[1]) = x
      BY <1>8, <2>3, <3>1
    <3> QED BY <3>2 DEF o
  <2>6. \A t \in W : Cat(Mapped(g, Front(e[1])), g[Cat(Last(e[1]), t)]) = g[Cat(P(1), t)]
    <3> TAKE t \in W
    <3>1. Cat(x, t) \in W
      BY <1>2, <2>3
    <3>2. Mapped(g, Front(e[1])) = << >> /\ g[Cat(x, t)] \in Seq(U)
      BY <1>8, <1>9, <2>5, <3>1
    <3>3. Cat(<< >>, g[Cat(x, t)]) = g[Cat(x, t)]
      BY <1>10, <3>2
    <3> QED BY <2>3, <2>5, <3>2, <3>3
  <2> QED BY <2>3, <2>5, <2>6
<1>12. ASSUME NEW k \in S PROVE k + 1 \in S
  <2> SUFFICES ASSUME k + 1 + 1 <= n PROVE Good(k + 1 + 1)
    OBVIOUS
  <2> DEFINE i == k + 1
             u == text[i + 1]
             s == e[i]
             Add(t) == Cat(One(u), t)
  <2>1. i \in 1..n - 1 /\ i + 1 \in 1..n /\ i + 1 # 1 /\ i + 1 - 1 = i /\ Good(i) /\ u \in V
    BY <1>1
  <2> HIDE DEF i
  <2>2. /\ s \in Seq(W) /\ s # << >> /\ Last(s) # << >> /\ Last(Last(s)) = text[i]
        /\ \A t \in W : Cat(Mapped(g, Front(s)), g[Cat(Last(s), t)]) = g[Cat(P(i), t)]
    BY <2>1
  <2>3. e[i + 1] = IF i + 1 \in C THEN Then(s, One(u))
                   ELSE Then(Front(s), Then(Last(s), u))
    BY <1>6, <2>1
  <2>4. /\ One(u) \in W /\ One(u) # << >> /\ Last(One(u)) = u
        /\ \A t \in W : Add(t) \in W /\ Add(t) # << >> /\ Head(Add(t)) = u
        /\ \A t \in W : Cat(P(i + 1), t) = Cat(P(i), Add(t))
    <3>1. One(u) \in W /\ P(i) \in W /\ P(i + 1) = Cat(P(i), One(u))
      BY <1>0, <1>3, <2>1
    <3>2. One(u) # << >> /\ Last(One(u)) = u
      BY <1>0, <2>1
    <3>3. \A t \in W : Cat(P(i + 1), t) = Cat(P(i), Add(t))
      BY <1>2, <3>1
    <3>4. \A t \in W : Add(t) \in W /\ Add(t) # << >> /\ Head(Add(t)) = u
      BY <1>2, <1>5, <2>1, <3>1
    <3> QED BY <3>1, <3>2, <3>3, <3>4
  <2>5. Front(s) \in Seq(W) /\ Last(s) \in W /\ s = Then(Front(s), Last(s))
    BY <1>8, <2>2
  <2>6. CASE i + 1 \in C
    <3>1. e[i + 1] \in Seq(W) /\ e[i + 1] # << >> /\ Front(e[i + 1]) = s /\ Last(e[i + 1]) = One(u)
      <4> HIDE DEF u
      <4> QED BY <1>8, <2>2, <2>3, <2>4, <2>6
    <3>2. ASSUME NEW t \in W
          PROVE  Cat(Mapped(g, s), g[Add(t)]) = g[Cat(P(i + 1), t)]
      <4>1. Add(t) \in W /\ Add(t) # << >> /\ Head(Add(t)) = u
        BY <2>4
      <4>2. g[Cat(Last(s), Add(t))] = Cat(g[Last(s)], g[Add(t)])
        <5> DEFINE v == Add(t)
        <5>1. v \in W /\ v # << >> /\ Head(v) = text[i + 1]
          BY <4>1
        <5> HIDE DEF v
        <5>2. g[Cat(Last(s), v)] = Cat(g[Last(s)], g[v])
          <6>1. \A x, y \in W :
                  x # << >> /\ y # << >> /\ Last(x) = text[(i + 1) - 1] /\ Head(y) = text[i + 1]
                    => g[Cat(x, y)] = Cat(g[x], g[y])
            BY <1>7, <2>6
          <6>2. Last(s) \in W /\ Last(s) # << >> /\ Last(Last(s)) = text[(i + 1) - 1]
            BY <2>1, <2>2, <2>5
          <6> QED BY <5>1, <6>1, <6>2
        <5> QED BY <5>2 DEF v
      <4> HIDE DEF Add, u
      <4>3. Mapped(g, s) = Cat(Mapped(g, Front(s)), g[Last(s)])
        BY <1>9, <2>5
      <4>4. Cat(Mapped(g, s), g[Add(t)]) = Cat(Mapped(g, Front(s)), Cat(g[Last(s)], g[Add(t)]))
        BY <1>9, <1>10, <2>5, <4>1, <4>3
      <4>5. Cat(Mapped(g, Front(s)), g[Cat(Last(s), Add(t))]) = g[Cat(P(i), Add(t))]
        BY <2>2, <4>1
      <4>6. Cat(P(i + 1), t) = Cat(P(i), Add(t))
        BY <2>4 DEF Add
      <4> QED BY <4>2, <4>4, <4>5, <4>6
    <3> HIDE DEF s, Add
    <3>3. \A t \in W : Cat(Mapped(g, Front(e[i + 1])), g[Cat(Last(e[i + 1]), t)])
                         = g[Cat(P(i + 1), t)]
      BY <3>1, <3>2 DEF Add
    <3> QED BY <2>4, <3>1, <3>3 DEF i
  <2>7. CASE i + 1 \notin C
    <3> DEFINE l == Then(Last(s), u)
    <3>1. l = Cat(Last(s), One(u)) /\ l \in W /\ l # << >> /\ Last(l) = u
      <4>1. Last(s) \in W /\ u \in V
        BY <2>1, <2>5
      <4> HIDE DEF s, u
      <4> QED BY <1>2, <4>1 DEF One
    <3>2. e[i + 1] = Then(Front(s), l)
      BY <2>3, <2>7
    <3> HIDE DEF l
    <3>3. e[i + 1] \in Seq(W) /\ e[i + 1] # << >> /\ Front(e[i + 1]) = Front(s) /\ Last(e[i + 1]) = l
      <4> DEFINE fs == Front(s)
                 w == e[i + 1]
      <4>1. fs \in Seq(W) /\ l \in W /\ w = Then(fs, l)
        BY <2>5, <3>1, <3>2
      <4> HIDE DEF fs, w
      <4>2. w \in Seq(W) /\ w # << >> /\ Front(w) = fs /\ Last(w) = l
        BY <1>8, <4>1
      <4> QED BY <4>2 DEF fs, w
    <3>4. ASSUME NEW t \in W
          PROVE  Cat(Mapped(g, Front(s)), g[Cat(l, t)]) = g[Cat(P(i + 1), t)]
      <4>1. Add(t) \in W /\ Cat(P(i + 1), t) = Cat(P(i), Add(t))
        BY <2>4
      <4>2. Cat(l, t) = Cat(Last(s), Add(t))
        BY <1>2, <2>4, <2>5, <3>1
      <4> HIDE DEF Add
      <4>3. Cat(Mapped(g, Front(s)), g[Cat(Last(s), Add(t))]) = g[Cat(P(i), Add(t))]
        BY <2>2, <4>1
      <4> QED BY <4>1, <4>2, <4>3
    <3> HIDE DEF s
    <3>5. \A t \in W : Cat(Mapped(g, Front(e[i + 1])), g[Cat(Last(e[i + 1]), t)])
                         = g[Cat(P(i + 1), t)]
      BY <3>3, <3>4
    <3> QED BY <3>1, <3>3, <3>5 DEF i
  <2> QED BY <2>6, <2>7
<1>13. S = Nat
  <2>1. S \in SUBSET Nat
    OBVIOUS
  <2> HIDE DEF S
  <2> QED BY <1>11, <1>12, <2>1, NatInd
<1>14. Good(n)
  <2>1. n - 1 \in Nat /\ (n - 1) + 1 = n
    BY <1>1
  <2>2. n - 1 \in S
    <3> HIDE DEF S
    <3> QED BY <1>13, <2>1
  <2> HIDE DEF Good
  <2> QED BY <2>1, <2>2
<1> DEFINE s == e[n]
<1>15. /\ s \in Seq(W) /\ s # << >>
       /\ \A t \in W : Cat(Mapped(g, Front(s)), g[Cat(Last(s), t)]) = g[Cat(P(n), t)]
  BY <1>14
<1> HIDE DEF s, Good
<1>16. Front(s) \in Seq(W) /\ Last(s) \in W /\ Mapped(g, s) = Cat(Mapped(g, Front(s)), g[Last(s)])
  <2>1. Front(s) \in Seq(W) /\ Last(s) \in W /\ s = Then(Front(s), Last(s))
    BY <1>8, <1>15
  <2> QED BY <1>9, <2>1
<1>17. Cat(Last(s), << >>) = Last(s) /\ Cat(text, << >>) = text /\ << >> \in W
  BY <1>2, <1>4, <1>16
<1>18. Mapped(g, s) = g[text]
  BY <1>4, <1>15, <1>16, <1>17
<1> QED BY <1>15, <1>18 DEF s, n, W

\* The ids of a text.
TextIds == [t \in Seq(Covered) |-> Greedy(t)]

\* Cutting a text of a byte model, or of a model that is not split on bigrams,
\* keeps its ids (VocabBigramSegmentIndex, BpeEncoder::encode_string).
LEMMA SegmentsKeep ==
  ASSUME Constructed, ~model.unicode \/ ~model.split, NEW text \in Seq(Covered)
  PROVE  /\ Segments(text) \in Seq(Seq(Covered))
         /\ Mapped(TextIds, Segments(text)) = Greedy(text)
<1> DEFINE W == Seq(Covered)
           e == Emitted(text)
           n == Len(text)
           C == {i \in 2..n : CutBefore(text, i)}
<1>1. Maps(TextIds, W, Vid)
  <2> SUFFICES ASSUME NEW t \in W PROVE Greedy(t) \in Seq(Vid)
    BY DEF Maps, TextIds
  <2>1. Pretoken(t) \in Seq(Vid)
    <3>1. Pretoken(t) \in Seq(Spelled) /\ Spelled \subseteq Vid
      BY PretokenCat DEF Spelled
    <3> QED BY <3>1
  <2> QED BY <2>1, EncodingIs DEF Greedy
<1>2. CASE Uncut(text)
  <2>1. Segments(text) = <<text>>
    BY <1>2 DEF Segments
  <2>2. <<text>> \in Seq(W) /\ text \in W
    OBVIOUS
  <2>3. Mapped(TextIds, <<text>>) = TextIds[text]
    <3> HIDE DEF W
    <3> QED BY <1>1, <2>2, MapCat
  <2>4. TextIds[text] = Greedy(text)
    BY DEF TextIds
  <2> QED BY <2>1, <2>2, <2>3, <2>4
<1>3. CASE ~Uncut(text)
  <2>1. PICK j \in 2..n : CutBefore(text, j)
    BY <1>3 DEF Uncut
  <2>2. text # << >> /\ n \in Nat \ {0}
    <3>1. n \in Nat
      OBVIOUS
    <3>2. n # 0
      BY <2>1, <3>1
    <3> QED BY <3>1, <3>2
  <2>3. ~model.unicode /\ Literal
    <3>1. built.can_split
      BY <2>1 DEF CutBefore
    <3>2. model.split /\ Literal
      BY <3>1 DEF Constructed, Built, CanSplit
    <3> QED BY <3>2
  <2>4. Segments(text) = e[n]
    BY <1>3 DEF Segments
  <2>5. text \in Seq(Scalar)
    BY DEF Covered
  <2>6. CutInto(e, text, C)
    <3> DEFINE Step(x, k) == IF k = 1 \/ CutBefore(text, k) THEN Append(x, <<text[k]>>)
                             ELSE Append(Front(x), Append(Last(x), text[k]))
    <3>1. Emits(e, n, text)
      BY <2>5, EmittedUnfold
    <3>2. \A i \in 0..n : e[i] = IF i = 0 THEN << >> ELSE Step(e[i - 1], i)
      BY <3>1, Zenon DEF Emits
    <3>3. e[0] = << >> /\ \A i \in 1..n : e[i] = Step(e[i - 1], i)
      <4> HIDE DEF Step, e, n
      <4> QED BY <2>2, <3>2
    <3>4. \A i \in 1..n : \A x : Step(x, i) = IF i = 1 \/ i \in C THEN Then(x, Then(<< >>, text[i]))
                                      ELSE Then(Front(x), Then(Last(x), text[i]))
      <4> TAKE i \in 1..n
      <4>1. i = 1 \/ i \in 2..n
        BY <2>2
      <4>2. (i = 1 \/ CutBefore(text, i)) <=> (i = 1 \/ i \in C)
        BY <4>1
      <4>3. <<text[i]>> = Append(<< >>, text[i])
        OBVIOUS
      <4> HIDE DEF C
      <4> QED BY <4>2, <4>3, Zenon DEF Then
    <3> HIDE DEF Step, e, C
    <3> QED BY <3>3, <3>4 DEF CutInto
  <2>7. Cuttable(TextIds, text, Covered, C)
    <3> SUFFICES ASSUME NEW i \in C, NEW u \in W, NEW v \in W, u # << >>, v # << >>,
                        Last(u) = text[i - 1], Head(v) = text[i]
                 PROVE  TextIds[Cat(u, v)] = Cat(TextIds[u], TextIds[v])
      BY DEF Cuttable
    <3>1. <<Last(Utf8[text[i - 1]]), Head(Utf8[text[i]])>> \notin Bigrams
      BY <2>3 DEF CutBefore, Constructed, Built
    <3>2. Greedy(Cat(u, v)) = Cat(Greedy(u), Greedy(v))
      BY <2>3, <3>1, GreedyCat
    <3>3. Cat(u, v) \in W
      BY ConcatProperties DEF Cat
    <3> QED BY <3>2, <3>3 DEF TextIds
  <2>8. e[n] \in Seq(W) /\ Mapped(TextIds, e[n]) = TextIds[text]
    <3> HIDE DEF e, C
    <3> QED BY <1>1, <2>2, <2>6, <2>7, CutsKeep
  <2> QED BY <2>4, <2>8 DEF TextIds
<1> QED BY <1>2, <1>3

-----------------------------------------------------------------------------
(* What a call returns for a string that was cut. *)

\* A set of pieces that has the words in the vocabulary, and no others.
ByVocab(A) ==
  A \subseteq Piece /\ \A p \in Piece : ~p.special => (p \in A <=> InVocab(p.text))

\* A string is in the vocabulary when its pieces are.
LEMMA PartsBelong ==
  ASSUME NEW A, ByVocab(A)
  PROVE  /\ \A p \in Piece : PieceParts[p] \in Seq(A) <=> p \in A
         /\ \A op : \A input \in Seq(Piece) : PiecesOf(op, input) \in Seq(A) <=> input \in Seq(A)
<1> DEFINE W == Seq(Covered)
           word(x) == [special |-> FALSE, text |-> x]
<1>1. ASSUME NEW p \in Piece, p.special
      PROVE  PieceParts[p] \in Seq(A) <=> p \in A
  <2>1. PieceParts[p] = <<p>>
    BY <1>1 DEF PieceParts
  <2>2. <<p>> \in Seq(A) => <<p>>[1] \in A
    OBVIOUS
  <2> QED BY <2>1, <2>2
<1>2. ASSUME NEW p \in Piece, ~p.special
      PROVE  PieceParts[p] \in Seq(A) <=> p \in A
  <2> DEFINE segs == Segments(p.text)
  <2>1. PieceParts[p] = Words(segs) /\ p.text \in Seq(Scalar)
    BY <1>2 DEF PieceParts, Piece
  <2>2. segs \in Seq(Seq(Scalar)) /\ FlattenSeq(segs) = p.text
    BY <2>1, SegmentsAre
  <2>3. p \in A <=> FlattenSeq(segs) \in W
    BY <1>2, <2>1, <2>2, CoveredTexts DEF ByVocab
  <2>4. FlattenSeq(segs) \in W <=> segs \in Seq(W)
    <3>1. FlattenSeq(segs) \in W => segs \in Seq(W)
      <4>1. Covered \in SUBSET Scalar
        BY DEF Covered
      <4> HIDE DEF segs
      <4> QED BY <2>2, <4>1, FlattenOver
    <3>2. \A ss \in Seq(W) : FlattenSeq(ss) \in W
      BY Flattened
    <3> QED BY <3>1, <3>2
  <2>5. \A t \in Seq(Scalar) : word(t) \in A <=> t \in W
    <3> TAKE t \in Seq(Scalar)
    <3>1. word(t) \in Piece /\ ~word(t).special /\ word(t).text = t
      BY DEF Piece
    <3> QED BY <3>1, CoveredTexts DEF ByVocab
  <2>6. Words(segs) \in Seq(A) <=> segs \in Seq(W)
    <3> DEFINE Z == Seq(Scalar)
    <3>1. segs \in Seq(Z)
      BY <2>2
    <3> HIDE DEF segs, Z, W
    <3>2. Len(segs) \in Nat /\ DOMAIN segs = 1..Len(segs) /\ \A k \in 1..Len(segs) : segs[k] \in Z
      BY <3>1
    <3>3. \A t \in Z : word(t) \in A <=> t \in W
      BY <2>5 DEF Z
    <3> HIDE DEF word
    <3>4. Words(segs) = [k \in 1..Len(segs) |-> word(segs[k])]
      BY <3>2 DEF Words, word
    <3>5. ASSUME segs \in Seq(W) PROVE Words(segs) \in Seq(A)
      <4>1. \A k \in 1..Len(segs) : word(segs[k]) \in A
        BY <3>2, <3>3, <3>5
      <4> QED BY <3>2, <3>4, <4>1
    <3>6. ASSUME Words(segs) \in Seq(A) PROVE segs \in Seq(W)
      <4>1. \A k \in 1..Len(segs) : Words(segs)[k] \in A
        <5>1. DOMAIN Words(segs) = 1..Len(segs)
          BY <3>4
        <5> QED BY <3>6, <5>1
      <4>2. \A k \in 1..Len(segs) : segs[k] \in W
        BY <3>2, <3>3, <3>4, <4>1
      <4>3. \A w \in Seq(Z) : (\A i \in 1..Len(w) : w[i] \in W) => w \in Seq(W)
        OBVIOUS
      <4> QED BY <3>1, <4>2, <4>3
    <3> QED BY <3>5, <3>6
  <2> QED BY <2>1, <2>3, <2>4, <2>6
<1>3. \A p \in Piece : PieceParts[p] \in Seq(A) <=> p \in A
  BY <1>1, <1>2
<1>4. ASSUME NEW input \in Seq(Piece)
      PROVE  Mapped(PieceParts, input) \in Seq(A) <=> input \in Seq(A)
  <2>1. Maps(PieceParts, A, A) /\ A \in SUBSET Piece
    BY <1>3 DEF Maps, ByVocab
  <2>2. input \in Seq(A) => Mapped(PieceParts, input) \in Seq(A)
    BY <2>1, MapCat
  <2>3. ASSUME Mapped(PieceParts, input) \in Seq(A) PROVE input \in Seq(A)
    <3> DEFINE Y == Seq(Piece)
               X == Seq(A)
               ss == Image(PieceParts, input)
    <3>1. Into(PieceParts, Piece, Y)
      BY PartsAre DEF Into, Maps
    <3>2. \A ts \in Seq(Y) : FlattenSeq(ts) \in X => ts \in Seq(X)
      BY ONLY <2>1, FlattenOver
    <3> HIDE DEF X, Y
    <3>3. ss \in Seq(Y) /\ Len(ss) = Len(input) /\ \A i \in 1..Len(input) : ss[i] = PieceParts[input[i]]
      BY <3>1, ImageCat
    <3>4. FlattenSeq(ss) \in X
      BY <2>3 DEF Mapped, Image, X
    <3> HIDE DEF ss
    <3>5. ss \in Seq(X)
      BY <3>2, <3>3, <3>4
    <3>6. \A i \in 1..Len(input) : PieceParts[input[i]] \in X
      BY <3>3, <3>5
    <3>7. \A i \in 1..Len(input) : input[i] \in A
      BY <1>3, <3>6 DEF X
    <3> QED BY <3>7
  <2> QED BY <2>2, <2>3
<1>5. \A op, input : op # "string" => PiecesOf(op, input) = input
  BY DEF PiecesOf
<1> QED BY <1>3, <1>4, <1>5, PartsAre

\* The pieces of a string that was cut have the ids of the string.
LEMMA PartsKeepIds ==
  ASSUME Constructed, ~model.unicode \/ ~model.split
  PROVE  \A input \in Seq(EncodablePiece) :
           /\ Mapped(PieceParts, input) \in Seq(EncodablePiece)
           /\ Mapped(PieceIds, Mapped(PieceParts, input)) = Mapped(PieceIds, input)
<1> DEFINE W == Seq(Covered)
<1>1. ByVocab(EncodablePiece)
  BY DEF ByVocab, EncodablePiece, Encodable
<1>2. Maps(PieceParts, EncodablePiece, EncodablePiece)
  BY <1>1, PartsBelong DEF Maps, EncodablePiece
<1>3. Maps(PieceIds, EncodablePiece, Vid)
  <2>1. \A p \in EncodablePiece : p \in Piece /\ Encodable(p) /\ PieceIds[p] = IdsOf(p)
    BY DEF EncodablePiece, PieceIds
  <2> QED BY <2>1, PieceDecodes DEF Maps
<1>4. \A t \in W : PieceIds[[special |-> FALSE, text |-> t]] = TextIds[t]
  <2> TAKE t \in W
  <2> DEFINE p == [special |-> FALSE, text |-> t]
  <2>1. t \in Seq(Scalar) /\ InVocab(t)
    <3>1. t \in Seq(Scalar)
      BY DEF Covered
    <3> QED BY <3>1, CoveredTexts
  <2>2. p \in Piece /\ ~p.special /\ p.text = t
    BY <2>1 DEF Piece
  <2>3. p \in EncodablePiece
    BY <2>1, <2>2 DEF EncodablePiece, Encodable
  <2>4. PieceIds[p] = Greedy(t)
    BY <2>2, <2>3 DEF PieceIds, IdsOf
  <2> QED BY <2>4 DEF TextIds
<1>5. \A p \in EncodablePiece : PieceIds[p] = Mapped(PieceIds, PieceParts[p])
  <2> TAKE p \in EncodablePiece
  <2>1. p \in Piece /\ Encodable(p) /\ p.text \in Seq(Scalar)
    BY DEF EncodablePiece, Piece
  <2>2. CASE p.special
    <3>1. PieceParts[p] = <<p>>
      BY <2>1, <2>2 DEF PieceParts
    <3> QED BY <1>3, <3>1, MapCat
  <2>3. CASE ~p.special
    <3>1. PieceParts[p] = Words(Segments(p.text)) /\ p.text \in W
      BY <2>1, <2>3, CoveredTexts DEF PieceParts, Encodable
    <3>2. Segments(p.text) \in Seq(W) /\ Mapped(TextIds, Segments(p.text)) = Greedy(p.text)
      BY <3>1, SegmentsKeep
    <3> HIDE DEF W
    <3>3. \A texts \in Seq(W) : Mapped(PieceIds, Words(texts)) = Mapped(TextIds, texts)
      BY ONLY <1>4, WordsMap
    <3>4. PieceIds[p] = Greedy(p.text)
      BY <2>3 DEF PieceIds, IdsOf
    <3> QED BY <3>1, <3>2, <3>3, <3>4
  <2> QED BY <2>2, <2>3
<1>6. Composes(PieceParts, EncodablePiece, EncodablePiece, PieceIds, Vid, PieceIds)
  BY <1>2, <1>3, <1>5 DEF Composes
<1>7. \A input \in Seq(EncodablePiece) :
        Mapped(PieceIds, Mapped(PieceParts, input)) = Mapped(PieceIds, input)
  BY ONLY <1>6, MapMap
<1>8. \A input \in Seq(EncodablePiece) : Mapped(PieceParts, input) \in Seq(EncodablePiece)
  BY <1>2, MapCat
<1> QED BY <1>7, <1>8

\* No Unicode model is split on bigrams. Where one is, a merge may join bytes of
\* two scalars that have no tokens, and cutting between them keeps it from
\* applying.
ScalarsAreUncut == \A m \in Models : ~m.unicode \/ ~m.split

\* A call that succeeds returns what it should for its own pieces, not only for
\* those that it cut them into, and one that fails has a piece without tokens.
LEMMA InvResults == ASSUME ScalarsAreUncut, EncoderInv PROVE ResultsAreGreedy
<1> SUFFICES ASSUME NEW c \in Caller, NEW s, s = call[c]
             PROVE  /\ s.pc = "ok" => s.result = Promised(c)
                    /\ s.pc = "error" =>
                         \E p \in Elements(s.input) : ~p.special /\ ~InVocab(p.text)
  BY DEF ResultsAreGreedy
<1> DEFINE pieces == PiecesOf(s.op, s.input)
<1>1. /\ Constructed /\ s.input \in Seq(Piece)
      /\ s.pc = "ok" => Returned(s)
      /\ s.pc = "error" => Refused(s)
  BY DEF EncoderInv, CallOK, IsCall
<1>2. ~model.unicode \/ ~model.split
  BY <1>1 DEF Constructed, ScalarsAreUncut
<1>3. /\ pieces \in Seq(Piece)
      /\ \A A : ByVocab(A) => (pieces \in Seq(A) <=> s.input \in Seq(A))
  BY <1>1, PartsKeepBytes, PartsBelong
<1>4. \A A : \A w \in Seq(Piece) : w \in Seq(A) <=> Elements(w) \subseteq A
  <2> TAKE A
  <2> TAKE w \in Seq(Piece)
  <2>1. (\A i \in 1..Len(w) : w[i] \in A) => w \in Seq(A)
    OBVIOUS
  <2>2. w \in Seq(A) => \A i \in DOMAIN w : w[i] \in A
    OBVIOUS
  <2>3. DOMAIN w = 1..Len(w)
    OBVIOUS
  <2> QED BY <2>1, <2>2, <2>3 DEF Elements
<1>5. CASE s.pc = "ok"
  <2>1. ByVocab(EncodablePiece)
    BY DEF ByVocab, EncodablePiece, Encodable
  <2>2. pieces \in Seq(EncodablePiece)
    <3>1. \A p \in Elements(pieces) : p \in Piece /\ Encodable(p)
      <4>1. \A p \in Elements(pieces) : Encodable(p)
        BY <1>1, <1>5 DEF Returned
      <4>2. \A p \in Elements(pieces) : p \in Piece
        BY <1>3, <1>4
      <4> QED BY <4>1, <4>2
    <3> HIDE DEF pieces
    <3>2. Elements(pieces) \subseteq EncodablePiece
      BY <3>1 DEF EncodablePiece
    <3> QED BY <1>3, <1>4, <3>2
  <2>3. s.input \in Seq(EncodablePiece) /\ s.result = Answer(s.op, pieces)
    BY <1>1, <1>3, <1>5, <2>1, <2>2 DEF Returned
  <2>4. Promised(c) = Answer(s.op, s.input)
    BY DEF Promised, Answer
  <2>5. CASE s.op # "string"
    <3>1. pieces = s.input
      BY <2>5 DEF PiecesOf
    <3>2. s.result = Promised(c)
      BY <2>3, <2>4, <3>1
    <3> QED BY <1>5, <3>2
  <2>6. CASE s.op = "string"
    <3>1. \A w \in Seq(EncodablePiece) :
            FlattenSeq([i \in DOMAIN w |-> IdsOf(w[i])]) = Mapped(PieceIds, w)
      <4> TAKE w \in Seq(EncodablePiece)
      <4>1. \A i \in DOMAIN w : PieceIds[w[i]] = IdsOf(w[i])
        BY DEF PieceIds
      <4>2. [i \in DOMAIN w |-> PieceIds[w[i]]] = [i \in DOMAIN w |-> IdsOf(w[i])]
        BY <4>1
      <4> QED BY <4>2 DEF Mapped
    <3>2. \A w \in Seq(EncodablePiece) : Answer(s.op, w) = <<Mapped(PieceIds, w)>>
      BY <2>6, <3>1 DEF Answer
    <3>3. pieces = Mapped(PieceParts, s.input)
      BY <1>1, <2>6, PartsAre
    <3>4. Mapped(PieceIds, pieces) = Mapped(PieceIds, s.input)
      BY <1>1, <1>2, <2>3, <3>3, PartsKeepIds
    <3> HIDE DEF pieces
    <3>5. Answer(s.op, pieces) = Answer(s.op, s.input)
      BY <2>2, <2>3, <3>2, <3>4
    <3>6. s.result = Promised(c)
      BY <2>3, <2>4, <3>5
    <3> QED BY <1>5, <3>6
  <2> QED BY <2>5, <2>6
<1>6. CASE s.pc = "error"
  <2> DEFINE A == {p \in Piece : p.special \/ InVocab(p.text)}
  <2>1. ByVocab(A)
    BY DEF ByVocab
  <2>2. \E p \in Elements(pieces) : p \notin A
    BY <1>1, <1>6 DEF Refused
  <2> HIDE DEF pieces
  <2>3. \A w \in Seq(Piece) : (\A p \in Elements(w) : p \in Piece)
    BY <1>4
  <2>4. pieces \notin Seq(A)
    <3> HIDE DEF A
    <3> QED BY <1>3, <1>4, <2>2
  <2>5. \E p \in Elements(s.input) : p \notin A
    <3> HIDE DEF A
    <3> QED BY <1>1, <1>3, <1>4, <2>1, <2>4
  <2>6. \E p \in Elements(s.input) : ~p.special /\ ~InVocab(p.text)
    BY <1>1, <2>3, <2>5
  <2> QED BY <1>6, <2>6
<1> QED BY <1>5, <1>6

\* Every call returns what merging each of its words by rank gives, and fails
\* only if one of them cannot be encoded (encode_word, encode_words,
\* encode_string): however calls interleave, whatever the cache holds, and
\* wherever a byte model cuts a string.
THEOREM ResultsGreedy ==
  ASSUME JoiningModels, ScalarsAreUncut PROVE Spec => []ResultsAreGreedy
<1>1. EncoderInv => ResultsAreGreedy
  BY InvResults
<1> QED BY <1>1, EncoderInvariance, PTL

=============================================================================
