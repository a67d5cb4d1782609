-------------------------- MODULE BpeTrainerProofs --------------------------
(***************************************************************************)
(* Proofs about BpeTrainer, for every inventory of positive frequencies,   *)
(* every window and every sequence of calls: the table stays an exact      *)
(* recount of the words, the assertions of a step hold, and training does  *)
(* what BpeAbstract promises.                                              *)
(***************************************************************************)
EXTENDS BpeTrainer, BpeWordsProofs

\* The candidate table with everything proved about it.
Store == INSTANCE PairStoreProofs WITH
  Pair <- Id \X Id,
  UnitKey <- {Sentinel} \X Unit,
  Content <- Seq(Int) \X Seq(Int),
  CountFreq <- Int,
  Freq <- Int,
  Delta <- Int

\* Words are made of scalars and of tokens of the base vocabulary that have a
\* content, and occur a positive number of times. (test_hot_pair_window_matches
\* _exact_with_signed_frequencies trains on a negative count: see the run
\* signed_frequencies.)
PositiveInventories ==
  \A inventory \in Inventories \cup Added :
    inventory \in Inventory(Unit \cup {id \in DOMAIN BaseVocab : BaseVocab[id] # << >>})

-----------------------------------------------------------------------------
(* The assumptions of the table hold. *)

\* The sentinel is no id, so that no key is both a pair and an initial unit.
LEMMA Keys ==
  /\ Id \subseteq Int /\ Sentinel \in Int /\ Sentinel \notin Id
  /\ (Id \X Id) \cap ({Sentinel} \X Unit) = {}
  /\ \A tp \in {Sentinel} \X Unit : tp \in Int \X Int
BY TrainerAssumption DEF Id, Sentinel

\* t is above s from position i on.
LessAt(s, t, i) ==
  /\ i \in 1..Len(t)
  /\ \A j \in 1..i - 1 : j <= Len(s) /\ s[j] = t[j]
  /\ i > Len(s) \/ s[i] < t[i]

\* Lexicographic order never contradicts itself.
LEMMA SeqLessAsymmetric ==
  ASSUME NEW s \in Seq(Int), NEW t \in Seq(Int), SeqLess(s, t), SeqLess(t, s)
  PROVE  FALSE
<1>1. PICK i : LessAt(s, t, i)
  BY DEF SeqLess, LessAt
<1>2. PICK k : LessAt(t, s, k)
  BY DEF SeqLess, LessAt
<1>3. /\ Len(s) \in Nat /\ Len(t) \in Nat /\ i \in Nat /\ k \in Nat
      /\ \A j \in 1..Len(s) : s[j] \in Int
      /\ \A j \in 1..Len(t) : t[j] \in Int
  BY <1>1, <1>2 DEF LessAt
<1>4. CASE i < k
  BY <1>1, <1>2, <1>3, <1>4 DEF LessAt
<1>5. CASE k < i
  BY <1>1, <1>2, <1>3, <1>5 DEF LessAt
<1>6. CASE i = k
  BY <1>1, <1>2, <1>3, <1>6 DEF LessAt
<1> QED BY <1>3, <1>4, <1>5, <1>6

\* Lexicographic order is transitive.
LEMMA SeqLessTransitive ==
  ASSUME NEW s \in Seq(Int), NEW t \in Seq(Int), NEW r \in Seq(Int),
         SeqLess(s, t), SeqLess(t, r)
  PROVE  SeqLess(s, r)
<1>1. PICK i : LessAt(s, t, i)
  BY DEF SeqLess, LessAt
<1>2. PICK k : LessAt(t, r, k)
  BY DEF SeqLess, LessAt
<1>3. /\ Len(s) \in Nat /\ Len(t) \in Nat /\ Len(r) \in Nat /\ i \in Nat /\ k \in Nat
      /\ \A j \in 1..Len(s) : s[j] \in Int
      /\ \A j \in 1..Len(t) : t[j] \in Int
      /\ \A j \in 1..Len(r) : r[j] \in Int
  BY <1>1, <1>2 DEF LessAt
<1>4. CASE i < k
  <2>1. i \in 1..Len(r) /\ i <= Len(t) /\ t[i] = r[i]
    BY <1>1, <1>2, <1>3, <1>4 DEF LessAt
  <2>2. \A j \in 1..i - 1 : j <= Len(s) /\ s[j] = r[j]
    BY <1>1, <1>2, <1>3, <1>4 DEF LessAt
  <2>3. LessAt(s, r, i)
    BY <1>1, <2>1, <2>2 DEF LessAt
  <2> QED BY <2>3 DEF SeqLess, LessAt
<1>5. CASE k < i
  <2>1. k \in 1..Len(r) /\ k <= Len(s) /\ s[k] = t[k] /\ k <= Len(t)
    BY <1>1, <1>2, <1>3, <1>5 DEF LessAt
  <2>2. \A j \in 1..k - 1 : j <= Len(s) /\ s[j] = r[j]
    BY <1>1, <1>2, <1>3, <1>5 DEF LessAt
  <2>3. LessAt(s, r, k)
    BY <1>2, <1>3, <2>1, <2>2 DEF LessAt
  <2> QED BY <2>3 DEF SeqLess, LessAt
<1>6. CASE i = k
  <2>1. k \in 1..Len(r) /\ k <= Len(t) /\ t[k] < r[k]
    BY <1>1, <1>2, <1>3, <1>6 DEF LessAt
  <2>2. \A j \in 1..k - 1 : j <= Len(s) /\ s[j] = r[j]
    BY <1>1, <1>2, <1>3, <1>6 DEF LessAt
  <2>3. k > Len(s) \/ s[k] < r[k]
    BY <1>1, <1>3, <1>6, <2>1 DEF LessAt
  <2>4. LessAt(s, r, k)
    BY <2>1, <2>2, <2>3 DEF LessAt
  <2> QED BY <2>4 DEF SeqLess, LessAt
<1> QED BY <1>3, <1>4, <1>5, <1>6

\* Two sequences that lexicographic order does not separate are equal.
LEMMA SeqLessTotal ==
  ASSUME NEW s \in Seq(Int), NEW t \in Seq(Int), s # t
  PROVE  SeqLess(s, t) \/ SeqLess(t, s)
<1>1. /\ Len(s) \in Nat /\ Len(t) \in Nat
      /\ \A j \in 1..Len(s) : s[j] \in Int
      /\ \A j \in 1..Len(t) : t[j] \in Int
  OBVIOUS
<1> DEFINE S == {i \in Nat : i > 0 /\ (i > Len(s) \/ i > Len(t) \/ s[i] # t[i])}
<1>2. Len(s) + 1 \in S /\ S \subseteq Nat
  BY <1>1
<1>3. PICK i \in S : \A m \in S : i <= m
  <2> HIDE DEF S
  <2> QED BY <1>2, Least
<1>4. \A j \in 1..i - 1 : j <= Len(s) /\ j <= Len(t) /\ s[j] = t[j]
  BY <1>1, <1>3
<1>5. ~(i > Len(s) /\ i > Len(t))
  <2> SUFFICES ASSUME i > Len(s), i > Len(t) PROVE FALSE
    OBVIOUS
  <2>1. Len(s) = Len(t)
    <3>1. Len(s) \in 1..i - 1 \/ Len(s) = 0
      BY <1>1, <1>3
    <3>2. Len(t) \in 1..i - 1 \/ Len(t) = 0
      BY <1>1, <1>3
    <3>3. Len(s) <= Len(t)
      BY <1>1, <1>4, <3>1
    <3>4. Len(t) <= Len(s)
      BY <1>1, <1>4, <3>2
    <3> QED BY <1>1, <3>3, <3>4
  <2>2. \A j \in 1..Len(s) : s[j] = t[j]
    BY <1>1, <1>3, <1>4
  <2> QED BY <2>1, <2>2, SeqEqual
<1>6. CASE i > Len(s)
  <2>1. LessAt(s, t, i)
    BY <1>1, <1>3, <1>4, <1>5, <1>6 DEF LessAt
  <2> QED BY <2>1 DEF SeqLess, LessAt
<1>7. CASE i > Len(t)
  <2>1. LessAt(t, s, i)
    BY <1>1, <1>3, <1>4, <1>5, <1>7 DEF LessAt
  <2> QED BY <2>1 DEF SeqLess, LessAt
<1>8. CASE i <= Len(s) /\ i <= Len(t)
  <2>1. i \in 1..Len(s) /\ i \in 1..Len(t) /\ s[i] # t[i]
    BY <1>1, <1>3, <1>8
  <2>2. CASE s[i] < t[i]
    <3>1. LessAt(s, t, i)
      BY <1>1, <1>4, <2>1, <2>2 DEF LessAt
    <3> QED BY <3>1 DEF SeqLess, LessAt
  <2>3. CASE t[i] < s[i]
    <3>1. LessAt(t, s, i)
      BY <1>1, <1>4, <2>1, <2>3 DEF LessAt
    <3> QED BY <3>1 DEF SeqLess, LessAt
  <2> QED BY <1>1, <2>1, <2>2, <2>3
<1> QED BY <1>1, <1>3, <1>6, <1>7, <1>8

\* Both tie-breaks are strict weak orders.
LEMMA TieOrder ==
  \A c, d, e \in [tp : Int \X Int, content : Seq(Int) \X Seq(Int)] :
    /\ TieLess(c, d) => ~TieLess(d, c)
    /\ TieLess(c, e) => TieLess(c, d) \/ TieLess(d, e)
<1> SUFFICES ASSUME NEW c \in [tp : Int \X Int, content : Seq(Int) \X Seq(Int)],
                    NEW d \in [tp : Int \X Int, content : Seq(Int) \X Seq(Int)],
                    NEW e \in [tp : Int \X Int, content : Seq(Int) \X Seq(Int)]
             PROVE  /\ TieLess(c, d) => ~TieLess(d, c)
                    /\ TieLess(c, e) => TieLess(c, d) \/ TieLess(d, e)
  OBVIOUS
<1>1. /\ SmallestPairId(c, d) => ~SmallestPairId(d, c)
      /\ SmallestPairId(c, e) => SmallestPairId(c, d) \/ SmallestPairId(d, e)
  <2>1. /\ c.tp[1] \in Int /\ c.tp[2] \in Int /\ d.tp[1] \in Int /\ d.tp[2] \in Int
        /\ e.tp[1] \in Int /\ e.tp[2] \in Int
    OBVIOUS
  <2> QED BY <2>1 DEF SmallestPairId
<1>2. /\ LargestContent(c, d) => ~LargestContent(d, c)
      /\ LargestContent(c, e) => LargestContent(c, d) \/ LargestContent(d, e)
  <2>1. /\ c.content[1] \in Seq(Int) /\ c.content[2] \in Seq(Int)
        /\ d.content[1] \in Seq(Int) /\ d.content[2] \in Seq(Int)
        /\ e.content[1] \in Seq(Int) /\ e.content[2] \in Seq(Int)
    OBVIOUS
  <2>2. \A s, t \in Seq(Int) : SeqLess(s, t) => ~SeqLess(t, s)
    BY SeqLessAsymmetric
  <2>3. \A s, t \in Seq(Int) : SeqLess(s, t) \/ SeqLess(t, s) \/ s = t
    BY SeqLessTotal
  <2>4. \A s, t, r \in Seq(Int) : SeqLess(s, r) => SeqLess(s, t) \/ SeqLess(t, r)
    BY <2>3, SeqLessTransitive
  <2> DEFINE c1 == c.content[1] c2 == c.content[2] d1 == d.content[1] d2 == d.content[2]
             e1 == e.content[1] e2 == e.content[2]
  <2> HIDE DEF c1, c2, d1, d2, e1, e2
  <2>5. /\ SeqLess(c1, d1) \/ (c1 = d1 /\ SeqLess(c2, d2))
             => ~(SeqLess(d1, c1) \/ (d1 = c1 /\ SeqLess(d2, c2)))
        /\ SeqLess(c1, e1) \/ (c1 = e1 /\ SeqLess(c2, e2))
             => \/ SeqLess(c1, d1) \/ (c1 = d1 /\ SeqLess(c2, d2))
                \/ SeqLess(d1, e1) \/ (d1 = e1 /\ SeqLess(d2, e2))
    BY <2>1, <2>2, <2>3, <2>4 DEF c1, c2, d1, d2, e1, e2
  <2> QED BY <2>5 DEF LargestContent, c1, c2, d1, d2, e1, e2
<1> QED BY <1>1, <1>2 DEF TieLess

\* What PairStore assumes of its constants holds for the trainer's table.
LEMMA TableAssumptions ==
  /\ Store!KeyAssumption
  /\ Store!WindowAssumption
  /\ Store!NoneAssumption
  /\ Store!TieAssumption
  /\ Store!FreqAssumption
<1>1. Store!KeyAssumption
  BY Keys DEF Store!KeyAssumption
<1>2. Store!WindowAssumption
  BY TrainerAssumption DEF Store!WindowAssumption
<1>3. Store!NoneAssumption
  BY Keys, NoneIsNoValue DEF Store!NoneAssumption, Store!Candidate, Store!Key
<1>4. Store!TieAssumption
  <2>1. Store!Label \subseteq [tp : Int \X Int, content : Seq(Int) \X Seq(Int)]
    BY Keys DEF Store!Label, Store!Key
  <2> QED BY <2>1, TieOrder, Zenon DEF Store!TieAssumption
<1>5. Store!FreqAssumption
  BY DEF Store!FreqAssumption
<1> QED BY <1>1, <1>2, <1>3, <1>4, <1>5

-----------------------------------------------------------------------------
(* The operations of the trainer are operations of the table. *)

\* Table and Store order, rank and count alike.
LEMMA SameOrder ==
  /\ \A S : Table!Cardinality(S) = Store!Cardinality(S)
  /\ Table!Bounded <=> Store!Bounded
  /\ \A s : /\ Table!Live(s) = Store!Live(s)
            /\ Table!Candidates(s) = Store!Candidates(s)
            /\ Table!PairCandidates(s) = Store!PairCandidates(s)
            /\ Table!TopOf(s) = Store!TopOf(s)
            /\ Table!TpsOf(s) = Store!TpsOf(s)
            /\ Table!Lowest(s) = Store!Lowest(s)
            /\ \A t : Table!CandIn(s, t) = Store!CandIn(s, t)
  /\ \A c, d : Table!Less(c, d) <=> Store!Less(c, d)
<1>0. \A S : Table!Cardinality(S) = Store!Cardinality(S)
  BY Zenon DEF Table!Cardinality, Store!Cardinality
<1>1. Table!Bounded <=> Store!Bounded
  BY Zenon DEF Table!Bounded, Store!Bounded
<1>2. \A s : Table!Live(s) = Store!Live(s)
  BY Zenon DEF Table!Live, Store!Live
<1>3. \A s, t : Table!CandIn(s, t) = Store!CandIn(s, t)
  BY Zenon DEF Table!CandIn, Store!CandIn
<1>4. \A s : Table!Candidates(s) = Store!Candidates(s)
  BY Zenon DEF Table!Candidates, Store!Candidates, Table!Live, Store!Live, Table!CandIn, Store!CandIn
<1>5. \A s : Table!PairCandidates(s) = Store!PairCandidates(s)
  BY Zenon DEF Table!PairCandidates, Store!PairCandidates, Table!Live, Store!Live, Table!CandIn, Store!CandIn
<1>6. \A c, d : Table!Less(c, d) <=> Store!Less(c, d)
  BY Zenon DEF Table!Less, Store!Less, Table!LabelOf, Store!LabelOf
<1>7. \A s : Table!TopOf(s) = Store!TopOf(s)
  <2>1. \A R, S : Table!IsTop(R, S) <=> Store!IsTop(R, S)
    BY <1>0, <1>6, Zenon DEF Table!IsTop, Store!IsTop
  <2> QED BY <2>1, Zenon DEF Table!TopOf, Store!TopOf
<1>8. \A s : Table!TpsOf(s) = Store!TpsOf(s)
  BY Zenon DEF Table!TpsOf, Store!TpsOf
<1>9. \A s : Table!Lowest(s) = Store!Lowest(s)
  BY Zenon DEF Table!Lowest, Store!Lowest, Table!Less, Store!Less, Table!LabelOf, Store!LabelOf
<1> QED BY <1>0, <1>1, <1>2, <1>3, <1>4, <1>5, <1>6, <1>7, <1>8, <1>9

\* A rebuilt frontier, a threshold and a hydrated table are the same in both.
LEMMA SameRanking ==
  /\ \A s : Table!RebuildFrontier(s) <=> Store!RebuildFrontier(s)
  /\ \A R : Table!SetThreshold(R) <=> Store!SetThreshold(R)
  /\ \A s, R, occOf : Table!Hydrated(s, R, occOf) = Store!Hydrated(s, R, occOf)
  /\ \A s, tp : Table!Take(s, tp) <=> Store!Take(s, tp)
  /\ \A s, tp : Table!Pushable(s, tp) <=> Store!Pushable(s, tp)
<1>1. ASSUME NEW s PROVE Table!RebuildFrontier(s) <=> Store!RebuildFrontier(s)
  BY SameOrder, Zenon DEF Table!RebuildFrontier, Store!RebuildFrontier
<1>2. ASSUME NEW R PROVE Table!SetThreshold(R) <=> Store!SetThreshold(R)
  BY SameOrder, Zenon DEF Table!SetThreshold, Store!SetThreshold
<1>3. ASSUME NEW s, NEW R, NEW occOf
      PROVE  Table!Hydrated(s, R, occOf) = Store!Hydrated(s, R, occOf)
  BY SameOrder, Zenon DEF Table!Hydrated, Store!Hydrated
<1>4. ASSUME NEW s, NEW tp PROVE Table!Take(s, tp) <=> Store!Take(s, tp)
  BY Zenon DEF Table!Take, Store!Take
<1>5. ASSUME NEW s, NEW tp PROVE Table!Pushable(s, tp) <=> Store!Pushable(s, tp)
  BY SameOrder, Zenon DEF Table!Pushable, Store!Pushable
<1> QED BY <1>1, <1>2, <1>3, <1>4, <1>5

\* The steps of the search are the same in both.
LEMMA SameSearch ==
  /\ Table!StoreInit <=> Store!StoreInit
  /\ Table!Search <=> Store!Search
  /\ Table!Refill <=> Store!Refill
  /\ Table!GiveUp <=> Store!GiveUp
  /\ Table!ApplyUnit <=> Store!ApplyUnit
  /\ \A c : /\ Table!Popped(c) <=> Store!Popped(c)
            /\ Table!Current(c) <=> Store!Current(c)
            /\ Table!Cold(c) <=> Store!Cold(c)
  /\ \A counted, occOf : Table!Build(counted, occOf) <=> Store!Build(counted, occOf)
  /\ \A c, occOf : Table!Select(c, occOf) <=> Store!Select(c, occOf)
  /\ Table!ColdWinnerIsRanked <=> Store!ColdWinnerIsRanked
<1>1. Table!StoreInit <=> Store!StoreInit
  BY Zenon DEF Table!StoreInit, Store!StoreInit
<1>2. Table!Search <=> Store!Search
  BY Zenon DEF Table!Search, Store!Search
<1>3. Table!Refill <=> Store!Refill
  BY SameOrder, SameRanking, Zenon DEF Table!Refill, Store!Refill
<1>4. Table!GiveUp <=> Store!GiveUp
  BY SameOrder, SameRanking, Zenon DEF Table!GiveUp, Store!GiveUp
<1>5. Table!ApplyUnit <=> Store!ApplyUnit
  BY Zenon DEF Table!ApplyUnit, Store!ApplyUnit
<1>6. \A c : /\ Table!Popped(c) <=> Store!Popped(c)
             /\ Table!Current(c) <=> Store!Current(c)
             /\ Table!Cold(c) <=> Store!Cold(c)
  BY SameOrder, Zenon DEF Table!Popped, Store!Popped, Table!Current, Store!Current,
     Table!Cold, Store!Cold
<1>7. ASSUME NEW counted, NEW occOf
      PROVE  Table!Build(counted, occOf) <=> Store!Build(counted, occOf)
  <2>1. Table!Fresh(counted, occOf) = Store!Fresh(counted, occOf)
    BY SameOrder, Zenon DEF Table!Fresh, Store!Fresh, Table!Entered, Store!Entered
  <2> QED BY <2>1, SameOrder, SameRanking, Zenon DEF Table!Build, Store!Build
<1>8. ASSUME NEW c, NEW occOf
      PROVE  Table!Select(c, occOf) <=> Store!Select(c, occOf)
  BY <1>6, SameOrder, SameRanking, Zenon DEF Table!Select, Store!Select
<1>9. Table!ColdWinnerIsRanked <=> Store!ColdWinnerIsRanked
  BY <1>6, SameOrder, Zenon DEF Table!ColdWinnerIsRanked, Store!ColdWinnerIsRanked
<1> QED BY <1>1, <1>2, <1>3, <1>4, <1>5, <1>6, <1>7, <1>8, <1>9

\* Applying a merge and declining one are the same in both.
LEMMA SameMerge ==
  /\ Table!Decline <=> Store!Decline
  /\ \A target, changes :
       Table!ApplyChanges(target, changes) <=> Store!ApplyChanges(target, changes)
<1>1. Table!Decline <=> Store!Decline
  <2>1. Table!Restored = Store!Restored /\ Table!Readmitted = Store!Readmitted
    BY SameOrder, Zenon DEF Table!Restored, Store!Restored, Table!Readmitted, Store!Readmitted
  <2> QED BY <2>1, SameOrder, SameRanking, Zenon DEF Table!Decline, Store!Decline
<1>2. ASSUME NEW target, NEW changes
      PROVE  Table!ApplyChanges(target, changes) <=> Store!ApplyChanges(target, changes)
  <2>1. Table!Updated(changes) = Store!Updated(changes)
    BY Zenon DEF Table!Updated, Store!Updated
  <2>2. \A s, tp : Table!HasHandle(s, tp) <=> Store!HasHandle(s, tp)
    BY Zenon DEF Table!HasHandle, Store!HasHandle
  <2>3. \A tp, d : Table!Admissible(tp, target, d) <=> Store!Admissible(tp, target, d)
    BY <2>2, SameOrder, Zenon DEF Table!Admissible, Store!Admissible
  <2>4. \A tp, d : Table!Changed(tp, target, d) = Store!Changed(tp, target, d)
    BY <2>2, SameOrder, Zenon DEF Table!Changed, Store!Changed, Table!Admitted, Store!Admitted,
       Table!Admissible, Store!Admissible, Table!HasHandle, Store!HasHandle,
       Table!Bounded, Store!Bounded
  <2>5. Table!Applied(target, changes) = Store!Applied(target, changes)
    BY <2>1, <2>4, Zenon DEF Table!Applied, Store!Applied
  <2>6. \A t : Table!Resident(t, changes) = Store!Resident(t, changes)
    BY <2>1, <2>2, SameOrder, Zenon DEF Table!Resident, Store!Resident
  <2>7. \A k : Table!NeedsPrune(k) <=> Store!NeedsPrune(k)
    BY SameOrder, Zenon DEF Table!NeedsPrune, Store!NeedsPrune
  <2>8. \A t, K : Table!Released(t, K) = Store!Released(t, K)
    BY Zenon DEF Table!Released, Store!Released
  <2> QED BY <2>1, <2>3, <2>5, <2>6, <2>7, <2>8, SameOrder, SameRanking, Zenon
          DEF Table!ApplyChanges, Store!ApplyChanges
<1> QED BY <1>1, <1>2

-----------------------------------------------------------------------------
(* The inductive invariant. *)

\* What the words and the keys of the table are made of.
Token == Unit \cup {id \in DOMAIN vocab : vocab[id] # << >>}

PairKeys == Token \X Token

UnitKeys == {Sentinel} \X Unit

\* The content and the true frequency of a key; a pair with a frozen scalar is
\* not counted.
KeyContent(tp) == IF tp[1] = Sentinel THEN << << >>, <<tp[2]>> >>
                                      ELSE <<TextOf(tp[1]), TextOf(tp[2])>>

KeyFreq(tp) ==
  IF tp[1] # Sentinel THEN IF HasFrozen(tp) THEN 0 ELSE WeightedPairs(tp)
  ELSE IF tp[2] \in Unmaterialized THEN WeightedUnits(tp[2]) ELSE 0

\* The frequency the table has for a key, which may be the one taken out of it.
HeldFreq(tp) == IF merge # None /\ merge.tp = tp THEN merge.freq
                ELSE IF tp \in DOMAIN store THEN store[tp].freq ELSE 0

WordsInv ==
  /\ vocab \in Seq(Seq(Int))
  /\ Len(BaseVocab) <= Len(vocab) /\ Len(vocab) <= MaxVocab
  /\ \A id \in DOMAIN BaseVocab : vocab[id] = BaseVocab[id]
  /\ words \in Inventory(Token)
  /\ DOMAIN words \subseteq WordId
  /\ frozen \subseteq Unit
  /\ adds \in Nat /\ (MaxAdds = 0 => adds = 0)

\* Every operand of a merge had a vocabulary entry when it was learned.
MergesInv ==
  /\ merges \in Seq([tp : PairKeys, target : DOMAIN vocab, freq : Nat])
  /\ UnitsBeforePairs

CallInv ==
  /\ call \in [op : {"none", "step", "train"}, target : 0..MaxVocab]
  /\ call = Idle => phase = "idle"
  /\ call # Idle => ready
  /\ phase # "idle" => Len(vocab) < MaxVocab

KeysInv ==
  /\ \A tp \in DOMAIN store :
       tp \in PairKeys \cup UnitKeys /\ store[tp].content = KeyContent(tp)
  /\ merge # None =>
       /\ merge.tp \in (PairKeys \cup UnitKeys) \ DOMAIN store
       /\ merge.content = KeyContent(merge.tp)
       /\ merge.freq > 0

FreqInv == ready => \A tp \in PairKeys \cup UnitKeys : HeldFreq(tp) = KeyFreq(tp)

\* occ are words of the inventory, with all that contain tp.
Covers(occ, tp) == occ \subseteq DOMAIN words /\ Occurrences[tp] \subseteq occ

OccInv ==
  ready => /\ \A tp \in DOMAIN store \cap (Id \X Id) :
                store[tp].occ # None => Covers(store[tp].occ, tp)
           /\ merge # None /\ merge.tp \in Id \X Id => Covers(merge.occ, merge.tp)

HandleInv ==
  \A tp \in DOMAIN store \cap (Id \X Id) :
    IF Store!Bounded THEN store[tp].occ # None => store[tp].freq > 0
                     ELSE store[tp].occ # None

ThresholdInv ==
  Store!Bounded /\ threshold = None =>
    /\ Store!Live(store) \cap (Id \X Id) = {}
    /\ merge # None => merge.tp \notin Id \X Id

\* Nothing the words still offer is more frequent than a merge that was learned
\* from the same inventory.
RarestInv ==
  adds = 0 =>
    \A r \in DOMAIN merges : \A tp \in PairKeys : KeyFreq(tp) <= merges[r].freq

\* No frozen scalar is in a key of the table.
KeptOut == \A tp \in DOMAIN store : ~HasFrozen(tp)

\* What holds whatever is frozen after the table was built.
Sound ==
  /\ WordsInv /\ MergesInv /\ CallInv /\ KeysInv /\ OccInv /\ HandleInv
  /\ ThresholdInv /\ RarestInv /\ (adds = 0 => FinalMergeIsRarest)
  /\ Store!FrontierInv /\ Store!ResidencyAgrees

\* And of a table that was built since.
Inv == Sound /\ FreqInv /\ KeptOut

-----------------------------------------------------------------------------
(* Tokens, keys and counts. *)

\* Tokens are ids that have a content; the next id is none of them.
LEMMA Tokens ==
  ASSUME WordsInv
  PROVE  /\ Token \subseteq Id /\ Token \subseteq Int
         /\ Sentinel \notin Token /\ NewId \notin Token /\ NewId \notin Unit
         /\ \A id \in Token : TextOf(id) \in Seq(Int) /\ TextOf(id) # << >>
         /\ DOMAIN vocab = 1..Len(vocab) /\ Len(vocab) \in Nat
<1>1. DOMAIN vocab = 1..Len(vocab) /\ Len(vocab) \in Nat
  BY DEF WordsInv
<1>2. \A u \in Unit : u \in Int /\ u < 0
  BY TrainerAssumption
<1>3. Token \subseteq Id
  BY <1>1, TrainerAssumption DEF Token, Id, WordsInv
<1>4. NewId \notin Token /\ NewId \notin Unit
  BY <1>1, <1>2 DEF NewId, Token
<1>5. ASSUME NEW id \in Token
      PROVE  TextOf(id) \in Seq(Int) /\ TextOf(id) # << >>
  <2>1. CASE id \in Unit
    BY <1>2, <2>1 DEF TextOf
  <2>2. CASE id \notin Unit
    BY <1>1, <2>2 DEF TextOf, Token, WordsInv
  <2> QED BY <2>1, <2>2
<1> QED BY <1>1, <1>3, <1>4, <1>5, Keys

\* Keys of pairs and of units are different keys of the table.
LEMMA KeyTypes ==
  ASSUME WordsInv
  PROVE  /\ PairKeys \subseteq Id \X Id
         /\ \A tp \in PairKeys : tp = <<tp[1], tp[2]>> /\ tp[1] \in Token /\ tp[2] \in Token
                                 /\ tp[1] # Sentinel
         /\ \A tp \in UnitKeys : tp = <<Sentinel, tp[2]>> /\ tp[2] \in Unit
         /\ UnitKeys \cap (Id \X Id) = {}
         /\ \A tp \in PairKeys \cup UnitKeys :
              /\ tp \in Store!Key
              /\ tp \in Id \X Id <=> tp \in PairKeys
              /\ KeyContent(tp) \in Seq(Int) \X Seq(Int)
<1>1. PairKeys \subseteq Id \X Id
  BY Tokens DEF PairKeys
<1>2. \A tp \in PairKeys : tp = <<tp[1], tp[2]>> /\ tp[1] \in Token /\ tp[2] \in Token
                           /\ tp[1] # Sentinel
  BY Tokens DEF PairKeys
<1>3. \A tp \in UnitKeys : tp = <<Sentinel, tp[2]>> /\ tp[2] \in Unit /\ tp[1] = Sentinel
  BY DEF UnitKeys
<1>4. UnitKeys \cap (Id \X Id) = {}
  BY Keys DEF UnitKeys
<1>5. \A tp \in PairKeys \cup UnitKeys : tp \in Store!Key
  BY <1>1 DEF Store!Key, UnitKeys
<1>6. ASSUME NEW tp \in PairKeys PROVE KeyContent(tp) \in Seq(Int) \X Seq(Int)
  <2>1. tp[1] \in Token /\ tp[2] \in Token /\ tp[1] # Sentinel
    BY <1>2
  <2>2. TextOf(tp[1]) \in Seq(Int) /\ TextOf(tp[2]) \in Seq(Int)
    BY <2>1, Tokens
  <2>3. KeyContent(tp) = <<TextOf(tp[1]), TextOf(tp[2])>>
    BY <2>1 DEF KeyContent
  <2> QED BY <2>2, <2>3
<1>7. ASSUME NEW tp \in UnitKeys PROVE KeyContent(tp) \in Seq(Int) \X Seq(Int)
  <2>1. tp[1] = Sentinel /\ tp[2] \in Int
    BY <1>3, TrainerAssumption
  <2> DEFINE none == << >>
             text == <<tp[2]>>
  <2>2. KeyContent(tp) = <<none, text>>
    BY <2>1 DEF KeyContent
  <2>3. none \in Seq(Int) /\ text \in Seq(Int)
    BY <2>1
  <2> HIDE DEF none, text
  <2> QED BY <2>2, <2>3
<1> QED BY <1>1, <1>2, <1>3, <1>4, <1>5, <1>6, <1>7

\* The pairs and the units of the words are made of tokens.
LEMMA WordKeys ==
  ASSUME WordsInv
  PROVE  /\ \A i \in DOMAIN words : PairsOf(words[i].idxs) \subseteq PairKeys
         /\ \A i \in DOMAIN words : Elements(words[i].idxs) \subseteq Token
         /\ \A tp : WeightedPairs(tp) = PairSum(words, tp) /\ WeightedPairs(tp) \in Nat
         /\ \A u : WeightedUnits(u) = UnitSum(words, u) /\ WeightedUnits(u) \in Nat
         /\ \A tp : WeightedPairs(tp) > 0 <=> \E i \in DOMAIN words : tp \in PairsOf(words[i].idxs)
         /\ \A u : WeightedUnits(u) > 0 <=> \E i \in DOMAIN words : u \in Elements(words[i].idxs)
<1>1. words \in Inventory(Token)
  BY DEF WordsInv
<1>2. ASSUME NEW i \in DOMAIN words
      PROVE  PairsOf(words[i].idxs) \subseteq PairKeys /\ Elements(words[i].idxs) \subseteq Token
  <2>1. words[i].idxs \in Seq(Token)
    BY <1>1, InventoryType
  <2> QED BY <2>1 DEF PairsOf, PairAt, Elements, PairKeys
<1>3. \A tp : WeightedPairs(tp) = PairSum(words, tp)
  BY Zenon DEF WeightedPairs, PairSum
<1>4. \A u : WeightedUnits(u) = UnitSum(words, u)
  BY Zenon DEF WeightedUnits, UnitSum
<1>5. ASSUME NEW k
      PROVE  /\ PairSum(words, k) \in Nat /\ UnitSum(words, k) \in Nat
             /\ PairSum(words, k) > 0 <=> \E i \in DOMAIN words : k \in PairsOf(words[i].idxs)
             /\ UnitSum(words, k) > 0 <=> \E i \in DOMAIN words : k \in Elements(words[i].idxs)
  BY <1>1, WeightedCounts
<1> QED BY <1>2, <1>3, <1>4, <1>5

\* A recount finds every key with its content and its positive true frequency.
LEMMA Recount ==
  ASSUME WordsInv
  PROVE  /\ DOMAIN Counted \subseteq PairKeys \cup UnitKeys
         /\ \A tp \in DOMAIN Counted :
              /\ Counted[tp].content = KeyContent(tp)
              /\ Counted[tp].freq = KeyFreq(tp) /\ KeyFreq(tp) > 0
         /\ \A tp \in PairKeys \cup UnitKeys : tp \notin DOMAIN Counted => KeyFreq(tp) = 0
         /\ \A tp \in PairKeys \cup UnitKeys : KeyFreq(tp) \in Nat
<1>1. DOMAIN Counted = AllPairs \cup ({Sentinel} \X Unmaterialized)
  BY DEF Counted
<1>2. AllPairs = {tp \in UNION {PairsOf(words[i].idxs) : i \in DOMAIN words} : ~HasFrozen(tp)}
  BY DEF AllPairs
<1>3. /\ AllPairs \subseteq PairKeys
      /\ \A tp : tp \in AllPairs <=> WeightedPairs(tp) > 0 /\ ~HasFrozen(tp)
  BY <1>2, WordKeys
<1>4. Unmaterialized \subseteq Unit /\ \A u \in Unmaterialized : WeightedUnits(u) > 0
  BY WordKeys DEF Unmaterialized
<1>5. ASSUME NEW tp \in AllPairs
      PROVE  /\ Counted[tp].content = KeyContent(tp)
             /\ Counted[tp].freq = KeyFreq(tp) /\ KeyFreq(tp) > 0
  <2>1. tp[1] # Sentinel
    BY <1>3, KeyTypes
  <2> QED BY <1>1, <1>3, <2>1 DEF Counted, KeyContent, KeyFreq
<1>6. ASSUME NEW tp \in {Sentinel} \X Unmaterialized
      PROVE  /\ Counted[tp].content = KeyContent(tp)
             /\ Counted[tp].freq = KeyFreq(tp) /\ KeyFreq(tp) > 0
             /\ tp \in UnitKeys
  <2>1. tp[1] = Sentinel /\ tp[2] \in Unmaterialized
    OBVIOUS
  <2>2. tp \in UnitKeys
    BY <1>4 DEF UnitKeys
  <2> QED BY <1>1, <1>4, <2>1, <2>2 DEF Counted, KeyContent, KeyFreq
<1>7. ASSUME NEW tp \in PairKeys
      PROVE  KeyFreq(tp) \in Nat /\ (tp \notin DOMAIN Counted => KeyFreq(tp) = 0)
  <2>1. KeyFreq(tp) = IF HasFrozen(tp) THEN 0 ELSE WeightedPairs(tp)
    BY KeyTypes DEF KeyFreq
  <2> QED BY <1>1, <1>3, <2>1, WordKeys
<1>8. ASSUME NEW tp \in UnitKeys
      PROVE  KeyFreq(tp) \in Nat /\ (tp \notin DOMAIN Counted => KeyFreq(tp) = 0)
  <2>1. tp = <<Sentinel, tp[2]>> /\ tp[1] = Sentinel
    BY KeyTypes DEF UnitKeys
  <2>2. tp \notin DOMAIN Counted => tp[2] \notin Unmaterialized
    BY <1>1, <2>1
  <2> QED BY <2>1, <2>2, WordKeys DEF KeyFreq
<1> QED BY <1>1, <1>3, <1>5, <1>6, <1>7, <1>8

\* A recount leaves out what is frozen.
LEMMA CountedKeptOut ==
  ASSUME WordsInv, NEW tp \in DOMAIN Counted
  PROVE  ~HasFrozen(tp)
<1>1. tp \in AllPairs \/ tp \in {Sentinel} \X Unmaterialized
  BY DEF Counted
<1>2. CASE tp \in AllPairs
  BY <1>2 DEF AllPairs
<1>3. CASE tp \in {Sentinel} \X Unmaterialized
  <2>1. tp[1] = Sentinel /\ tp[2] \notin frozen
    BY <1>3 DEF Unmaterialized
  <2>2. Sentinel \notin frozen
    BY Keys DEF WordsInv, Id
  <2> QED BY <2>1, <2>2 DEF HasFrozen
<1> QED BY <1>1, <1>2, <1>3

\* What the trainer counts and scans is something the table can be built from.
LEMMA RecountTypes ==
  ASSUME WordsInv
  PROVE  Counted \in Store!Counted /\ Occurrences \in Store!Scans
<1>1. Occurrences \in Store!Scans
  BY DEF Occurrences, Store!Scans, WordsInv
<1>2. DOMAIN Counted \subseteq Store!Key
  BY Recount, KeyTypes
<1>3. Counted = [tp \in DOMAIN Counted |-> Counted[tp]]
  BY DEF Counted
<1>4. ASSUME NEW tp \in DOMAIN Counted
      PROVE  Counted[tp] \in [content : Seq(Int) \X Seq(Int), freq : Int]
  <2>1. /\ Counted[tp].content \in Seq(Int) \X Seq(Int)
        /\ Counted[tp].freq \in Int
    BY Recount, KeyTypes
  <2>2. Counted[tp] = [content |-> Counted[tp].content, freq |-> Counted[tp].freq]
    BY DEF Counted
  <2> QED BY <2>1, <2>2
<1>5. Counted \in [DOMAIN Counted -> [content : Seq(Int) \X Seq(Int), freq : Int]]
  BY <1>3, <1>4, Zenon
<1> QED BY <1>1, <1>2, <1>5 DEF Store!Counted

-----------------------------------------------------------------------------
(* Steps that change neither the words nor the vocabulary. *)

SameWords == UNCHANGED <<words, vocab, frozen>>

\* They leave every key its content and its true frequency.
LEMMA SameWordsKeys ==
  ASSUME SameWords
  PROVE  /\ PairKeys' = PairKeys /\ UnitKeys' = UnitKeys
         /\ \A tp : KeyContent(tp)' = KeyContent(tp)
         /\ \A tp : KeyFreq(tp)' = KeyFreq(tp)
         /\ \A tp : WeightedPairs(tp)' = WeightedPairs(tp)
         /\ Occurrences' = Occurrences
         /\ \A occ, tp : Covers(occ, tp)' <=> Covers(occ, tp)
<1>1. words' = words /\ vocab' = vocab /\ frozen' = frozen
  BY DEF SameWords
<1>2. PairKeys' = PairKeys /\ UnitKeys' = UnitKeys
  BY <1>1, Zenon DEF PairKeys, UnitKeys, Token
<1>3. \A tp : KeyContent(tp)' = KeyContent(tp)
  BY <1>1, Zenon DEF KeyContent, TextOf
<1>4. \A tp : WeightedPairs(tp)' = WeightedPairs(tp)
  BY <1>1, Zenon DEF WeightedPairs
<1>5. \A u : WeightedUnits(u)' = WeightedUnits(u)
  BY <1>1, Zenon DEF WeightedUnits
<1>6. Unmaterialized' = Unmaterialized
  BY <1>1, Zenon DEF Unmaterialized
<1>7. \A tp : KeyFreq(tp)' = KeyFreq(tp)
  BY <1>1, <1>4, <1>5, <1>6, Zenon DEF KeyFreq, HasFrozen
<1>8. Occurrences' = Occurrences
  BY <1>1, Zenon DEF Occurrences
<1>9. \A occ, tp : Covers(occ, tp)' <=> Covers(occ, tp)
  BY <1>1, <1>8, Zenon DEF Covers
<1> QED BY <1>2, <1>3, <1>4, <1>7, <1>8, <1>9

\* They keep what the invariant says of words and merges.
LEMMA SameWordsInv ==
  ASSUME Sound, SameWords, UNCHANGED <<merges, adds>>
  PROVE  WordsInv' /\ MergesInv' /\ RarestInv' /\ (adds = 0 => FinalMergeIsRarest)'
<1>1. words' = words /\ vocab' = vocab /\ frozen' = frozen /\ merges' = merges /\ adds' = adds
  BY DEF SameWords
<1>2. WordsInv /\ MergesInv /\ RarestInv /\ (adds = 0 => FinalMergeIsRarest)
  BY DEF Sound
<1>3. WordsInv'
  BY <1>1, <1>2, Zenon DEF WordsInv, Token
<1>4. MergesInv'
  <2>1. UnitsBeforePairs'
    <3>1. UnitsBeforePairs
      BY <1>2 DEF MergesInv
    <3>2. vocab' = vocab /\ merges' = merges
      BY <1>1
    <3> SUFFICES ASSUME NEW r \in DOMAIN merges, NEW side \in {1, 2}
                 PROVE  KnownBefore(TextOf(merges[r].tp[side]), merges[r].target)'
      BY <3>2, Zenon DEF UnitsBeforePairs
    <3>3. PICK i \in 1..merges[r].target - 1 : vocab[i] = TextOf(merges[r].tp[side])
      BY <3>1 DEF UnitsBeforePairs, KnownBefore
    <3>4. TextOf(merges[r].tp[side])' = TextOf(merges[r].tp[side])
      BY <3>2, Zenon DEF TextOf
    <3> QED BY <3>2, <3>3, <3>4, Zenon DEF KnownBefore
  <2> QED BY <1>1, <1>2, <2>1, SameWordsKeys DEF MergesInv
<1>5. RarestInv'
  <2>1. \A tp : KeyFreq(tp)' = KeyFreq(tp)
    BY SameWordsKeys
  <2> QED BY <1>1, <1>2, <2>1, SameWordsKeys, Zenon DEF RarestInv
<1>6. (adds = 0 => FinalMergeIsRarest)'
  BY <1>1, <1>2, Zenon DEF FinalMergeIsRarest
<1> QED BY <1>3, <1>4, <1>5, <1>6

\* A step of the table keeps the table's own invariants.
LEMMA TableStep ==
  ASSUME Sound, Store!StoreNext \/ UNCHANGED Store!storeVars
  PROVE  Store!FrontierInv' /\ Store!ResidencyAgrees'
<1>1. Store!FrontierInv /\ Store!StoreTypeOK /\ Store!ResidencyAgrees
  BY DEF Sound, Store!FrontierInv
<1>2. [Store!StoreNext]_(Store!storeVars)
  OBVIOUS
<1>3. Store!FrontierInv'
  BY <1>1, <1>2, TableAssumptions, Store!FrontierInvStep
<1>4. Store!ResidencyAgrees'
  BY <1>1, <1>2, TableAssumptions, Store!ResidencyStep
<1> QED BY <1>3, <1>4

\* The steps of the search that find no winner yet, or none at all: neither
\* the entries of the table nor the held merge change.
LEMMA QuietStep ==
  ASSUME Inv, SameWords, UNCHANGED <<merges, adds, ready, store, threshold, merge>>,
         Store!StoreNext \/ UNCHANGED Store!storeVars, CallInv'
  PROVE  Inv'
<1>1. ready' = ready /\ store' = store /\ threshold' = threshold /\ merge' = merge
  OBVIOUS
<1>2. KeysInv /\ FreqInv /\ OccInv /\ HandleInv /\ ThresholdInv
  BY DEF Inv, Sound
<1>3. KeysInv'
  BY <1>1, <1>2, SameWordsKeys, Zenon DEF KeysInv
<1>4. FreqInv'
  <2>1. \A tp : HeldFreq(tp)' = HeldFreq(tp)
    BY <1>1, Zenon DEF HeldFreq
  <2> SUFFICES ASSUME ready', NEW tp \in (PairKeys \cup UnitKeys)'
               PROVE  HeldFreq(tp)' = KeyFreq(tp)'
    BY Zenon DEF FreqInv
  <2>2. ready /\ tp \in PairKeys \cup UnitKeys
    BY <1>1, SameWordsKeys
  <2>3. HeldFreq(tp) = KeyFreq(tp)
    BY <1>2, <2>2 DEF FreqInv
  <2> QED BY <2>1, <2>3, SameWordsKeys
<1>5. OccInv'
  BY <1>1, <1>2, SameWordsKeys DEF OccInv, Covers, SameWords
<1>6. HandleInv' /\ ThresholdInv'
  BY <1>1, <1>2, Zenon DEF HandleInv, ThresholdInv, Store!Bounded, Store!Live
<1>7. KeptOut'
  BY <1>1, Zenon DEF KeptOut, HasFrozen, SameWords, Inv
<1> QED BY <1>3, <1>4, <1>5, <1>6, <1>7, SameWordsInv, TableStep DEF Inv, Sound

\* A call that only begins, goes on or ends.
LEMMA CallStep ==
  ASSUME Inv, UNCHANGED frozen, Step \/ TrainNext \/ TrainReached
  PROVE  Inv'
<1>1. CallInv /\ WordsInv
  BY DEF Inv, Sound
<1>2. CASE Step
  <2>1. Store!Search
    BY <1>2, SameSearch DEF Step
  <2>2. CallInv'
    BY <1>1, <1>2, TrainerAssumption DEF Step, CallInv, Idle, Table!Search
  <2> QED BY <1>2, <2>1, <2>2, QuietStep DEF Step, Table!Search, SameWords, Store!StoreNext
<1>3. CASE TrainNext
  <2>1. Store!Search
    BY <1>3, SameSearch DEF TrainNext
  <2>2. call.target \in 0..MaxVocab /\ Len(vocab) \in Nat
    BY <1>1 DEF CallInv, WordsInv
  <2>3. CallInv'
    BY <1>1, <1>3, <2>2, TrainerAssumption DEF TrainNext, trainerVars, CallInv, Idle, Table!Search
  <2> QED BY <1>3, <2>1, <2>3, QuietStep
          DEF TrainNext, trainerVars, Table!Search, SameWords, Store!StoreNext
<1>4. CASE TrainReached
  <2>1. UNCHANGED Store!storeVars
    BY <1>4 DEF TrainReached, tableVars, Store!storeVars
  <2>2. CallInv'
    BY <1>1, <1>4, TrainerAssumption DEF TrainReached, tableVars, CallInv, Idle
  <2> QED BY <1>4, <2>1, <2>2, QuietStep DEF TrainReached, tableVars, SameWords
<1> QED BY <1>2, <1>3, <1>4

\* A candidate that is stale, a frontier that is rebuilt, a search that fails.
LEMMA SearchStep ==
  ASSUME Inv, UNCHANGED frozen, PopStale \/ Refill \/ Exhausted
  PROVE  Inv'
<1>1. CallInv /\ WordsInv
  BY DEF Inv, Sound
<1>2. CASE PopStale
  <2>1. PICK c \in heap : /\ HasFrozen(c.tp) \/ ~Table!Current(c)
                          /\ Table!Popped(c) /\ heap' = heap \ {c}
    BY <1>2 DEF PopStale
  <2>2. ~Table!Current(c)
    BY <2>1 DEF Table!Current, KeptOut, Inv
  <2>3. Store!PopStale(c)
    BY <1>2, <2>1, <2>2, SameSearch DEF PopStale, Store!PopStale
  <2>4. CallInv'
    BY <1>1, <1>2 DEF PopStale, trainerVars, CallInv, Idle
  <2>5. Store!StoreNext
    BY <2>3 DEF Store!StoreNext
  <2> QED BY <1>2, <2>4, <2>5, QuietStep DEF PopStale, trainerVars, SameWords
<1>3. CASE Refill
  <2>1. Store!Refill
    BY <1>3, SameSearch DEF Refill
  <2>2. CallInv'
    BY <1>1, <1>3 DEF Refill, trainerVars, CallInv, Idle, Table!Refill
  <2>3. Store!StoreNext
    BY <2>1 DEF Store!StoreNext
  <2> QED BY <1>3, <2>2, <2>3, QuietStep DEF Refill, trainerVars, SameWords, Table!Refill
<1>4. CASE Exhausted
  <2>1. Store!GiveUp
    BY <1>4, SameSearch DEF Exhausted
  <2>2. CallInv'
    BY <1>1, <1>4, TrainerAssumption DEF Exhausted, CallInv, Idle, Table!GiveUp
  <2>3. Store!StoreNext
    BY <2>1 DEF Store!StoreNext
  <2> QED BY <1>4, <2>2, <2>3, QuietStep DEF Exhausted, SameWords, Table!GiveUp
<1> QED BY <1>2, <1>3, <1>4

-----------------------------------------------------------------------------
(* The first inventory, and another one. *)

\* An inventory over some tokens is one over more tokens.
LEMMA InventoryGrows ==
  ASSUME NEW U, NEW V, U \subseteq V, NEW ws \in Inventory(U)
  PROVE  ws \in Inventory(V)
<1> DEFINE A == [idxs : Seq(U), freq : Nat \ {0}]
           B == [idxs : Seq(V), freq : Nat \ {0}]
<1>1. Seq(U) \subseteq Seq(V)
  OBVIOUS
<1>2. A \subseteq B /\ ws \in Seq(A)
  BY <1>1 DEF Inventory
<1> HIDE DEF A, B
<1>3. ws \in Seq(B)
  BY <1>2
<1> QED BY <1>3 DEF Inventory, B

\* Words of the base vocabulary are words of every later vocabulary.
LEMMA BaseWords ==
  ASSUME PositiveInventories, NEW inventory \in Inventories \cup Added,
         vocab \in Seq(Seq(Int)), Len(BaseVocab) <= Len(vocab),
         \A id \in DOMAIN BaseVocab : vocab[id] = BaseVocab[id]
  PROVE  inventory \in Inventory(Token) /\ DOMAIN inventory \subseteq WordId
<1> DEFINE base == Unit \cup {id \in DOMAIN BaseVocab : BaseVocab[id] # << >>}
<1>1. inventory \in Inventory(base)
  BY DEF PositiveInventories
<1>2. base \subseteq Token
  <2>1. DOMAIN BaseVocab = 1..Len(BaseVocab) /\ Len(BaseVocab) \in Nat
    BY TrainerAssumption
  <2>2. DOMAIN BaseVocab \subseteq DOMAIN vocab
    BY <2>1
  <2> QED BY <2>2 DEF Token
<1> HIDE DEF base
<1> QED BY <1>1, <1>2, InventoryGrows DEF WordId

\* A new trainer satisfies the invariant.
LEMMA InvInit == PositiveInventories /\ Init => Inv
<1> SUFFICES ASSUME PositiveInventories, Init PROVE Inv
  OBVIOUS
<1>1. BaseVocab \in Seq(Seq(Int)) /\ Len(BaseVocab) <= MaxVocab
  BY TrainerAssumption
<1>2. words \in Inventory(Token) /\ DOMAIN words \subseteq WordId
  BY <1>1, BaseWords DEF Init
<1>3. WordsInv
  BY <1>1, <1>2 DEF Init, WordsInv
<1>4. Store!StoreInit
  BY SameSearch DEF Init
<1>5. Store!FrontierInv
  BY <1>4, TableAssumptions, Store!FrontierInvInit
<1>6. Store!ResidencyAgrees
  BY <1>4 DEF Store!StoreInit, Store!ResidencyAgrees
<1>7. MergesInv /\ RarestInv /\ (adds = 0 => FinalMergeIsRarest)
  BY DEF Init, MergesInv, RarestInv, FinalMergeIsRarest, UnitsBeforePairs
<1>8. CallInv
  BY <1>4, TrainerAssumption DEF Init, CallInv, Idle, Store!StoreInit
<1>9. store = [tp \in {} |-> None] /\ merge = None /\ ready = FALSE
  BY <1>4 DEF Init, Store!StoreInit
<1>10. KeysInv /\ FreqInv /\ OccInv /\ HandleInv /\ ThresholdInv
  BY <1>9 DEF KeysInv, FreqInv, OccInv, HandleInv, ThresholdInv, Store!Live
<1>11. KeptOut
  BY <1>9 DEF KeptOut
<1> QED BY <1>3, <1>5, <1>6, <1>7, <1>8, <1>10, <1>11 DEF Inv, Sound

\* add_words: the table is stale until it is built again.
LEMMA AddWordsStep ==
  ASSUME PositiveInventories, Inv, NEW inventory \in Added, AddWords(inventory), UNCHANGED frozen
  PROVE  Inv'
<1>1. /\ words' = inventory /\ ready' = FALSE /\ adds' = adds + 1 /\ adds < MaxAdds
      /\ vocab' = vocab /\ merges' = merges /\ call' = call /\ frozen' = frozen
      /\ call = Idle /\ UNCHANGED tableVars
  BY DEF AddWords
<1>2. WordsInv /\ MergesInv /\ CallInv /\ KeysInv /\ HandleInv /\ ThresholdInv
  BY DEF Inv, Sound
<1>3. store' = store /\ merge' = merge /\ threshold' = threshold /\ phase' = phase
  BY <1>1 DEF tableVars
<1>4. Token' = Token /\ PairKeys' = PairKeys /\ UnitKeys' = UnitKeys
  BY <1>1, Zenon DEF Token, PairKeys, UnitKeys
<1>5. WordsInv'
  <2>1. inventory \in Inventory(Token) /\ DOMAIN inventory \subseteq WordId
    BY <1>2, BaseWords DEF WordsInv
  <2> QED BY <1>1, <1>2, <1>4, <2>1 DEF WordsInv
<1>6. adds' # 0
  BY <1>1, <1>2 DEF WordsInv
<1>7. MergesInv'
  <2>1. UnitsBeforePairs /\ vocab' = vocab /\ merges' = merges
    BY <1>1, <1>2 DEF MergesInv
  <2>2. ASSUME NEW r \in DOMAIN merges, NEW side \in {1, 2}
        PROVE  KnownBefore(TextOf(merges[r].tp[side]), merges[r].target)'
    <3>1. PICK i \in 1..merges[r].target - 1 : vocab[i] = TextOf(merges[r].tp[side])
      BY <2>1 DEF UnitsBeforePairs, KnownBefore
    <3>2. TextOf(merges[r].tp[side])' = TextOf(merges[r].tp[side])
      BY <2>1, Zenon DEF TextOf
    <3> QED BY <2>1, <3>1, <3>2, Zenon DEF KnownBefore
  <2>3. UnitsBeforePairs'
    BY <2>1, <2>2, Zenon DEF UnitsBeforePairs
  <2> QED BY <1>2, <1>4, <2>1, <2>3 DEF MergesInv
<1>8. CallInv'
  BY <1>1, <1>2, <1>3 DEF CallInv
<1>9. KeysInv'
  <2>1. \A tp : KeyContent(tp)' = KeyContent(tp)
    BY <1>1, Zenon DEF KeyContent, TextOf
  <2> QED BY <1>2, <1>3, <1>4, <2>1, Zenon DEF KeysInv
<1>10. FreqInv' /\ OccInv'
  BY <1>1 DEF FreqInv, OccInv
<1>11. HandleInv' /\ ThresholdInv'
  BY <1>2, <1>3, Zenon DEF HandleInv, ThresholdInv, Store!Bounded, Store!Live
<1>12. Store!FrontierInv' /\ Store!ResidencyAgrees'
  BY <1>1, TableStep DEF tableVars, Store!storeVars, Inv
<1>13. KeptOut'
  BY <1>1, <1>3, Zenon DEF KeptOut, HasFrozen, Inv
<1> QED BY <1>5, <1>6, <1>7, <1>8, <1>9, <1>10, <1>11, <1>12, <1>13 DEF Inv, Sound, RarestInv

-----------------------------------------------------------------------------
(* Building the table, and selecting a winner. *)

\* _build_pre_merges: every key gets its true frequency.
LEMMA BuildStep ==
  ASSUME Sound, UNCHANGED frozen,
         InitTraining \/ \E target \in 0..MaxVocab : TrainUntil(target)
  PROVE  Inv'
<1>1. BuildTable /\ ready' = TRUE /\ SameWords /\ UNCHANGED <<merges, adds>>
  BY DEF InitTraining, TrainUntil, SameWords
<1>2. WordsInv /\ CallInv
  BY DEF Sound
<1>3. Store!Build(Counted, Occurrences)
  BY <1>1, SameSearch DEF BuildTable
<1>4. Counted \in Store!Counted /\ Occurrences \in Store!Scans
  BY <1>2, RecountTypes
<1> DEFINE Built(counted, occOf) ==
         /\ DOMAIN store' = DOMAIN counted
         /\ \A tp \in DOMAIN counted :
              /\ store'[tp].freq = counted[tp].freq
              /\ store'[tp].content = counted[tp].content
              /\ tp \in Id \X Id =>
                   /\ store'[tp].occ \in {None, occOf[tp]}
                   /\ Store!Bounded \/ store'[tp].occ = occOf[tp]
                   /\ Store!Bounded /\ store'[tp].occ # None => counted[tp].freq > 0
         /\ Store!Bounded /\ threshold' = None => Store!Live(store') \cap (Id \X Id) = {}
         /\ UNCHANGED <<merge, phase>>
<1>5. Built(Counted, Occurrences)
  BY <1>3, <1>4, TableAssumptions, Store!BuildEntries
<1>6. merge = None /\ phase = "idle"
  <2>1. phase = "idle"
    BY <1>3 DEF Store!Build
  <2> QED BY <2>1 DEF Sound, Store!FrontierInv, Store!StoreTypeOK
<1>7. merge' = None /\ phase' = "idle"
  BY <1>5, <1>6
<1>8. CallInv'
  BY <1>1, <1>2, <1>7, TrainerAssumption
     DEF InitTraining, TrainUntil, CallInv, Idle, SameWords
<1>9. KeysInv'
  <2>1. \A tp \in DOMAIN store' :
          tp \in PairKeys \cup UnitKeys /\ store'[tp].content = KeyContent(tp)
    BY <1>2, <1>5, Recount
  <2> QED BY <1>1, <1>7, <2>1, SameWordsKeys DEF KeysInv
<1>10. FreqInv'
  <2> SUFFICES ASSUME NEW tp \in (PairKeys \cup UnitKeys)'
               PROVE  HeldFreq(tp)' = KeyFreq(tp)'
    BY DEF FreqInv
  <2>1. tp \in PairKeys \cup UnitKeys /\ KeyFreq(tp)' = KeyFreq(tp)
    BY <1>1, SameWordsKeys
  <2>2. HeldFreq(tp)' = IF tp \in DOMAIN store' THEN store'[tp].freq ELSE 0
    BY <1>7 DEF HeldFreq
  <2> QED BY <1>2, <1>5, <2>1, <2>2, Recount
<1>11. OccInv'
  <2> SUFFICES ASSUME NEW tp \in DOMAIN store' \cap (Id \X Id), store'[tp].occ # None
               PROVE  /\ store'[tp].occ \subseteq DOMAIN words'
                      /\ Occurrences'[tp] \subseteq store'[tp].occ
    BY <1>7 DEF OccInv, Covers
  <2>1. store'[tp].occ = Occurrences[tp]
    BY <1>5
  <2>2. Occurrences[tp] \subseteq DOMAIN words
    BY DEF Occurrences
  <2>3. words' = words /\ Occurrences' = Occurrences
    BY <1>1, SameWordsKeys DEF SameWords
  <2> QED BY <2>1, <2>2, <2>3
<1>12. HandleInv'
  <2> SUFFICES ASSUME NEW tp \in DOMAIN store' \cap (Id \X Id)
               PROVE  IF Store!Bounded THEN store'[tp].occ # None => store'[tp].freq > 0
                                       ELSE store'[tp].occ # None
    BY DEF HandleInv, Store!Bounded
  <2>1. Occurrences[tp] # None
    <3>1. Occurrences[tp] \in SUBSET WordId
      BY <1>4 DEF Store!Scans
    <3> QED BY <3>1, NoneIsNoValue
  <2> QED BY <1>5, <2>1
<1>13. ThresholdInv'
  BY <1>5, <1>7 DEF ThresholdInv, Store!Bounded, Store!Live
<1>14. Store!StoreNext
  BY <1>3, <1>4 DEF Store!StoreNext
<1>15. KeptOut'
  <2> SUFFICES ASSUME NEW tp \in DOMAIN store' PROVE ~HasFrozen(tp)'
    BY DEF KeptOut
  <2>1. tp \in DOMAIN Counted
    BY <1>5
  <2>2. ~HasFrozen(tp)
    BY <1>2, <2>1, CountedKeptOut
  <2> QED BY <1>1, <2>2 DEF HasFrozen, SameWords
<1> QED BY <1>1, <1>8, <1>9, <1>10, <1>11, <1>12, <1>13, <1>14, <1>15, SameWordsInv, TableStep
        DEF Inv, Sound

\* The winner leaves the table with its true frequency and, if it is a pair,
\* with words that cover all its occurrences.
LEMMA SelectStep ==
  ASSUME Inv, UNCHANGED frozen, Select
  PROVE  Inv'
<1>1. PICK c \in heap : Table!Select(c, Occurrences)
  BY DEF Select
<1>2. Store!Select(c, Occurrences)
  BY <1>1, SameSearch
<1>3. UNCHANGED trainerVars /\ SameWords /\ UNCHANGED <<merges, adds, ready, call>>
  BY DEF Select, trainerVars, SameWords
<1>4. /\ WordsInv /\ CallInv /\ KeysInv /\ FreqInv /\ OccInv /\ HandleInv /\ ThresholdInv
      /\ Store!StoreTypeOK
  BY DEF Inv, Sound, Store!FrontierInv
<1>5. Occurrences \in Store!Scans
  BY <1>4, RecountTypes
<1> DEFINE Selected(occOf) ==
         /\ c.tp \in DOMAIN store /\ c.freq > 0 /\ Store!CandIn(store, c.tp) = c
         /\ DOMAIN store' = DOMAIN store \ {c.tp}
         /\ \A tp \in DOMAIN store' :
              /\ store'[tp].freq = store[tp].freq
              /\ store'[tp].content = store[tp].content
              /\ \/ store'[tp].occ = store[tp].occ
                 \/ /\ Store!Bounded /\ tp \in Id \X Id /\ store[tp].freq > 0
                    /\ store'[tp].occ = occOf[tp]
         /\ phase' = "merge" /\ merge'.tp = c.tp
         /\ merge'.freq = c.freq /\ merge'.content = c.content
         /\ c.tp \in Id \X Id =>
              \/ store[c.tp].occ = None /\ merge'.occ = {} /\ ~Store!Bounded
              \/ store[c.tp].occ = None /\ merge'.occ = occOf[c.tp] /\ threshold' # None
              \/ store[c.tp].occ # None /\ merge'.occ = store[c.tp].occ
         /\ threshold' = threshold \/ threshold' # None
<1>6. Selected(Occurrences)
  BY <1>2, <1>4, <1>5, TableAssumptions, Store!SelectEntries
<1>7. store[c.tp].freq = c.freq /\ store[c.tp].content = c.content
  BY <1>6 DEF Store!CandIn
<1>8. Store!StoreNext
  BY <1>2, <1>5 DEF Store!StoreNext
<1>9. Store!FrontierInv' /\ Store!ResidencyAgrees'
  BY <1>8, TableStep DEF Inv
<1>10. merge' # None
  BY <1>6, <1>9 DEF Store!FrontierInv, Store!StoreTypeOK
<1>11. phase = "search" /\ call # Idle /\ ready /\ Len(vocab) < MaxVocab
  BY <1>2, <1>4 DEF Store!Select, CallInv
<1>12. CallInv'
  BY <1>3, <1>4, <1>11 DEF CallInv, SameWords
<1>13. KeysInv'
  <2>1. c.tp \in PairKeys \cup UnitKeys /\ c.content = KeyContent(c.tp)
    BY <1>4, <1>6, <1>7 DEF KeysInv
  <2>2. \A tp \in DOMAIN store' :
          tp \in PairKeys \cup UnitKeys /\ store'[tp].content = KeyContent(tp)
    BY <1>4, <1>6 DEF KeysInv
  <2> HIDE DEF Selected
  <2>3. /\ merge'.tp \in (PairKeys \cup UnitKeys) \ DOMAIN store'
        /\ merge'.content = KeyContent(merge'.tp)
        /\ merge'.freq > 0
    BY <1>6, <2>1 DEF Selected
  <2>4. KeyContent(merge'.tp) = KeyContent(merge.tp)'
    BY <1>3, Zenon DEF KeyContent, TextOf, SameWords
  <2> QED BY <1>3, <2>2, <2>3, <2>4, SameWordsKeys DEF KeysInv
<1>14. FreqInv'
  <2> SUFFICES ASSUME NEW tp \in (PairKeys \cup UnitKeys)'
               PROVE  HeldFreq(tp)' = KeyFreq(tp)'
    BY DEF FreqInv
  <2>1. tp \in PairKeys \cup UnitKeys /\ KeyFreq(tp)' = KeyFreq(tp)
    BY <1>3, SameWordsKeys
  <2>2. merge = None
    BY <1>4, <1>11 DEF Store!StoreTypeOK
  <2>3. HeldFreq(tp) = IF tp \in DOMAIN store THEN store[tp].freq ELSE 0
    BY <2>2 DEF HeldFreq
  <2>4. HeldFreq(tp)' = IF tp = c.tp THEN c.freq
                        ELSE IF tp \in DOMAIN store' THEN store'[tp].freq ELSE 0
    BY <1>6, <1>10 DEF HeldFreq
  <2>5. HeldFreq(tp)' = HeldFreq(tp)
    BY <1>6, <1>7, <2>3, <2>4
  <2> QED BY <1>4, <1>11, <2>1, <2>5 DEF FreqInv
<1>15. OccInv'
  <2>1. words' = words /\ Occurrences' = Occurrences
    BY <1>3, SameWordsKeys DEF SameWords
  <2>2. \A tp \in Id \X Id : Occurrences[tp] \subseteq DOMAIN words
    BY DEF Occurrences
  <2>3. \A tp \in DOMAIN store \cap (Id \X Id) :
          store[tp].occ # None =>
            store[tp].occ \subseteq DOMAIN words /\ Occurrences[tp] \subseteq store[tp].occ
    BY <1>4, <1>11 DEF OccInv, Covers
  <2>4. ASSUME NEW tp \in DOMAIN store' \cap (Id \X Id), store'[tp].occ # None
        PROVE  /\ store'[tp].occ \subseteq DOMAIN words
               /\ Occurrences[tp] \subseteq store'[tp].occ
    BY <1>6, <2>2, <2>3, <2>4
  <2>5. ASSUME c.tp \in Id \X Id
        PROVE  merge'.occ \subseteq DOMAIN words /\ Occurrences[c.tp] \subseteq merge'.occ
    <3>1. store[c.tp].occ = None => Store!Bounded
      BY <1>4, <1>6, <2>5 DEF HandleInv
    <3> QED BY <1>6, <2>2, <2>3, <2>5, <3>1
  <2> QED BY <1>6, <2>1, <2>4, <2>5 DEF OccInv, Covers
<1>16. HandleInv'
  <2> SUFFICES ASSUME NEW tp \in DOMAIN store' \cap (Id \X Id)
               PROVE  IF Store!Bounded THEN store'[tp].occ # None => store'[tp].freq > 0
                                       ELSE store'[tp].occ # None
    BY DEF HandleInv, Store!Bounded
  <2> QED BY <1>4, <1>6 DEF HandleInv
<1>17. ThresholdInv'
  <2> SUFFICES ASSUME Store!Bounded, threshold' = None
               PROVE  /\ Store!Live(store') \cap (Id \X Id) = {}
                      /\ merge'.tp \notin Id \X Id
    BY DEF ThresholdInv, Store!Bounded, Store!Live
  <2>1. threshold = None /\ Store!Live(store) \cap (Id \X Id) = {}
    BY <1>4, <1>6 DEF ThresholdInv
  <2>2. Store!Live(store') \subseteq Store!Live(store) /\ c.tp \in Store!Live(store)
    BY <1>6, <1>7 DEF Store!Live
  <2> QED BY <1>6, <2>1, <2>2
<1>18. KeptOut'
  BY <1>3, <1>6 DEF KeptOut, HasFrozen, SameWords, Inv
<1> QED BY <1>3, <1>9, <1>12, <1>13, <1>14, <1>15, <1>16, <1>17, <1>18, SameWordsInv DEF Inv, Sound

\* The held merge has its true frequency.
LEMMA MergeFreq ==
  ASSUME Inv, phase = "merge"
  PROVE  /\ ready /\ merge # None /\ Len(vocab) < MaxVocab
         /\ merge.freq = KeyFreq(merge.tp) /\ merge.freq > 0 /\ merge.freq \in Int
         /\ merge.content = KeyContent(merge.tp)
         /\ merge.tp \in PairKeys \cup UnitKeys /\ merge.tp \notin DOMAIN store
         /\ Store!Winner \in Store!Candidate
<1>1. /\ WordsInv /\ CallInv /\ KeysInv /\ FreqInv /\ Store!StoreTypeOK
  BY DEF Inv, Sound, Store!FrontierInv
<1>2. ready /\ merge # None /\ Len(vocab) < MaxVocab
  BY <1>1 DEF CallInv, Store!StoreTypeOK
<1>3. /\ merge.tp \in PairKeys \cup UnitKeys /\ merge.freq > 0 /\ merge.tp \notin DOMAIN store
      /\ merge.content = KeyContent(merge.tp)
  BY <1>1, <1>2 DEF KeysInv
<1>4. HeldFreq(merge.tp) = merge.freq
  BY <1>2 DEF HeldFreq
<1>5. Store!Winner \in Store!Candidate /\ merge.freq \in Int
  BY <1>1, <1>2 DEF Store!StoreTypeOK, Store!Winner, Store!Candidate
<1> QED BY <1>1, <1>2, <1>3, <1>4, <1>5 DEF FreqInv

\* It is no frozen scalar and has none.
LEMMA MergeKeptOut ==
  ASSUME Inv, phase = "merge"
  PROVE  ~HasFrozen(merge.tp)
<1>1. WordsInv /\ merge.tp \in PairKeys \cup UnitKeys /\ KeyFreq(merge.tp) > 0
  BY MergeFreq DEF Inv, Sound
<1>2. CASE merge.tp \in PairKeys
  <2>1. merge.tp[1] # Sentinel
    BY <1>1, <1>2, KeyTypes
  <2> QED BY <1>1, <2>1 DEF KeyFreq
<1>3. CASE merge.tp \in UnitKeys
  <2>1. merge.tp[1] = Sentinel
    BY <1>3 DEF UnitKeys
  <2>2. merge.tp[2] \notin frozen
    BY <1>1, <2>1 DEF KeyFreq, Unmaterialized
  <2>3. Sentinel \notin frozen
    BY <1>1, Keys DEF WordsInv, Id
  <2> QED BY <2>1, <2>2, <2>3 DEF HasFrozen
<1> QED BY <1>1, <1>2, <1>3

\* A declined pair goes back with all it was taken out with.
LEMMA DeclineStep ==
  ASSUME Inv, UNCHANGED frozen, StopAtCutoff
  PROVE  Inv'
<1>1. Store!Decline /\ call' = Idle /\ SameWords /\ UNCHANGED <<merges, adds, ready>>
  BY SameMerge DEF StopAtCutoff, SameWords
<1>2. /\ WordsInv /\ CallInv /\ KeysInv /\ FreqInv /\ OccInv /\ HandleInv /\ ThresholdInv
      /\ Store!StoreTypeOK
  BY DEF Inv, Sound, Store!FrontierInv
<1>3. phase = "merge" /\ merge # None /\ merge.tp \in Id \X Id /\ call # Idle /\ ready
  BY <1>1, <1>2 DEF Store!Decline, Store!StoreTypeOK, CallInv
<1>4. /\ merge' = None /\ phase' = "idle" /\ threshold' = threshold
      /\ DOMAIN store' = DOMAIN store \cup {merge.tp}
      /\ store'[merge.tp] = [content |-> merge.content, freq |-> merge.freq, occ |-> merge.occ]
      /\ \A tp \in DOMAIN store : store'[tp] = store[tp]
  BY <1>1, <1>2, <1>3 DEF Store!Decline, Store!Restored, KeysInv
<1>5. Store!StoreNext
  BY <1>1 DEF Store!StoreNext
<1>6. Store!FrontierInv' /\ Store!ResidencyAgrees'
  BY <1>5, TableStep DEF Inv
<1>7. CallInv'
  BY <1>1, <1>2, <1>4, TrainerAssumption DEF CallInv, Idle, SameWords
<1>8. KeysInv'
  <2>1. \A tp \in DOMAIN store' :
          tp \in PairKeys \cup UnitKeys /\ store'[tp].content = KeyContent(tp)
    BY <1>2, <1>3, <1>4 DEF KeysInv
  <2> QED BY <1>1, <1>4, <2>1, SameWordsKeys DEF KeysInv
<1>9. FreqInv'
  <2> SUFFICES ASSUME NEW tp \in (PairKeys \cup UnitKeys)'
               PROVE  HeldFreq(tp)' = KeyFreq(tp)'
    BY <1>1, <1>3 DEF FreqInv
  <2>1. tp \in PairKeys \cup UnitKeys /\ KeyFreq(tp)' = KeyFreq(tp)
    BY <1>1, SameWordsKeys
  <2>2. HeldFreq(tp)' = HeldFreq(tp)
    BY <1>2, <1>3, <1>4 DEF HeldFreq, KeysInv
  <2> QED BY <1>2, <1>3, <2>1, <2>2 DEF FreqInv
<1>10. OccInv'
  <2>1. words' = words /\ Occurrences' = Occurrences
    BY <1>1, SameWordsKeys DEF SameWords
  <2>2. ASSUME NEW tp \in DOMAIN store' \cap (Id \X Id), store'[tp].occ # None
        PROVE  /\ store'[tp].occ \subseteq DOMAIN words
               /\ Occurrences[tp] \subseteq store'[tp].occ
    BY <1>2, <1>3, <1>4, <2>2 DEF OccInv, Covers
  <2> QED BY <1>4, <2>1, <2>2 DEF OccInv, Covers
<1>11. HandleInv'
  <2> SUFFICES ASSUME NEW tp \in DOMAIN store' \cap (Id \X Id)
               PROVE  IF Store!Bounded THEN store'[tp].occ # None => store'[tp].freq > 0
                                       ELSE store'[tp].occ # None
    BY DEF HandleInv, Store!Bounded
  <2>1. CASE tp # merge.tp
    BY <1>2, <1>4, <2>1 DEF HandleInv
  <2>2. CASE tp = merge.tp
    <3>1. merge.occ \in SUBSET WordId
      BY <1>2, <1>3 DEF Store!StoreTypeOK
    <3>2. merge.occ # None
      BY <3>1, NoneIsNoValue
    <3> QED BY <1>2, <1>3, <1>4, <2>2, <3>2 DEF KeysInv
  <2> QED BY <2>1, <2>2
<1>12. ThresholdInv'
  BY <1>2, <1>3, <1>4 DEF ThresholdInv, Store!Bounded
<1>13. KeptOut'
  <2>1. ~HasFrozen(merge.tp)
    BY <1>3, MergeKeptOut
  <2> QED BY <1>1, <1>4, <2>1 DEF KeptOut, HasFrozen, SameWords, Inv
<1> QED BY <1>1, <1>6, <1>7, <1>8, <1>9, <1>10, <1>11, <1>12, <1>13, SameWordsInv DEF Inv, Sound

-----------------------------------------------------------------------------
(* Learning. *)

\* What a new vocabulary entry leaves alone and what it adds.
LEMMA NewEntry ==
  ASSUME WordsInv, Len(vocab) < MaxVocab, NEW text \in Seq(Int), text # << >>,
         vocab' = Append(vocab, text)
  PROVE  /\ vocab' \in Seq(Seq(Int)) /\ Len(vocab') = Len(vocab) + 1
         /\ DOMAIN vocab \subseteq DOMAIN vocab' /\ NewId \in DOMAIN vocab'
         /\ \A id \in DOMAIN vocab : vocab'[id] = vocab[id]
         /\ vocab'[NewId] = text
         /\ Token' = Token \cup {NewId}
         /\ NewId \in Id
         /\ \A id \in Token : TextOf(id)' = TextOf(id)
         /\ \A n : n = NewId => TextOf(n)' = text
         /\ Elements(vocab') = Elements(vocab) \cup {text}
         /\ PairKeys \subseteq PairKeys' /\ UnitKeys' = UnitKeys
         /\ \A tp \in PairKeys \cup UnitKeys : KeyContent(tp)' = KeyContent(tp)
         /\ \A tp \in PairKeys' : tp[1] = NewId \/ tp[2] = NewId \/ tp \in PairKeys
         /\ \A tp \in PairKeys' : tp \in Id \X Id /\ tp[1] # Sentinel /\ tp \notin UnitKeys
<1>1. vocab \in Seq(Seq(Int)) /\ Len(vocab) \in Nat /\ DOMAIN vocab = 1..Len(vocab)
  BY DEF WordsInv
<1>2. /\ vocab' \in Seq(Seq(Int)) /\ Len(vocab') = Len(vocab) + 1
      /\ \A id \in 1..Len(vocab) : vocab'[id] = vocab[id]
      /\ vocab'[NewId] = text
      /\ DOMAIN vocab' = 1..(Len(vocab) + 1)
  BY <1>1 DEF NewId
<1>3. DOMAIN vocab \subseteq DOMAIN vocab' /\ NewId \in DOMAIN vocab'
      /\ DOMAIN vocab' = DOMAIN vocab \cup {NewId} /\ NewId \notin DOMAIN vocab
  BY <1>1, <1>2 DEF NewId
<1>4. NewId \notin Unit /\ NewId \notin Token /\ Sentinel \notin Token
  BY Tokens
<1>5. Token' = Token \cup {NewId}
  BY <1>1, <1>2, <1>3 DEF Token
<1>6. ASSUME NEW id \in Token PROVE TextOf(id)' = TextOf(id)
  BY <1>1, <1>2 DEF TextOf, Token
<1>7. \A n : n = NewId => TextOf(n)' = text
  BY <1>2, <1>4 DEF TextOf
<1>8. Elements(vocab') = Elements(vocab) \cup {text}
  BY <1>1, <1>2, <1>3 DEF Elements
<1>9. PairKeys \subseteq PairKeys' /\ UnitKeys' = UnitKeys
  BY <1>5 DEF PairKeys, UnitKeys
<1>10. ASSUME NEW tp \in PairKeys PROVE KeyContent(tp)' = KeyContent(tp)
  <2>1. tp[1] \in Token /\ tp[2] \in Token
    BY DEF PairKeys
  <2> QED BY <1>6, <2>1 DEF KeyContent
<1>11. ASSUME NEW tp \in UnitKeys PROVE KeyContent(tp)' = KeyContent(tp)
  BY DEF KeyContent, UnitKeys
<1>12. \A tp \in PairKeys' : tp[1] = NewId \/ tp[2] = NewId \/ tp \in PairKeys
  BY <1>5 DEF PairKeys
<1>13. NewId \in Id
  BY <1>1, TrainerAssumption DEF NewId, Id
<1>14. \A tp \in PairKeys' : tp \in Id \X Id /\ tp[1] # Sentinel /\ tp \notin UnitKeys
  <2>1. Token' \subseteq Id
    BY <1>5, <1>13, Tokens
  <2> QED BY <2>1, Keys DEF PairKeys, UnitKeys
<1> QED BY <1>1, <1>2, <1>3, <1>5, <1>6, <1>7, <1>8, <1>9, <1>10, <1>11, <1>12, <1>13, <1>14

\* What a learned merge is made of.
LEMMA MergeTypes ==
  ASSUME MergesInv, NEW r \in DOMAIN merges
  PROVE  /\ merges[r].tp \in PairKeys /\ merges[r].target \in DOMAIN vocab
         /\ merges[r].freq \in Nat
<1> DEFINE A == [tp : PairKeys, target : DOMAIN vocab, freq : Nat]
<1>1. merges \in Seq(A)
  BY DEF MergesInv
<1>2. merges[r] \in A
  <2> HIDE DEF A
  <2> QED BY <1>1
<1> QED BY <1>2

\* What was known before a token stays known.
LEMMA StillKnown ==
  ASSUME WordsInv, Len(vocab) < MaxVocab, NEW text \in Seq(Int), text # << >>,
         vocab' = Append(vocab, text), NEW id \in Token, NEW target \in DOMAIN vocab,
         KnownBefore(TextOf(id), target)
  PROVE  \E i \in 1..target - 1 : vocab'[i] = TextOf(id)'
<1>1. PICK i \in 1..target - 1 : vocab[i] = TextOf(id)
  BY DEF KnownBefore
<1>2. i \in DOMAIN vocab
  BY Tokens
<1> QED BY <1>1, <1>2, NewEntry

\* No key is more frequent than the merge, and no unit is as frequent as a
\* merge that is a pair ("exact winner selection").
LEMMA MergeIsBest ==
  ASSUME Inv, phase = "merge", NEW tp \in PairKeys \cup UnitKeys
  PROVE  /\ KeyFreq(tp) \in Nat /\ KeyFreq(tp) <= merge.freq
         /\ merge.tp \in PairKeys /\ tp \in UnitKeys => KeyFreq(tp) < merge.freq
<1>1. /\ WordsInv /\ KeysInv /\ FreqInv /\ Store!WinnerIsGlobal /\ Store!StoreTypeOK
  BY DEF Inv, Sound, Store!FrontierInv
<1>2. KeyFreq(tp) \in Nat /\ KeyFreq(tp) = HeldFreq(tp)
  BY <1>1, MergeFreq, Recount DEF FreqInv
<1>3. CASE tp = merge.tp
  BY <1>1, <1>2, <1>3, MergeFreq, KeyTypes
<1>4. CASE tp # merge.tp /\ ~(HeldFreq(tp) > 0)
  BY <1>2, <1>4, MergeFreq
<1>5. CASE tp # merge.tp /\ HeldFreq(tp) > 0
  <2>1. tp \in DOMAIN store /\ store[tp].freq = HeldFreq(tp)
    BY <1>5 DEF HeldFreq
  <2>2. tp \in Store!Live(store)
    BY <1>5, <2>1 DEF Store!Live
  <2>3. ~Store!Less(Store!Winner, Store!CandIn(store, tp))
    BY <1>1, <2>2, MergeFreq DEF Store!WinnerIsGlobal
  <2>4. ~(merge.freq < HeldFreq(tp))
    BY <2>1, <2>3 DEF Store!Less, Store!Winner, Store!CandIn
  <2>5. merge.tp \in Id \X Id /\ tp \in UnitKeys => merge.freq # HeldFreq(tp)
    BY <2>1, <2>3 DEF Store!Less, Store!Winner, Store!CandIn, UnitKeys
  <2> QED BY <1>1, <1>2, <2>4, <2>5, MergeFreq, KeyTypes
<1> QED BY <1>3, <1>4, <1>5

\* The operands of a selected pair have a vocabulary entry: a scalar without
\* one is at least as frequent as any pair it is in, and wins the tie.
LEMMA OperandsKnown ==
  ASSUME Inv, phase = "merge", merge.tp \in PairKeys, NEW side \in {1, 2}
  PROVE  /\ merge.tp[side] \in Token
         /\ \E i \in DOMAIN vocab : vocab[i] = TextOf(merge.tp[side])
<1> DEFINE u == merge.tp[side]
<1>1. WordsInv
  BY DEF Inv, Sound
<1>2. u \in Token
  BY DEF PairKeys
<1>3. CASE u \notin Unit
  BY <1>2, <1>3 DEF Token, TextOf
<1>4. CASE u \in Unit /\ <<u>> \in Elements(vocab)
  <2>1. PICK i \in DOMAIN vocab : vocab[i] = <<u>>
    BY <1>4 DEF Elements
  <2>2. TextOf(u) = <<u>>
    BY <1>4 DEF TextOf
  <2> QED BY <1>2, <2>1, <2>2
<1>5. CASE u \in Unit /\ <<u>> \notin Elements(vocab)
  <2>0. ~HasFrozen(merge.tp)
    BY MergeKeptOut
  <2>1. KeyFreq(merge.tp) = WeightedPairs(merge.tp) /\ merge.freq = WeightedPairs(merge.tp)
        /\ merge.freq > 0
    BY <1>1, <2>0, MergeFreq, KeyTypes DEF KeyFreq
  <2>2. words \in Inventory(Token)
    BY <1>1 DEF WordsInv
  <2>3. PairSum(words, merge.tp) <= UnitSum(words, u)
    BY <2>2, PairWeighsLess
  <2>4. WeightedPairs(merge.tp) <= WeightedUnits(u) /\ WeightedUnits(u) > 0
    BY <1>1, <2>1, <2>3, WordKeys
  <2>5. u \in Unmaterialized
    BY <1>1, <1>5, <2>0, <2>4, WordKeys DEF Unmaterialized, HasFrozen
  <2>6. <<Sentinel, u>> \in UnitKeys /\ KeyFreq(<<Sentinel, u>>) = WeightedUnits(u)
    BY <1>5, <2>5 DEF UnitKeys, KeyFreq
  <2>7. KeyFreq(<<Sentinel, u>>) < merge.freq
    BY <2>6, MergeIsBest
  <2> QED BY <1>1, <2>1, <2>4, <2>6, <2>7, WordKeys
<1> QED BY <1>2, <1>3, <1>4, <1>5

\* Merges that were learned stay typed and known when the vocabulary grows.
LEMMA MergesKept ==
  ASSUME WordsInv, MergesInv, Len(vocab) < MaxVocab, NEW text \in Seq(Int), text # << >>,
         vocab' = Append(vocab, text)
  PROVE  /\ merges \in Seq([tp : PairKeys', target : DOMAIN vocab', freq : Nat])
         /\ \A r \in DOMAIN merges : \A side \in {1, 2} : \A id :
              id = merges[r].tp[side] =>
                \E i \in 1..merges[r].target - 1 : vocab'[i] = TextOf(id)'
<1> DEFINE A == [tp : PairKeys, target : DOMAIN vocab, freq : Nat]
           B == [tp : PairKeys', target : DOMAIN vocab', freq : Nat]
<1>1. A \subseteq B
  BY NewEntry
<1>2. merges \in Seq(A)
  BY DEF MergesInv
<1>3. merges \in Seq(B)
  <2> HIDE DEF A, B
  <2> QED BY <1>1, <1>2
<1>4. ASSUME NEW r \in DOMAIN merges, NEW side \in {1, 2}, NEW id, id = merges[r].tp[side]
      PROVE  \E i \in 1..merges[r].target - 1 : vocab'[i] = TextOf(id)'
  <2>1. id \in Token /\ merges[r].target \in DOMAIN vocab
    BY <1>4, MergeTypes DEF PairKeys
  <2>2. KnownBefore(TextOf(id), merges[r].target)
    BY <1>4 DEF MergesInv, UnitsBeforePairs
  <2> QED BY <2>1, <2>2, StillKnown
<1> QED BY <1>3, <1>4

\* A selected unit gets a vocabulary entry and is no key any more.
LEMMA LearnUnitStep ==
  ASSUME Inv, UNCHANGED frozen, LearnUnit
  PROVE  Inv'
<1>1. /\ Store!ApplyUnit /\ vocab' = Append(vocab, merge.content[2]) /\ AfterEvent
      /\ words' = words /\ merges' = merges /\ ready' = ready /\ adds' = adds
      /\ frozen' = frozen
  BY SameSearch DEF LearnUnit
<1>2. /\ WordsInv /\ MergesInv /\ CallInv /\ KeysInv /\ FreqInv /\ OccInv /\ HandleInv
      /\ ThresholdInv /\ RarestInv /\ (adds = 0 => FinalMergeIsRarest)
      /\ Store!StoreTypeOK /\ KeptOut
  BY DEF Inv, Sound, Store!FrontierInv
<1>3. /\ phase = "merge" /\ merge.tp \in UnitKeys /\ merge' = None /\ phase' = "idle"
      /\ store' = store /\ threshold' = threshold
  BY <1>1 DEF Store!ApplyUnit, UnitKeys
<1> DEFINE u == merge.tp[2]
           text == <<u>>
<1>4. /\ merge.tp = <<Sentinel, u>> /\ u \in Unit /\ u \in Int
      /\ merge.content[2] = text /\ text \in Seq(Int) /\ text # << >>
  <2>1. merge.tp = <<Sentinel, u>> /\ merge.tp[1] = Sentinel /\ u \in Unit
    BY <1>3 DEF UnitKeys
  <2>2. u \in Int
    BY <2>1, TrainerAssumption
  <2>3. merge.content = << << >>, <<u>> >>
    BY <1>3, <2>1, MergeFreq DEF KeyContent
  <2>4. <<u>> \in Seq(Int) /\ <<u>> # << >>
    BY <2>2
  <2> QED BY <2>1, <2>2, <2>3, <2>4
<1>5. ready /\ Len(vocab) < MaxVocab /\ vocab' = Append(vocab, text) /\ merge # None
      /\ merge.tp \notin DOMAIN store /\ call # Idle
  BY <1>1, <1>2, <1>3, <1>4, MergeFreq DEF CallInv
<1> HIDE DEF text
<1>6. WordsInv'
  <2>1. words \in Inventory(Token')
    BY <1>2, <1>4, <1>5, NewEntry, InventoryGrows DEF WordsInv
  <2>2. /\ vocab' \in Seq(Seq(Int)) /\ Len(vocab') = Len(vocab) + 1
        /\ DOMAIN vocab = 1..Len(vocab)
        /\ \A id \in DOMAIN vocab : vocab'[id] = vocab[id]
    BY <1>2, <1>4, <1>5, NewEntry, Tokens
  <2>3. Len(BaseVocab) \in Nat /\ DOMAIN BaseVocab = 1..Len(BaseVocab) /\ Len(vocab) \in Nat
        /\ MaxVocab \in Nat
    BY <1>2, TrainerAssumption DEF WordsInv
  <2> QED BY <1>1, <1>2, <1>5, <2>1, <2>2, <2>3 DEF WordsInv
<1>7. MergesInv'
  <2>1. merges' \in Seq([tp : PairKeys', target : DOMAIN vocab', freq : Nat])
    BY <1>1, <1>2, <1>4, <1>5, MergesKept
  <2>2. \A r \in DOMAIN merges : \A side \in {1, 2} : \A id :
          id = merges[r].tp[side] =>
            \E i \in 1..merges[r].target - 1 : vocab'[i] = TextOf(id)'
    BY <1>2, <1>4, <1>5, MergesKept
  <2>3. \A r \in DOMAIN merges' : \A side \in {1, 2} :
          \E i \in 1..merges'[r].target - 1 : vocab'[i] = TextOf(merges[r].tp[side])'
    BY <1>1, <2>2
  <2> QED BY <2>1, <2>3 DEF MergesInv, UnitsBeforePairs, KnownBefore
<1>8. CallInv'
  BY <1>1, <1>2, <1>3, <1>5, TrainerAssumption DEF CallInv, Idle, AfterEvent
<1>9. KeysInv'
  <2>1. \A tp \in PairKeys \cup UnitKeys :
          tp \in PairKeys' \cup UnitKeys' /\ KeyContent(tp)' = KeyContent(tp)
    BY <1>2, <1>4, <1>5, NewEntry
  <2>2. \A tp \in DOMAIN store :
          tp \in PairKeys \cup UnitKeys /\ store[tp].content = KeyContent(tp)
    BY <1>2 DEF KeysInv
  <2> QED BY <1>3, <2>1, <2>2 DEF KeysInv
<1>10. \A tp : WeightedPairs(tp)' = WeightedPairs(tp)
  BY <1>1, Zenon DEF WeightedPairs
<1>11. \A tp \in PairKeys' : tp \notin PairKeys => WeightedPairs(tp) = 0 /\ tp \notin DOMAIN store
  <2> SUFFICES ASSUME NEW tp \in PairKeys', tp \notin PairKeys
               PROVE  WeightedPairs(tp) = 0 /\ tp \notin DOMAIN store
    OBVIOUS
  <2>1. ~(WeightedPairs(tp) > 0) /\ WeightedPairs(tp) \in Nat
    BY <1>2, WordKeys
  <2>2. tp \notin UnitKeys
    BY <1>2, <1>4, <1>5, NewEntry
  <2> QED BY <1>2, <2>1, <2>2 DEF KeysInv
<1>12. FreqInv'
  <2> SUFFICES ASSUME NEW tp \in (PairKeys \cup UnitKeys)'
               PROVE  HeldFreq(tp)' = KeyFreq(tp)'
    BY DEF FreqInv
  <2>1. HeldFreq(tp)' = IF tp \in DOMAIN store THEN store[tp].freq ELSE 0
    BY <1>3 DEF HeldFreq
  <2>2. CASE tp \in PairKeys
    <3>1. tp # merge.tp /\ tp[1] # Sentinel
      BY <1>2, <1>3, <2>2, KeyTypes
    <3>2. HeldFreq(tp)' = HeldFreq(tp)
      BY <2>1, <3>1 DEF HeldFreq
    <3>3. KeyFreq(tp)' = KeyFreq(tp)
      BY <1>1, <1>10, <3>1 DEF KeyFreq, HasFrozen
    <3> QED BY <1>2, <1>5, <2>2, <3>2, <3>3 DEF FreqInv
  <2>3. CASE tp \in PairKeys' /\ tp \notin PairKeys
    <3>1. tp[1] # Sentinel
      BY <1>2, <1>4, <1>5, <2>3, NewEntry
    <3> QED BY <1>10, <1>11, <2>1, <2>3, <3>1 DEF KeyFreq
  <2>4. CASE tp \in UnitKeys
    <3>1. tp = <<Sentinel, tp[2]>> /\ tp[1] = Sentinel /\ tp[2] \in Unit
      BY <2>4 DEF UnitKeys
    <3>2. KeyFreq(tp)' = IF tp[2] \in Unmaterialized' THEN WeightedUnits(tp[2])' ELSE 0
      BY <3>1 DEF KeyFreq
    <3>3. WeightedUnits(tp[2])' = WeightedUnits(tp[2])
      BY <1>1, Zenon DEF WeightedUnits
    <3>4. Elements(vocab') = Elements(vocab) \cup {text}
      BY <1>2, <1>4, <1>5, NewEntry
    <3>5. CASE tp = merge.tp
      <4>1. <<tp[2]>> \in Elements(vocab')
        BY <1>4, <3>4, <3>5 DEF text
      <4>2. tp[2] \notin Unmaterialized'
        BY <4>1 DEF Unmaterialized
      <4> QED BY <1>5, <2>1, <3>2, <3>5, <4>2
    <3>6. CASE tp # merge.tp
      <4>1. tp[2] # u
        BY <1>4, <3>1, <3>6
      <4>2. <<tp[2]>> # text
        BY <4>1 DEF text
      <4>3. tp[2] \in Unmaterialized' <=> tp[2] \in Unmaterialized
        BY <1>1, <3>4, <4>2 DEF Unmaterialized
      <4>4. HeldFreq(tp)' = HeldFreq(tp)
        BY <2>1, <3>6 DEF HeldFreq
      <4>5. KeyFreq(tp)' = KeyFreq(tp)
        BY <3>1, <3>2, <3>3, <4>3 DEF KeyFreq
      <4> QED BY <1>2, <1>5, <2>4, <4>4, <4>5 DEF FreqInv
    <3> QED BY <3>5, <3>6
  <2>5. UnitKeys' = UnitKeys
    BY DEF UnitKeys
  <2> QED BY <2>2, <2>3, <2>4, <2>5
<1>13. OccInv'
  <2>1. Occurrences' = Occurrences
    BY <1>1, Zenon DEF Occurrences
  <2> QED BY <1>1, <1>2, <1>3, <1>5, <2>1 DEF OccInv, Covers
<1>14. HandleInv' /\ ThresholdInv'
  BY <1>2, <1>3, Zenon DEF HandleInv, ThresholdInv, Store!Bounded, Store!Live
<1>15. RarestInv' /\ (adds = 0 => FinalMergeIsRarest)'
  <2>1. (adds = 0 => FinalMergeIsRarest)'
    BY <1>1, <1>2, Zenon DEF FinalMergeIsRarest
  <2>2. ASSUME adds = 0, NEW r \in DOMAIN merges, NEW tp \in PairKeys'
        PROVE  KeyFreq(tp)' <= merges[r].freq
    <3>1. merges[r].freq \in Nat
      BY <1>2, MergeTypes
    <3>2. tp[1] # Sentinel
      BY <1>2, <1>4, <1>5, NewEntry
    <3>3. KeyFreq(tp)' = KeyFreq(tp)
      BY <1>1, <1>10, <3>2 DEF KeyFreq, HasFrozen
    <3>4. CASE tp \in PairKeys
      BY <1>2, <2>2, <3>3, <3>4 DEF RarestInv
    <3>5. CASE tp \notin PairKeys
      <4>1. KeyFreq(tp) = 0
        BY <1>11, <3>2, <3>5 DEF KeyFreq
      <4> QED BY <3>1, <3>3, <4>1
    <3> QED BY <3>4, <3>5
  <2> QED BY <1>1, <2>1, <2>2 DEF RarestInv
<1>16. Store!FrontierInv' /\ Store!ResidencyAgrees'
  <2>1. Store!StoreNext
    BY <1>1 DEF Store!StoreNext
  <2> QED BY <2>1, TableStep DEF Inv
<1>17. KeptOut'
  BY <1>1, <1>2, <1>3 DEF KeptOut, HasFrozen
<1> QED BY <1>6, <1>7, <1>8, <1>9, <1>12, <1>13, <1>14, <1>15, <1>16, <1>17 DEF Inv, Sound

-----------------------------------------------------------------------------
(* Learning a pair. *)

Change == MergeChanges(Updates)

\* The inventory after the words of the merge were rewritten.
After == MergedBy(words, merge.occ, merge.tp, NewId)

\* The next id and the words of the merge are what the rewriting needs.
LEMMA MergeCovers ==
  ASSUME Inv, phase = "merge", merge.tp \in PairKeys
  PROVE  /\ words \in Inventory(Token) /\ merge.occ \in SUBSET DOMAIN words
         /\ IsFiniteSet(merge.occ) /\ merge.occ \in SUBSET WordId
         /\ NewId \notin Token /\ merge.tp[1] # NewId /\ merge.tp[2] # NewId
         /\ merge.tp[1] \in Token /\ merge.tp[2] \in Token
         /\ \A i \in DOMAIN words : merge.tp \in PairsOf(words[i].idxs) => i \in merge.occ
<1>1. WordsInv /\ OccInv
  BY DEF Inv, Sound
<1>2. merge.tp \in Id \X Id /\ merge # None /\ ready
  BY <1>1, MergeFreq, KeyTypes
<1>3. Covers(merge.occ, merge.tp)
  BY <1>1, <1>2 DEF OccInv
<1>4. merge.tp[1] \in Token /\ merge.tp[2] \in Token
  BY DEF PairKeys
<1>5. words \in Inventory(Token) /\ IsFiniteSet(DOMAIN words) /\ DOMAIN words \subseteq WordId
  BY <1>1, InventoryType DEF WordsInv
<1>6. merge.occ \in SUBSET DOMAIN words
  BY <1>3 DEF Covers
<1>7. \A i \in DOMAIN words : merge.tp \in PairsOf(words[i].idxs) => i \in merge.occ
  BY <1>2, <1>3 DEF Covers, Occurrences
<1>8. IsFiniteSet(merge.occ)
  BY <1>5, <1>6, FS_Subset
<1> QED BY <1>1, <1>4, <1>5, <1>6, <1>7, <1>8, Tokens

\* What MergedInventory says of the rewritten inventory.
LEMMA AfterFacts ==
  ASSUME Inv, phase = "merge", merge.tp \in PairKeys
  PROVE  /\ After \in Inventory(Token \cup {NewId}) /\ DOMAIN After = DOMAIN words
         /\ After = [i \in DOMAIN words |->
                       [words[i] EXCEPT !.idxs = Replaced(@, merge.tp, NewId)]]
         /\ PairSum(After, merge.tp) = 0
         /\ \A k : ReportedChange(words, merge.occ, merge.tp, NewId, k)
                    = PairSum(After, k) - PairSum(words, k)
         /\ \A k : k[1] # NewId /\ k[2] # NewId => PairSum(After, k) <= PairSum(words, k)
         /\ \A k : k[1] = NewId \/ k[2] = NewId =>
              PairSum(words, k) = 0 /\ PairSum(After, k) <= PairSum(words, merge.tp)
         /\ \A u : u \notin {merge.tp[1], merge.tp[2], NewId} =>
              UnitSum(After, u) = UnitSum(words, u)
<1> DEFINE tp == merge.tp
           occ == merge.occ
           n == NewId
<1>1. /\ words \in Inventory(Token) /\ occ \in SUBSET DOMAIN words
      /\ n \notin Token /\ tp[1] # n /\ tp[2] # n
      /\ \A i \in DOMAIN words : tp \in PairsOf(words[i].idxs) => i \in occ
  BY MergeCovers
<1>2. After = MergedBy(words, occ, tp, n)
  BY DEF After
<1> HIDE DEF tp, occ, n
<1>3. /\ After \in Inventory(Token \cup {n}) /\ DOMAIN After = DOMAIN words
      /\ After = [i \in DOMAIN words |-> [words[i] EXCEPT !.idxs = Replaced(@, tp, n)]]
      /\ PairSum(After, tp) = 0
      /\ \A k : ReportedChange(words, occ, tp, n, k) = PairSum(After, k) - PairSum(words, k)
      /\ \A k : k[1] # n /\ k[2] # n => PairSum(After, k) <= PairSum(words, k)
      /\ \A k : k[1] = n \/ k[2] = n =>
           PairSum(words, k) = 0 /\ PairSum(After, k) <= PairSum(words, tp)
      /\ \A u : u \notin {tp[1], tp[2], n} => UnitSum(After, u) = UnitSum(words, u)
  <2>1. RewritesAll(Token, words, occ, tp, n, After)
    BY <1>1, <1>2, MergedInventory
  <2> QED BY <2>1, Zenon DEF RewritesAll
<1> QED BY <1>3 DEF tp, occ, n

\* The changes handed to the table are exact, whatever the words are.
LEMMA ChangeFacts ==
  ASSUME Inv, phase = "merge", merge.tp \in PairKeys
  PROVE  /\ After = [i \in DOMAIN words |->
                       IF i \in merge.occ THEN [words[i] EXCEPT !.idxs = Updates[i].idxs]
                                          ELSE words[i]]
         /\ \A k \in DOMAIN Change :
              /\ k \in (Token \cup {NewId}) \X (Token \cup {NewId})
              /\ Change[k] = [freq |-> Change[k].freq, occ |-> Change[k].occ,
                              content |-> Change[k].content]
              /\ Change[k].freq = PairSum(After, k) - PairSum(words, k)
              /\ Change[k].occ = {i \in merge.occ : Entry(Updates[i].changes, k) > 0}
         /\ \A k : k \notin DOMAIN Change => PairSum(After, k) = PairSum(words, k)
<1> DEFINE tp == merge.tp
           occ == merge.occ
           n == NewId
           m(i) == MergeWord(words[i].idxs, words[i].freq, tp, n)
<1>1. /\ words \in Inventory(Token) /\ occ \in SUBSET DOMAIN words
      /\ IsFiniteSet(occ)
      /\ n \notin Token /\ tp[1] # n /\ tp[2] # n
      /\ \A i \in DOMAIN words : tp \in PairsOf(words[i].idxs) => i \in occ
  BY MergeCovers
<1>2. \A i \in occ : Updates[i] = m(i)
  BY DEF Updates
<1>3. After = [i \in DOMAIN words |->
                 IF i \in occ THEN [words[i] EXCEPT !.idxs = Updates[i].idxs] ELSE words[i]]
  BY <1>2, Zenon DEF After, MergedBy
<1>4. \A k : /\ ReportedChange(words, occ, tp, n, k) = PairSum(After, k) - PairSum(words, k)
             /\ PairSum(After, k) \in Nat /\ PairSum(words, k) \in Nat
  <2>1. \A k : ReportedChange(words, occ, tp, n, k) = PairSum(After, k) - PairSum(words, k)
    BY AfterFacts
  <2>2. After \in Inventory(Token \cup {n})
    BY AfterFacts
  <2>3. \A k : PairSum(After, k) \in Nat /\ PairSum(words, k) \in Nat
    BY <1>1, <2>2, WeightedCounts
  <2> QED BY <2>1, <2>3
<1>5. \A i \in occ : DOMAIN Updates[i].changes \subseteq (Token \cup {n}) \X (Token \cup {n})
  <2> HIDE DEF tp, occ, n
  <2> SUFFICES ASSUME NEW i \in occ
               PROVE  DOMAIN Updates[i].changes \subseteq (Token \cup {n}) \X (Token \cup {n})
    OBVIOUS
  <2>1. i \in DOMAIN words
    BY <1>1
  <2>2. DOMAIN m(i).changes \subseteq (Token \cup {n}) \X (Token \cup {n})
    BY <1>1, <2>1, MergedOccurrences
  <2> QED BY <1>2, <2>2
<1>6. DOMAIN Change = UNION {DOMAIN Updates[i].changes : i \in occ}
  BY DEF Change, MergeChanges
<1>7. ASSUME NEW k \in DOMAIN Change
      PROVE  /\ k \in (Token \cup {n}) \X (Token \cup {n})
             /\ Change[k] = [freq |-> Change[k].freq, occ |-> Change[k].occ,
                             content |-> Change[k].content]
             /\ Change[k].freq = ReportedChange(words, occ, tp, n, k)
             /\ Change[k].occ = {i \in occ : Entry(Updates[i].changes, k) > 0}
  <2>1. k \in (Token \cup {n}) \X (Token \cup {n})
    BY <1>5, <1>6
  <2>2. /\ Change[k] = [freq |-> Change[k].freq, occ |-> Change[k].occ,
                        content |-> Change[k].content]
        /\ Change[k].freq = SumFunction([i \in occ |-> Entry(Updates[i].changes, k)])
        /\ Change[k].occ = {i \in occ : Entry(Updates[i].changes, k) > 0}
    BY <1>6 DEF Change, MergeChanges
  <2>3. [i \in occ |-> Entry(Updates[i].changes, k)] = [i \in occ |-> Entry(m(i).changes, k)]
    BY <1>2
  <2>4. Change[k].freq = ReportedChange(words, occ, tp, n, k)
    BY <2>2, <2>3, Zenon DEF ReportedChange
  <2> QED BY <2>1, <2>2, <2>4
<1>8. ASSUME NEW k, k \notin DOMAIN Change PROVE PairSum(After, k) = PairSum(words, k)
  <2>1. \A i \in occ : k \notin DOMAIN m(i).changes
    BY <1>2, <1>6, <1>8
  <2>2. ReportedChange(words, occ, tp, n, k) = 0
    BY <1>1, <2>1, NothingReported
  <2> QED BY <1>4, <2>2
<1> QED BY <1>3, <1>4, <1>7, <1>8

NewKeys == (Token \cup {NewId}) \X (Token \cup {NewId})

\* The new keys are pairs of ids, and those that are not old have the new id.
LEMMA NewKeyTypes ==
  ASSUME Inv, phase = "merge", merge.tp \in PairKeys
  PROVE  /\ NewId \in Id /\ NewKeys \subseteq Id \X Id /\ PairKeys \subseteq NewKeys
         /\ NewKeys \cap UnitKeys = {}
         /\ \A k \in NewKeys : k \notin PairKeys <=> k[1] = NewId \/ k[2] = NewId
         /\ \A k \in DOMAIN store \cap NewKeys : k \in PairKeys
<1>1. WordsInv /\ KeysInv /\ Len(vocab) < MaxVocab
  BY MergeFreq DEF Inv, Sound
<1>2. NewId \in Id
  BY <1>1, Tokens, TrainerAssumption DEF NewId, Id
<1>3. Token \subseteq Id /\ NewId \notin Token
  BY <1>1, Tokens
<1>4. NewKeys \subseteq Id \X Id /\ PairKeys \subseteq NewKeys
  BY <1>2, <1>3 DEF NewKeys, PairKeys
<1>5. NewKeys \cap UnitKeys = {}
  BY <1>1, <1>4, KeyTypes
<1>6. \A k \in NewKeys : k \notin PairKeys <=> k[1] = NewId \/ k[2] = NewId
  BY <1>3 DEF NewKeys, PairKeys
<1>7. \A k \in DOMAIN store \cap NewKeys : k \in PairKeys
  BY <1>1, <1>5 DEF KeysInv
<1> QED BY <1>2, <1>4, <1>5, <1>6, <1>7

\* The frequency the table has for a pair, before and after the merge.
OldFreq(k) == IF k \in DOMAIN store THEN store[k].freq ELSE 0

\* The table has the true frequencies of the keys a merge may change.
LEMMA OldFreqs ==
  ASSUME Inv, phase = "merge", merge.tp \in PairKeys, NEW k \in NewKeys, k # merge.tp,
         ~HasFrozen(k)
  PROVE  /\ OldFreq(k) = PairSum(words, k)
         /\ PairSum(words, k) \in Nat /\ PairSum(After, k) \in Nat
         /\ k \notin DOMAIN store => PairSum(words, k) = 0
<1>1. WordsInv /\ KeysInv /\ FreqInv /\ ready /\ merge # None
  BY MergeFreq DEF Inv, Sound
<1>2. PairSum(words, k) \in Nat /\ PairSum(After, k) \in Nat
  <2>1. After \in Inventory(Token \cup {NewId})
    BY AfterFacts
  <2>2. words \in Inventory(Token)
    BY <1>1 DEF WordsInv
  <2> QED BY <2>1, <2>2, WeightedCounts
<1>3. CASE k \in PairKeys
  <2>1. k[1] # Sentinel
    BY <1>1, <1>3, KeyTypes
  <2>2. KeyFreq(k) = PairSum(words, k)
    BY <1>1, <2>1, WordKeys DEF KeyFreq
  <2>3. HeldFreq(k) = OldFreq(k)
    BY DEF HeldFreq, OldFreq
  <2>4. OldFreq(k) = PairSum(words, k)
    BY <1>1, <1>3, <2>2, <2>3 DEF FreqInv
  <2> QED BY <1>2, <2>4 DEF OldFreq
<1>4. CASE k \notin PairKeys
  <2>1. k[1] = NewId \/ k[2] = NewId
    BY <1>4, NewKeyTypes
  <2>2. k \notin DOMAIN store
    BY <1>4, NewKeyTypes
  <2>3. PairSum(words, k) = 0
    BY <2>1, AfterFacts
  <2> QED BY <1>2, <2>2, <2>3 DEF OldFreq
<1> QED BY <1>3, <1>4

\* What the table is told of the changes: those without a frozen scalar.
Kept == Retained(Change)

\* Nothing else is left out.
LEMMA KeptFacts ==
  /\ DOMAIN Kept = {k \in DOMAIN Change : ~HasFrozen(k)}
  /\ \A k \in DOMAIN Kept : k \in DOMAIN Change /\ Kept[k] = Change[k]
  /\ Kept = [k \in DOMAIN Kept |-> Change[k]]
<1>1. Change = [k \in DOMAIN Change |-> Change[k]]
  BY DEF Change, MergeChanges
<1>2. CASE frozen = {}
  <2>1. Kept = Change /\ \A k : ~HasFrozen(k)
    BY <1>2 DEF Kept, Retained, HasFrozen
  <2> QED BY <1>1, <2>1
<1>3. CASE frozen # {}
  BY <1>3 DEF Kept, Retained
<1> QED BY <1>2, <1>3

\* The changes are something the table can be given.
LEMMA ChangeType ==
  ASSUME Inv, phase = "merge", merge.tp \in PairKeys
  PROVE  /\ Kept \in Store!Changes
         /\ \A k \in DOMAIN Change :
              Change[k] \in [content : Seq(Int) \X Seq(Int), freq : Int, occ : SUBSET WordId]
<1>1. WordsInv /\ merge.content = KeyContent(merge.tp)
  BY MergeFreq DEF Inv, Sound
<1>2. merge.content[1] \o merge.content[2] \in Seq(Int)
  <2>1. merge.content[1] \in Seq(Int) /\ merge.content[2] \in Seq(Int)
    BY <1>1, KeyTypes
  <2> QED BY <2>1
<1> DEFINE text(id) == IF id = NewId THEN merge.content[1] \o merge.content[2] ELSE TextOf(id)
<1>3. \A id \in Token \cup {NewId} : text(id) \in Seq(Int)
  BY <1>1, <1>2, Tokens
<1>4. DOMAIN Change \subseteq NewKeys /\ NewKeys \subseteq Id \X Id
  BY ChangeFacts, NewKeyTypes DEF NewKeys
<1>5. DOMAIN Kept \subseteq Id \X Id
  BY <1>4, KeptFacts
<1>6. ASSUME NEW k \in DOMAIN Change
      PROVE  Change[k] \in [content : Seq(Int) \X Seq(Int), freq : Int, occ : SUBSET WordId]
  <2>1. Change[k].content = <<text(k[1]), text(k[2])>>
    BY DEF Change, MergeChanges
  <2>2. k[1] \in Token \cup {NewId} /\ k[2] \in Token \cup {NewId}
    BY <1>4 DEF NewKeys
  <2>3. Change[k].content \in Seq(Int) \X Seq(Int)
    <3>1. text(k[1]) \in Seq(Int) /\ text(k[2]) \in Seq(Int)
      BY <1>3, <2>2
    <3> HIDE DEF text
    <3> QED BY <2>1, <3>1
  <2>4. Change[k].occ \in SUBSET WordId
    BY ChangeFacts, MergeCovers
  <2>5. Change[k].freq \in Int
    <3>1. After \in Inventory(Token \cup {NewId}) /\ words \in Inventory(Token)
      BY AfterFacts, MergeCovers
    <3>2. PairSum(words, k) \in Nat /\ PairSum(After, k) \in Nat
      BY <3>1, WeightedCounts
    <3>3. Change[k].freq = PairSum(After, k) - PairSum(words, k)
      BY ChangeFacts
    <3> QED BY <3>2, <3>3
  <2>6. Change[k] = [freq |-> Change[k].freq, occ |-> Change[k].occ,
                     content |-> Change[k].content]
    BY ChangeFacts
  <2> QED BY <2>3, <2>4, <2>5, <2>6
<1>7. Kept \in [DOMAIN Kept -> [content : Seq(Int) \X Seq(Int), freq : Int,
                                occ : SUBSET WordId]]
  <2>1. Kept = [k \in DOMAIN Kept |-> Change[k]] /\ DOMAIN Kept \subseteq DOMAIN Change
    BY KeptFacts
  <2> QED BY <1>6, <2>1, Zenon
<1> QED BY <1>5, <1>6, <1>7 DEF Store!Changes

\* The table after the merge, before a prune.
Result == Store!Applied(NewId, Kept)

\* The content of an id after the merge.
NewText(id) == IF id = NewId THEN merge.content[1] \o merge.content[2] ELSE TextOf(id)

\* What a change makes of the frequency and the content of an entry.
LEMMA ChangedEntry ==
  ASSUME NEW k, NEW target, NEW d
  PROVE  /\ Store!Changed(k, target, d).freq = OldFreq(k) + d.freq
         /\ Store!Changed(k, target, d).content
              = IF k \in DOMAIN store THEN store[k].content ELSE d.content
<1> DEFINE old == IF k \in DOMAIN store
                  THEN store[k]
                  ELSE [content |-> d.content, freq |-> 0, occ |-> None]
           held == IF old.occ = None THEN {} ELSE old.occ
           extended == IF d.freq > 0 THEN held \cup d.occ ELSE old.occ
           occ == IF ~Store!Bounded THEN extended
                  ELSE IF old.occ # None
                  THEN IF old.freq + d.freq > 0 THEN extended ELSE None
                  ELSE IF Store!Admitted(k, target, d) THEN d.occ ELSE None
<1>1. Store!Changed(k, target, d)
        = [content |-> old.content, freq |-> old.freq + d.freq, occ |-> occ]
  BY DEF Store!Changed
<1>2. old.freq = OldFreq(k)
  BY DEF OldFreq
<1>3. old.content = IF k \in DOMAIN store THEN store[k].content ELSE d.content
  OBVIOUS
<1> HIDE DEF old, occ
<1> QED BY <1>1, <1>2, <1>3

\* Which entries the merge changes, and what it makes of their frequencies.
LEMMA ResultFreqs ==
  ASSUME Inv, phase = "merge", merge.tp \in PairKeys
  PROVE  /\ DOMAIN Result = DOMAIN store \cup Store!Updated(Kept)
         /\ DOMAIN Result \subseteq NewKeys \cup UnitKeys /\ merge.tp \notin DOMAIN Result
         /\ \A k \in UnitKeys : k \in DOMAIN Result <=> k \in DOMAIN store
         /\ \A k \in DOMAIN Result : ~HasFrozen(k)
         /\ \A k \in DOMAIN Result : k \notin Store!Updated(Kept) => Result[k] = store[k]
         /\ \A k \in Store!Updated(Kept) :
              /\ k \in NewKeys /\ k \in DOMAIN Change /\ k # merge.tp
              /\ Result[k] = Store!Changed(k, NewId, Change[k])
              /\ Change[k].freq # 0
         /\ \A k \in NewKeys : k \in DOMAIN Result => Result[k].freq = PairSum(After, k)
         /\ \A k \in NewKeys : k \notin DOMAIN Result /\ ~HasFrozen(k) => PairSum(After, k) = 0
<1> DEFINE up == Store!Updated(Kept)
<1>1. KeysInv /\ KeptOut /\ merge.tp \notin DOMAIN store
  BY MergeFreq DEF Inv, Sound
<1>2. DOMAIN Result = DOMAIN store \cup up
  BY DEF Result, Store!Applied
<1>3. ASSUME NEW k \in up
      PROVE  /\ k \in NewKeys /\ k \in DOMAIN Change /\ k # merge.tp /\ Change[k].freq # 0
             /\ Result[k] = Store!Changed(k, NewId, Change[k]) /\ ~HasFrozen(k)
  <2>1. k \in DOMAIN Kept /\ k # merge.tp /\ Kept[k].freq # 0
    BY DEF Store!Updated
  <2>2. k \in DOMAIN Change /\ Kept[k] = Change[k] /\ ~HasFrozen(k)
    BY <2>1, KeptFacts
  <2>3. k \in NewKeys
    BY <2>2, ChangeFacts DEF NewKeys
  <2>4. Result[k] = Store!Changed(k, NewId, Kept[k])
    BY DEF Result, Store!Applied
  <2> QED BY <2>1, <2>2, <2>3, <2>4
<1>4. \A k \in DOMAIN Result : k \notin up => Result[k] = store[k]
  BY <1>2 DEF Result, Store!Applied
<1>5. DOMAIN Result \subseteq NewKeys \cup UnitKeys
  BY <1>1, <1>2, <1>3, NewKeyTypes DEF KeysInv
<1>6. \A k \in UnitKeys : k \in DOMAIN Result <=> k \in DOMAIN store
  BY <1>2, <1>3, NewKeyTypes
<1>7. ASSUME NEW k \in NewKeys, k # merge.tp, k \notin up, ~HasFrozen(k)
      PROVE  PairSum(After, k) = PairSum(words, k)
  <2>1. CASE k \notin DOMAIN Change
    BY <2>1, ChangeFacts
  <2>2. CASE k \in DOMAIN Change
    <3>1. k \in DOMAIN Kept /\ Kept[k] = Change[k]
      BY <1>7, <2>2, KeptFacts
    <3>2. Change[k].freq = 0
      BY <1>7, <3>1 DEF Store!Updated
    <3>3. Change[k].freq = PairSum(After, k) - PairSum(words, k)
      BY <2>2, ChangeFacts
    <3> QED BY <1>7, <3>2, <3>3, OldFreqs
  <2> QED BY <2>1, <2>2
<1>8. \A k \in DOMAIN Result : ~HasFrozen(k)
  BY <1>1, <1>2, <1>3 DEF KeptOut
<1>9. ASSUME NEW k \in NewKeys, k \in DOMAIN Result
      PROVE  Result[k].freq = PairSum(After, k)
  <2>1. k # merge.tp /\ ~HasFrozen(k)
    BY <1>1, <1>2, <1>3, <1>8, <1>9
  <2>2. OldFreq(k) = PairSum(words, k) /\ PairSum(words, k) \in Nat /\ PairSum(After, k) \in Nat
    BY <2>1, OldFreqs
  <2>3. CASE k \in up
    <3>1. Result[k].freq = OldFreq(k) + Change[k].freq
      BY <1>3, <2>3, ChangedEntry
    <3>2. Change[k].freq = PairSum(After, k) - PairSum(words, k)
      BY <1>3, <2>3, ChangeFacts
    <3> QED BY <2>2, <3>1, <3>2
  <2>4. CASE k \notin up
    BY <1>2, <1>4, <1>7, <1>9, <2>1, <2>2, <2>4 DEF OldFreq
  <2> QED BY <2>3, <2>4
<1>10. ASSUME NEW k \in NewKeys, k \notin DOMAIN Result, ~HasFrozen(k)
       PROVE  PairSum(After, k) = 0
  <2>1. CASE k = merge.tp
    BY <2>1, AfterFacts
  <2>2. CASE k # merge.tp
    BY <1>2, <1>7, <1>10, <2>2, OldFreqs
  <2> QED BY <2>1, <2>2
<1> QED BY <1>1, <1>2, <1>3, <1>4, <1>5, <1>6, <1>8, <1>9, <1>10

\* The content of every entry, old or new.
LEMMA ResultContent ==
  ASSUME Inv, phase = "merge", merge.tp \in PairKeys, NEW k \in NewKeys, k \in DOMAIN Result
  PROVE  Result[k].content = <<NewText(k[1]), NewText(k[2])>>
<1>1. KeysInv /\ WordsInv
  BY DEF Inv, Sound
<1>2. CASE k \in DOMAIN store
  <2>1. k \in PairKeys
    BY <1>2, NewKeyTypes
  <2>2. k[1] \in Token /\ k[2] \in Token /\ k[1] # Sentinel /\ NewId \notin Token
    BY <1>1, <2>1, KeyTypes, Tokens
  <2>3. store[k].content = <<NewText(k[1]), NewText(k[2])>>
    BY <1>1, <1>2, <2>2 DEF KeysInv, KeyContent, NewText
  <2>4. Result[k].content = store[k].content
    BY <1>2, ResultFreqs, ChangedEntry
  <2> QED BY <2>3, <2>4
<1>3. CASE k \notin DOMAIN store
  <2>1. k \in DOMAIN Change /\ Result[k].content = Change[k].content
    BY <1>3, ResultFreqs, ChangedEntry
  <2>2. Change[k].content = <<NewText(k[1]), NewText(k[2])>>
    BY <2>1 DEF Change, MergeChanges, NewText
  <2> QED BY <2>1, <2>2
<1> QED BY <1>2, <1>3

\* A word gains a pair only where the change of that pair reports it, and only
\* a pair with the new id.
LEMMA Gained ==
  ASSUME Inv, phase = "merge", merge.tp \in PairKeys, NEW i \in DOMAIN words, NEW k,
         k \in PairsOf(After[i].idxs)
  PROVE  /\ k \in NewKeys /\ PairSum(After, k) > 0
         /\ \/ k \in PairsOf(words[i].idxs) /\ k \in PairKeys
            \/ /\ k[1] = NewId \/ k[2] = NewId
               /\ k \in DOMAIN Change /\ i \in Change[k].occ /\ Change[k].freq > 0
               /\ k \notin DOMAIN store
<1> DEFINE tp == merge.tp
           occ == merge.occ
           n == NewId
           m == MergeWord(words[i].idxs, words[i].freq, tp, n)
<1>1. /\ words \in Inventory(Token) /\ occ \in SUBSET DOMAIN words
      /\ n \notin Token /\ tp[1] # n /\ tp[2] # n
      /\ \A j \in DOMAIN words : tp \in PairsOf(words[j].idxs) => j \in occ
  BY MergeCovers
<1>2. After \in Inventory(Token \cup {n}) /\ DOMAIN After = DOMAIN words
  BY AfterFacts
<1>3. After[i].idxs \in Seq(Token \cup {n})
  BY <1>2, InventoryType
<1>4. k \in NewKeys
  BY <1>3 DEF NewKeys, PairsOf, PairAt
<1>5. PairSum(After, k) > 0
  BY <1>2, WeightedCounts
<1>6. CASE k \in PairsOf(words[i].idxs)
  BY <1>4, <1>5, <1>6, WordKeys DEF Inv, Sound
<1>7. CASE k \notin PairsOf(words[i].idxs)
  <2>1. i \in occ /\ (k[1] = n \/ k[2] = n) /\ Entry(m.changes, k) > 0
    <3>1. k \in PairsOf(MergedBy(words, occ, tp, n)[i].idxs)
      BY DEF After
    <3> HIDE DEF tp, occ, n
    <3> QED BY <1>1, <1>7, <3>1, MergedOccurrences
  <2>2. Updates[i] = m
    BY <2>1 DEF Updates
  <2>3. k \in DOMAIN Updates[i].changes
    BY <2>1, <2>2 DEF Entry
  <2>4. k \in DOMAIN Change
    BY <2>1, <2>3 DEF Change, MergeChanges
  <2>5. i \in Change[k].occ
    BY <2>1, <2>2, <2>4, ChangeFacts
  <2>6. Change[k].freq = PairSum(After, k) - PairSum(words, k) /\ PairSum(words, k) = 0
    BY <2>1, <2>4, ChangeFacts, AfterFacts
  <2>7. PairSum(After, k) \in Nat
    BY <1>2, WeightedCounts
  <2>8. k \notin DOMAIN store
    BY <1>4, <2>1, NewKeyTypes
  <2> QED BY <1>4, <1>5, <2>1, <2>4, <2>5, <2>6, <2>7, <2>8
<1> QED BY <1>6, <1>7

\* occ are words of the inventory, with all that contain k after the merge.
CoversAfter(occ, k) ==
  occ \subseteq DOMAIN words /\ \A i \in DOMAIN words : k \in PairsOf(After[i].idxs) => i \in occ

\* What a handle of an entry had before the merge.
LEMMA OldHandle ==
  ASSUME Inv, phase = "merge", merge.tp \in PairKeys, NEW k \in NewKeys, k \in DOMAIN store
  PROVE  /\ k \in PairKeys /\ k[1] # NewId /\ k[2] # NewId
         /\ store[k].occ # None => CoversAfter(store[k].occ, k) /\ store[k].occ \in SUBSET WordId
         /\ IF Store!Bounded THEN store[k].occ # None => store[k].freq > 0
                             ELSE store[k].occ # None
<1>1. OccInv /\ HandleInv /\ WordsInv /\ ready
  BY MergeFreq DEF Inv, Sound
<1>2. k \in PairKeys /\ k[1] # NewId /\ k[2] # NewId /\ k \in Id \X Id
  BY NewKeyTypes
<1>3. ASSUME store[k].occ # None
      PROVE  CoversAfter(store[k].occ, k) /\ store[k].occ \in SUBSET WordId
  <2>1. Covers(store[k].occ, k)
    BY <1>1, <1>2, <1>3 DEF OccInv
  <2>2. \A i \in DOMAIN words : k \in PairsOf(words[i].idxs) => i \in store[k].occ
    BY <1>2, <2>1 DEF Covers, Occurrences
  <2>3. ASSUME NEW i \in DOMAIN words, k \in PairsOf(After[i].idxs) PROVE i \in store[k].occ
    BY <1>2, <2>2, <2>3, Gained
  <2> QED BY <1>1, <2>1, <2>3 DEF Covers, CoversAfter, WordsInv
<1>4. IF Store!Bounded THEN store[k].occ # None => store[k].freq > 0 ELSE store[k].occ # None
  BY <1>1, <1>2 DEF HandleInv
<1> QED BY <1>2, <1>3, <1>4

\* Every handle after the merge covers the rewritten words, and in bounded mode
\* only pairs that can still be learned have one.
LEMMA ResultHandles ==
  ASSUME Inv, phase = "merge", merge.tp \in PairKeys, NEW k \in NewKeys, k \in DOMAIN Result
  PROVE  /\ Result[k].occ # None => CoversAfter(Result[k].occ, k)
         /\ IF Store!Bounded THEN Result[k].occ # None => Result[k].freq > 0
                             ELSE Result[k].occ # None
<1>1. \A S \in SUBSET WordId : S # None
  BY NoneIsNoValue
<1>2. CASE k \notin Store!Updated(Kept)
  <2>1. k \in DOMAIN store /\ Result[k] = store[k]
    BY <1>2, ResultFreqs
  <2> QED BY <2>1, OldHandle
<1>3. CASE k \in Store!Updated(Kept)
  <2> DEFINE d == Change[k]
             old == IF k \in DOMAIN store
                    THEN store[k]
                    ELSE [content |-> d.content, freq |-> 0, occ |-> None]
             freq == old.freq + d.freq
             held == IF old.occ = None THEN {} ELSE old.occ
             extended == IF d.freq > 0 THEN held \cup d.occ ELSE old.occ
             admitted == Store!Admitted(k, NewId, d)
             occ == IF ~Store!Bounded THEN extended
                    ELSE IF old.occ # None
                    THEN IF freq > 0 THEN extended ELSE None
                    ELSE IF admitted THEN d.occ ELSE None
  <2>1. Result[k] = [content |-> old.content, freq |-> freq, occ |-> occ]
    BY <1>3, ResultFreqs DEF Store!Changed
  <2>2. Result[k].occ = occ /\ Result[k].freq = freq
    BY <2>1
  <2>3. d.freq # 0 /\ d.freq \in Int /\ d.occ \in SUBSET WordId /\ d.occ \subseteq DOMAIN words
    BY <1>3, ResultFreqs, ChangeType, ChangeFacts, MergeCovers
  <2>4. CASE k \in DOMAIN store
    <3>1. old = store[k]
      BY <2>4
    <3>2. k[1] # NewId /\ k[2] # NewId
      BY <2>4, OldHandle
    <3>3. ~admitted
      BY <3>2 DEF Store!Admitted, Store!Admissible
    <3>4. old.occ # None => CoversAfter(old.occ, k) /\ old.occ \in SUBSET WordId
      BY <2>4, <3>1, OldHandle
    <3>5. ~Store!Bounded => old.occ # None
      BY <2>4, <3>1, OldHandle
    <3> HIDE DEF old, d, freq, admitted
    <3>6. old.occ # None => CoversAfter(extended, k) /\ extended \in SUBSET WordId
      BY <2>3, <3>4 DEF CoversAfter
    <3>7. occ # None => CoversAfter(occ, k)
      BY <3>3, <3>5, <3>6
    <3>8. IF Store!Bounded THEN occ # None => freq > 0 ELSE occ # None
      BY <1>1, <3>3, <3>5, <3>6
    <3> QED BY <2>2, <3>7, <3>8
  <2>5. CASE k \notin DOMAIN store
    <3>1. old.occ = None /\ old.freq = 0 /\ freq = d.freq /\ held = {}
      BY <2>3, <2>5
    <3>2. d.freq > 0
      <4>1. k # merge.tp /\ k \in DOMAIN Change /\ ~HasFrozen(k)
        BY <1>3, ResultFreqs
      <4>2. PairSum(words, k) = 0 /\ PairSum(After, k) \in Nat
        BY <2>5, <4>1, OldFreqs
      <4>3. d.freq = PairSum(After, k) - PairSum(words, k)
        BY <4>1, ChangeFacts
      <4> QED BY <2>3, <4>2, <4>3
    <3>3. extended = d.occ
      BY <3>1, <3>2
    <3>4. CoversAfter(d.occ, k)
      <4>1. \A i \in DOMAIN words : k \notin PairsOf(words[i].idxs)
        <5>1. PairSum(words, k) = 0
          BY <1>3, <2>5, ResultFreqs, OldFreqs
        <5>2. ~(WeightedPairs(k) > 0) /\ WordsInv
          BY <5>1, WordKeys DEF Inv, Sound
        <5> QED BY <5>2, WordKeys
      <4>2. ASSUME NEW i \in DOMAIN words, k \in PairsOf(After[i].idxs) PROVE i \in d.occ
        BY <4>1, <4>2, Gained
      <4> QED BY <2>3, <4>2 DEF CoversAfter
    <3> HIDE DEF old, d, freq, extended, admitted
    <3>5. occ # None => CoversAfter(occ, k)
      BY <3>1, <3>3, <3>4
    <3>6. IF Store!Bounded THEN occ # None => freq > 0 ELSE occ # None
      BY <1>1, <2>3, <3>1, <3>2, <3>3
    <3> QED BY <2>2, <3>5, <3>6
  <2> QED BY <2>4, <2>5
<1> QED BY <1>2, <1>3

\* What LearnPair does, in terms of the rewriting and of the table.
LEMMA LearnPairUnfold ==
  ASSUME Inv, LearnPair
  PROVE  /\ phase = "merge" /\ merge.tp \in PairKeys /\ ~BelowCutoff
         /\ words' = After
         /\ vocab' = Append(vocab, merge.content[1] \o merge.content[2])
         /\ merges' = Append(merges, [tp |-> merge.tp, target |-> NewId, freq |-> merge.freq])
         /\ AfterEvent /\ ready' = ready /\ adds' = adds
         /\ Kept \in Store!Changes /\ NewId \in Id /\ Store!Apply(NewId, Kept)
<1>1. /\ phase = "merge" /\ merge.tp \in Id \X Id /\ ~BelowCutoff
      /\ vocab' = Append(vocab, merge.content[1] \o merge.content[2])
      /\ merges' = Append(merges, [tp |-> merge.tp, target |-> NewId, freq |-> merge.freq])
      /\ AfterEvent /\ ready' = ready /\ adds' = adds
      /\ words' = [i \in DOMAIN words |->
                     IF i \in merge.occ THEN [words[i] EXCEPT !.idxs = Updates[i].idxs]
                                        ELSE words[i]]
      /\ Table!ApplyChanges(NewId, Kept)
  BY DEF LearnPair, Kept, Change
<1>2. WordsInv
  BY DEF Inv, Sound
<1>3. merge.tp \in PairKeys
  BY <1>1, <1>2, MergeFreq, KeyTypes
<1>4. words' = After
  BY <1>1, <1>3, ChangeFacts
<1>5. Store!ApplyChanges(NewId, Kept)
  BY <1>1, SameMerge
<1>6. Kept \in Store!Changes /\ NewId \in Id
  BY <1>1, <1>3, ChangeType, NewKeyTypes
<1>7. \A k \in DOMAIN Kept : Store!FreqOf(k) + Kept[k].freq \in Int
  <2>1. Store!StoreTypeOK
    BY DEF Inv, Sound, Store!FrontierInv
  <2>2. \A k \in DOMAIN store : store[k].freq \in Int
    BY <2>1 DEF Store!StoreTypeOK, Store!TableOK, Store!Entry
  <2>3. \A k \in DOMAIN Kept : Kept[k].freq \in Int
    BY <1>1, <1>3, ChangeType, KeptFacts
  <2> QED BY <2>2, <2>3 DEF Store!FreqOf
<1>8. Store!Apply(NewId, Kept)
  BY <1>5, <1>7 DEF Store!Apply
<1> QED BY <1>1, <1>3, <1>4, <1>6, <1>8

\* The table after a learned pair: the entries of Result, some handles released.
LEMMA LearnPairTable ==
  ASSUME Inv, LearnPair
  PROVE  /\ Store!FrontierInv' /\ Store!ResidencyAgrees'
         /\ DOMAIN store' = DOMAIN Result
         /\ \A k \in DOMAIN Result :
              /\ store'[k].freq = Result[k].freq
              /\ store'[k].content = Result[k].content
              /\ store'[k].occ = Result[k].occ \/ (Store!Bounded /\ store'[k].occ = None)
         /\ phase' = "idle" /\ merge' = None
         /\ \/ threshold' = threshold
            \/ threshold' # None
            \/ \E k \in DOMAIN Result : Result[k].occ # None /\ ~(Result[k].freq > 0)
<1>1. Kept \in Store!Changes /\ NewId \in Id /\ Store!Apply(NewId, Kept)
  BY LearnPairUnfold
<1>2. Store!StoreNext
  BY <1>1 DEF Store!StoreNext
<1>3. Store!StoreTypeOK /\ Store!ResidencyAgrees
  BY DEF Inv, Sound, Store!FrontierInv
<1> DEFINE Made(t) ==
      /\ DOMAIN store' = DOMAIN t
      /\ \A tp \in DOMAIN store' :
           LET e == t[tp]
           IN /\ store'[tp].freq = e.freq
              /\ store'[tp].content = e.content
              /\ store'[tp].occ = e.occ \/ (Store!Bounded /\ store'[tp].occ = None)
      /\ phase' = "idle" /\ merge' = None
      /\ \/ threshold' = threshold
         \/ threshold' # None
         \/ \E tp \in DOMAIN t : LET e == t[tp] IN e.occ # None /\ ~(e.freq > 0)
<1>4. Made(Store!Applied(NewId, Kept))
  BY <1>1, <1>3, TableAssumptions, Store!ApplyEntries
<1>5. Made(Result)
  BY <1>4 DEF Result
<1>6. Store!FrontierInv' /\ Store!ResidencyAgrees'
  BY <1>2, TableStep DEF Inv
<1> QED BY <1>5, <1>6

\* The new vocabulary entry: longer than any scalar, and the content the table
\* expects of the new id.
LEMMA LearnPairEntry ==
  ASSUME Inv, LearnPair, NEW text, text = merge.content[1] \o merge.content[2]
  PROVE  /\ WordsInv /\ Len(vocab) < MaxVocab
         /\ text \in Seq(Int) /\ text # << >> /\ vocab' = Append(vocab, text)
         /\ \A u : <<u>> # text
         /\ Token' = Token \cup {NewId} /\ PairKeys' = NewKeys /\ UnitKeys' = UnitKeys
         /\ \A id, n : id \in Token \cup {NewId} /\ n = NewText(id) => TextOf(id)' = n
         /\ \A k, c : k \in NewKeys /\ c = <<NewText(k[1]), NewText(k[2])>> => KeyContent(k)' = c
<1>1. WordsInv /\ phase = "merge" /\ merge.tp \in PairKeys
  BY LearnPairUnfold DEF Inv, Sound
<1>2. Len(vocab) < MaxVocab /\ merge.content = KeyContent(merge.tp)
  BY <1>1, MergeFreq
<1>3. merge.tp[1] \in Token /\ merge.tp[2] \in Token /\ merge.tp[1] # Sentinel
  BY <1>1, KeyTypes
<1> DEFINE a == TextOf(merge.tp[1])
           b == TextOf(merge.tp[2])
<1>4. a \in Seq(Int) /\ a # << >> /\ b \in Seq(Int) /\ b # << >> /\ text = a \o b
  <2>1. a \in Seq(Int) /\ a # << >> /\ b \in Seq(Int) /\ b # << >>
    BY <1>1, <1>3, Tokens
  <2>2. merge.content = <<a, b>>
    BY <1>2, <1>3 DEF KeyContent
  <2> HIDE DEF a, b
  <2> QED BY <2>1, <2>2
<1> HIDE DEF a, b
<1>5. Len(a) > 0 /\ Len(b) > 0 /\ Len(a) \in Nat /\ Len(b) \in Nat
  BY <1>4
<1>6. text \in Seq(Int) /\ Len(text) \in Nat /\ Len(text) >= 2
  BY <1>4, <1>5
<1>7. text # << >> /\ \A u : <<u>> # text
  <2>1. Len(<< >>) = 0 /\ \A u : Len(<<u>>) = 1
    OBVIOUS
  <2>2. \A m \in Nat : m >= 2 => m # 0 /\ m # 1
    OBVIOUS
  <2> QED BY <1>6, <2>1, <2>2, Zenon
<1>8. vocab' = Append(vocab, text)
  BY LearnPairUnfold
<1>9. /\ Token' = Token \cup {NewId} /\ UnitKeys' = UnitKeys
      /\ \A id \in Token : TextOf(id)' = TextOf(id)
      /\ \A n : n = NewId => TextOf(n)' = text
  BY <1>1, <1>2, <1>6, <1>7, <1>8, NewEntry
<1>10. PairKeys' = NewKeys
  BY <1>9 DEF PairKeys, NewKeys
<1>11. ASSUME NEW id, NEW n, id \in Token \cup {NewId}, n = NewText(id)
       PROVE  TextOf(id)' = n
  <2>1. CASE id = NewId
    BY <1>9, <1>11, <2>1 DEF NewText
  <2>2. CASE id # NewId
    BY <1>9, <1>11, <2>2 DEF NewText
  <2> QED BY <2>1, <2>2
<1>12. ASSUME NEW k, NEW c, k \in NewKeys, c = <<NewText(k[1]), NewText(k[2])>>
       PROVE  KeyContent(k)' = c
  <2>1. k[1] \in Token \cup {NewId} /\ k[2] \in Token \cup {NewId} /\ k[1] # Sentinel
    <3>1. NewId # Sentinel
      BY <1>1, <1>2, Tokens, TrainerAssumption DEF NewId, Sentinel
    <3> QED BY <1>1, <1>12, <3>1, Tokens DEF NewKeys
  <2>2. TextOf(k[1])' = NewText(k[1])
    <3> DEFINE n == NewText(k[1])
    <3> HIDE DEF n
    <3>1. n = NewText(k[1])
      BY DEF n
    <3>2. TextOf(k[1])' = n
      BY <1>11, <2>1, <3>1
    <3> QED BY <3>1, <3>2
  <2>3. TextOf(k[2])' = NewText(k[2])
    <3> DEFINE n == NewText(k[2])
    <3> HIDE DEF n
    <3>1. n = NewText(k[2])
      BY DEF n
    <3>2. TextOf(k[2])' = n
      BY <1>11, <2>1, <3>1
    <3> QED BY <3>1, <3>2
  <2>4. KeyContent(k)' = <<TextOf(k[1])', TextOf(k[2])'>>
    BY <2>1 DEF KeyContent
  <2> QED BY <1>12, <2>2, <2>3, <2>4
<1> QED BY <1>1, <1>2, <1>6, <1>7, <1>8, <1>9, <1>10, <1>11, <1>12

\* Words and vocabulary after a learned pair.
LEMMA LearnPairWords ==
  ASSUME Inv, UNCHANGED frozen, LearnPair
  PROVE  WordsInv' /\ CallInv'
<1>1. /\ WordsInv /\ CallInv /\ phase = "merge" /\ merge.tp \in PairKeys
      /\ words' = After /\ AfterEvent /\ ready' = ready /\ adds' = adds /\ phase' = "idle"
  BY LearnPairUnfold, LearnPairTable DEF Inv, Sound
<1> DEFINE text == merge.content[1] \o merge.content[2]
<1>2. /\ Len(vocab) < MaxVocab /\ text \in Seq(Int) /\ text # << >>
      /\ vocab' = Append(vocab, text) /\ Token' = Token \cup {NewId}
  BY LearnPairEntry
<1>3. /\ vocab' \in Seq(Seq(Int)) /\ Len(vocab') = Len(vocab) + 1
      /\ DOMAIN vocab = 1..Len(vocab)
      /\ \A id \in DOMAIN vocab : vocab'[id] = vocab[id]
  <2> HIDE DEF text
  <2> QED BY <1>1, <1>2, NewEntry, Tokens
<1>4. words' \in Inventory(Token') /\ DOMAIN words' = DOMAIN words
  BY <1>1, <1>2, AfterFacts
<1>5. Len(BaseVocab) \in Nat /\ DOMAIN BaseVocab = 1..Len(BaseVocab) /\ Len(vocab) \in Nat
      /\ MaxVocab \in Nat
  BY <1>1, TrainerAssumption DEF WordsInv
<1> HIDE DEF text
<1>6. WordsInv'
  BY <1>1, <1>2, <1>3, <1>4, <1>5 DEF WordsInv
<1>7. CallInv'
  BY <1>1, <1>2, <1>3, <1>5, MergeFreq, TrainerAssumption DEF CallInv, Idle, AfterEvent
<1> QED BY <1>6, <1>7

\* The learned merge: its operands were in the vocabulary before it.
LEMMA LearnPairMerges ==
  ASSUME Inv, LearnPair
  PROVE  MergesInv'
<1>1. /\ WordsInv /\ MergesInv /\ phase = "merge" /\ merge.tp \in PairKeys
      /\ merges' = Append(merges, [tp |-> merge.tp, target |-> NewId, freq |-> merge.freq])
  BY LearnPairUnfold DEF Inv, Sound
<1> DEFINE text == merge.content[1] \o merge.content[2]
           e == [tp |-> merge.tp, target |-> NewId, freq |-> merge.freq]
           B == [tp : PairKeys', target : DOMAIN vocab', freq : Nat]
<1>2. /\ Len(vocab) < MaxVocab /\ text \in Seq(Int) /\ text # << >>
      /\ vocab' = Append(vocab, text)
  BY LearnPairEntry
<1> HIDE DEF text
<1>3. /\ merges \in Seq(B)
      /\ \A r \in DOMAIN merges : \A side \in {1, 2} : \A id :
           id = merges[r].tp[side] =>
             \E i \in 1..merges[r].target - 1 : vocab'[i] = TextOf(id)'
  BY <1>1, <1>2, MergesKept
<1>4. /\ NewId \in DOMAIN vocab' /\ PairKeys \subseteq PairKeys'
      /\ \A id \in DOMAIN vocab : vocab'[id] = vocab[id]
      /\ \A id \in Token : TextOf(id)' = TextOf(id)
  BY <1>1, <1>2, NewEntry
<1>5. e \in B
  BY <1>1, <1>4, MergeFreq
<1>6. ASSUME NEW side \in {1, 2}, NEW id, id = merge.tp[side]
      PROVE  \E i \in 1..NewId - 1 : vocab'[i] = TextOf(id)'
  <2>1. id \in Token /\ \E i \in DOMAIN vocab : vocab[i] = TextOf(id)
    BY <1>1, <1>6, OperandsKnown
  <2>2. DOMAIN vocab = 1..NewId - 1
    BY <1>1, Tokens DEF NewId
  <2> QED BY <1>4, <2>1, <2>2
<1>7. /\ merges' \in Seq(B) /\ DOMAIN merges' = DOMAIN merges \cup {Len(merges) + 1}
      /\ merges'[Len(merges) + 1] = e
      /\ \A r \in DOMAIN merges : merges'[r] = merges[r]
  <2>1. merges' = Append(merges, e)
    BY <1>1
  <2> HIDE DEF B, e
  <2> QED BY <1>3, <1>5, <2>1
<1>8. ASSUME NEW r \in DOMAIN merges', NEW side \in {1, 2}, NEW id, id = merges'[r].tp[side]
      PROVE  \E i \in 1..merges'[r].target - 1 : vocab'[i] = TextOf(id)'
  <2>1. CASE r \in DOMAIN merges
    BY <1>3, <1>7, <1>8, <2>1
  <2>2. CASE r = Len(merges) + 1
    <3>1. id = merge.tp[side] /\ merges'[r].target = NewId
      BY <1>7, <1>8, <2>2
    <3> QED BY <1>6, <3>1
  <2> QED BY <1>7, <2>1, <2>2
<1> HIDE DEF e
<1>9. UnitsBeforePairs'
  <2> SUFFICES ASSUME NEW r \in DOMAIN merges', NEW side \in {1, 2}
               PROVE  \E i \in 1..merges'[r].target - 1 : vocab'[i] = TextOf(merges[r].tp[side])'
    BY Zenon DEF UnitsBeforePairs, KnownBefore
  <2>1. \A id : id = merges'[r].tp[side] =>
          \E i \in 1..merges'[r].target - 1 :
            vocab'[i] = IF id \in Unit THEN <<id>> ELSE vocab'[id]
    BY <1>8 DEF TextOf
  <2> QED BY <2>1 DEF TextOf
<1> QED BY <1>7, <1>9 DEF MergesInv

\* The keys of the table after a learned pair.
LEMMA LearnPairKeys ==
  ASSUME Inv, LearnPair
  PROVE  KeysInv'
<1>1. KeysInv /\ WordsInv /\ phase = "merge" /\ merge.tp \in PairKeys
  BY LearnPairUnfold DEF Inv, Sound
<1>2. /\ DOMAIN store' = DOMAIN Result /\ merge' = None
      /\ \A k \in DOMAIN Result : store'[k].content = Result[k].content
  BY LearnPairTable
<1>3. /\ PairKeys' = NewKeys /\ UnitKeys' = UnitKeys
      /\ \A k, c : k \in NewKeys /\ c = <<NewText(k[1]), NewText(k[2])>> => KeyContent(k)' = c
  BY LearnPairEntry
<1>4. DOMAIN Result \subseteq NewKeys \cup UnitKeys
  BY <1>1, ResultFreqs
<1>5. ASSUME NEW k \in DOMAIN Result, k \in NewKeys PROVE store'[k].content = KeyContent(k)'
  BY <1>1, <1>2, <1>3, <1>5, ResultContent
<1>6. ASSUME NEW k \in DOMAIN Result, k \in UnitKeys PROVE store'[k].content = KeyContent(k)'
  <2>1. k \in DOMAIN store /\ Result[k] = store[k]
    BY <1>1, <1>6, ResultFreqs, NewKeyTypes
  <2>2. store[k].content = KeyContent(k) /\ k[1] = Sentinel
    BY <1>1, <1>6, <2>1 DEF KeysInv, UnitKeys
  <2> QED BY <1>2, <2>1, <2>2 DEF KeyContent
<1> QED BY <1>2, <1>3, <1>4, <1>5, <1>6 DEF KeysInv

\* A unit that the merge did not count differently: it is in the vocabulary,
\* or it is no operand.
LEMMA UnitsKept ==
  ASSUME Inv, UNCHANGED frozen, LearnPair, NEW u \in Unit
  PROVE  KeyFreq(<<Sentinel, u>>)' = KeyFreq(<<Sentinel, u>>)
<1>1. /\ WordsInv /\ phase = "merge" /\ merge.tp \in PairKeys /\ words' = After
  BY LearnPairUnfold DEF Inv, Sound
<1> DEFINE text == merge.content[1] \o merge.content[2]
<1>2. /\ Len(vocab) < MaxVocab /\ text \in Seq(Int) /\ text # << >>
      /\ vocab' = Append(vocab, text) /\ \A x : <<x>> # text
  BY LearnPairEntry
<1> HIDE DEF text
<1>3. Elements(vocab') = Elements(vocab) \cup {text}
  BY <1>1, <1>2, NewEntry
<1>4. <<u>> \in Elements(vocab') <=> <<u>> \in Elements(vocab)
  BY <1>2, <1>3
<1>5. /\ KeyFreq(<<Sentinel, u>>) = IF u \in Unmaterialized THEN WeightedUnits(u) ELSE 0
      /\ KeyFreq(<<Sentinel, u>>)' = IF u \in Unmaterialized' THEN WeightedUnits(u)' ELSE 0
  BY DEF KeyFreq
<1>6. CASE u \in {merge.tp[1], merge.tp[2]}
  <2>1. PICK i \in DOMAIN vocab : vocab[i] = TextOf(u)
    BY <1>1, <1>6, OperandsKnown
  <2>2. <<u>> \in Elements(vocab)
    BY <2>1 DEF TextOf, Elements
  <2>3. u \notin Unmaterialized /\ u \notin Unmaterialized'
    BY <1>4, <2>2 DEF Unmaterialized
  <2> QED BY <1>5, <2>3
<1>7. CASE u \notin {merge.tp[1], merge.tp[2]}
  <2>1. u # NewId
    BY <1>1, Tokens
  <2>2. UnitSum(After, u) = UnitSum(words, u)
    BY <1>1, <1>7, <2>1, AfterFacts
  <2>3. WeightedUnits(u)' = UnitSum(After, u) /\ WeightedUnits(u) = UnitSum(words, u)
    BY <1>1, Zenon DEF WeightedUnits, UnitSum
  <2>4. After \in Inventory(Token \cup {NewId}) /\ words \in Inventory(Token)
    BY <1>1, AfterFacts DEF WordsInv
  <2>5. /\ UnitSum(words, u) > 0 <=> \E i \in DOMAIN words : u \in Elements(words[i].idxs)
        /\ UnitSum(After, u) > 0 <=> \E i \in DOMAIN After : u \in Elements(After[i].idxs)
    BY <2>4, WeightedCounts
  <2>6. u \in Unmaterialized <=> /\ u \notin frozen /\ <<u>> \notin Elements(vocab)
                                 /\ UnitSum(words, u) > 0
    BY <2>5 DEF Unmaterialized
  <2>7. u \in Unmaterialized' <=> /\ u \notin frozen' /\ <<u>> \notin Elements(vocab')
                                  /\ UnitSum(After, u) > 0
    BY <1>1, <2>5 DEF Unmaterialized
  <2> QED BY <1>4, <1>5, <2>2, <2>3, <2>6, <2>7
<1> QED BY <1>6, <1>7

\* The frequencies of the table after a learned pair are those of the new words.
LEMMA LearnPairFreqs ==
  ASSUME Inv, UNCHANGED frozen, LearnPair
  PROVE  FreqInv'
<1>1. /\ KeysInv /\ FreqInv /\ WordsInv /\ phase = "merge" /\ merge.tp \in PairKeys
      /\ words' = After /\ ready
  BY LearnPairUnfold, MergeFreq DEF Inv, Sound
<1>2. /\ DOMAIN store' = DOMAIN Result /\ merge' = None
      /\ \A k \in DOMAIN Result : store'[k].freq = Result[k].freq
  BY LearnPairTable
<1>3. PairKeys' = NewKeys /\ UnitKeys' = UnitKeys
  BY LearnPairEntry
<1>4. \A k : HeldFreq(k)' = IF k \in DOMAIN Result THEN Result[k].freq ELSE 0
  BY <1>2 DEF HeldFreq
<1>5. ASSUME NEW k \in NewKeys PROVE HeldFreq(k)' = KeyFreq(k)'
  <2>1. k[1] # Sentinel
    <3>1. k \in Id \X Id
      BY <1>1, NewKeyTypes
    <3> QED BY <3>1, Keys
  <2>2. KeyFreq(k)' = IF HasFrozen(k) THEN 0 ELSE WeightedPairs(k)'
    BY <2>1 DEF KeyFreq, HasFrozen
  <2>3. WeightedPairs(k)' = PairSum(After, k)
    BY <1>1, Zenon DEF WeightedPairs, PairSum
  <2> QED BY <1>1, <1>4, <2>2, <2>3, ResultFreqs
<1>6. ASSUME NEW k \in UnitKeys PROVE HeldFreq(k)' = KeyFreq(k)'
  <2>1. k = <<Sentinel, k[2]>> /\ k[2] \in Unit
    BY DEF UnitKeys
  <2>2. KeyFreq(k)' = KeyFreq(k)
    <3>1. PICK u \in Unit : k = <<Sentinel, u>>
      BY <2>1
    <3> QED BY <3>1, UnitsKept
  <2>3. k # merge.tp
    BY <1>1, KeyTypes
  <2>4. HeldFreq(k)' = HeldFreq(k)
    BY <1>1, <1>4, <2>3, ResultFreqs, NewKeyTypes DEF HeldFreq
  <2> QED BY <1>1, <2>2, <2>4 DEF FreqInv
<1> QED BY <1>3, <1>5, <1>6 DEF FreqInv

\* The handles and the threshold after a learned pair.
LEMMA LearnPairHandles ==
  ASSUME Inv, LearnPair
  PROVE  OccInv' /\ HandleInv' /\ ThresholdInv'
<1>1. /\ ThresholdInv /\ phase = "merge" /\ merge.tp \in PairKeys /\ words' = After
      /\ Store!StoreTypeOK /\ Store!ResidencyAgrees /\ WordsInv /\ merge # None
  BY LearnPairUnfold, MergeFreq DEF Inv, Sound, Store!FrontierInv
<1>2. /\ DOMAIN store' = DOMAIN Result /\ merge' = None
      /\ \A k \in DOMAIN Result :
           /\ store'[k].freq = Result[k].freq
           /\ store'[k].occ = Result[k].occ \/ (Store!Bounded /\ store'[k].occ = None)
      /\ \/ threshold' = threshold
         \/ threshold' # None
         \/ \E k \in DOMAIN Result : Result[k].occ # None /\ ~(Result[k].freq > 0)
  BY LearnPairTable
<1>3. \A k \in DOMAIN Result \cap (Id \X Id) : k \in NewKeys
  BY <1>1, ResultFreqs, KeyTypes
<1>4. ASSUME NEW k \in DOMAIN Result, k \in NewKeys
      PROVE  /\ Result[k].occ # None => CoversAfter(Result[k].occ, k)
             /\ IF Store!Bounded THEN Result[k].occ # None => Result[k].freq > 0
                                 ELSE Result[k].occ # None
  BY <1>1, <1>4, ResultHandles
<1>5. DOMAIN After = DOMAIN words
  BY <1>1, AfterFacts
<1>6. OccInv'
  <2>1. ASSUME NEW k \in DOMAIN store', k \in Id \X Id, store'[k].occ # None
        PROVE  Covers(store[k].occ, k)'
    <3>1. k \in DOMAIN Result /\ k \in NewKeys /\ store'[k].occ = Result[k].occ
      BY <1>2, <1>3, <2>1
    <3>2. CoversAfter(store'[k].occ, k)
      BY <1>4, <2>1, <3>1
    <3>3. Occurrences'[k] = {i \in DOMAIN After : k \in PairsOf(After[i].idxs)}
      BY <1>1, <2>1 DEF Occurrences, Id
    <3> QED BY <1>1, <1>5, <3>2, <3>3 DEF Covers, CoversAfter
  <2> QED BY <1>2, <2>1 DEF OccInv, Id
<1>7. HandleInv'
  <2> SUFFICES ASSUME NEW k \in DOMAIN store', k \in Id \X Id
               PROVE  IF Store!Bounded THEN store'[k].occ # None => store'[k].freq > 0
                                       ELSE store'[k].occ # None
    BY DEF HandleInv, Id, Store!Bounded
  <2>1. k \in DOMAIN Result /\ k \in NewKeys
    BY <1>2, <1>3
  <2> QED BY <1>2, <1>4, <2>1
<1>8. ThresholdInv'
  <2>1. ~(Store!Bounded /\ threshold' = None)
    <3> SUFFICES ASSUME Store!Bounded, threshold' = None PROVE FALSE
      OBVIOUS
    <3>1. threshold # None
      BY <1>1, KeyTypes DEF ThresholdInv
    <3>2. PICK k \in DOMAIN Result : Result[k].occ # None /\ ~(Result[k].freq > 0)
      BY <1>2, <3>1
    <3>3. k \in UnitKeys
      BY <1>1, <1>4, <3>2, ResultFreqs
    <3>4. k \in DOMAIN store /\ store[k].occ # None
      BY <1>1, <3>2, <3>3, ResultFreqs, NewKeyTypes
    <3>5. k \in Id \X Id
      BY <1>1, <3>4 DEF Store!ResidencyAgrees, Store!StoreTypeOK
    <3> QED BY <1>1, <3>3, <3>5, KeyTypes
  <2> QED BY <2>1 DEF ThresholdInv, Store!Bounded
<1> QED BY <1>6, <1>7, <1>8

\* No pair of the new words is more frequent than the learned one, which is no
\* more frequent than the merges before it.
LEMMA LearnPairRarest ==
  ASSUME Inv, UNCHANGED frozen, LearnPair
  PROVE  RarestInv' /\ (adds = 0 => FinalMergeIsRarest)'
<1>1. /\ RarestInv /\ (adds = 0 => FinalMergeIsRarest) /\ MergesInv /\ WordsInv
      /\ phase = "merge" /\ merge.tp \in PairKeys /\ words' = After /\ adds' = adds
      /\ merges' = Append(merges, [tp |-> merge.tp, target |-> NewId, freq |-> merge.freq])
  BY LearnPairUnfold DEF Inv, Sound
<1> SUFFICES ASSUME adds = 0
             PROVE  RarestInv' /\ FinalMergeIsRarest'
  BY <1>1 DEF RarestInv
<1> DEFINE e == [tp |-> merge.tp, target |-> NewId, freq |-> merge.freq]
           n == Len(merges)
<1>2. /\ n \in Nat /\ DOMAIN merges = 1..n
      /\ DOMAIN merges' = 1..(n + 1) /\ merges'[n + 1] = e
      /\ \A r \in DOMAIN merges : merges'[r] = merges[r]
  <2>1. merges' = Append(merges, e) /\ \E A : merges \in Seq(A)
    BY <1>1 DEF MergesInv
  <2> HIDE DEF e
  <2> QED BY <2>1
<1>3. /\ merge.freq = KeyFreq(merge.tp) /\ merge.freq \in Nat
      /\ KeyFreq(merge.tp) = PairSum(words, merge.tp)
  <2>1. ~HasFrozen(merge.tp)
    BY <1>1, MergeKeptOut
  <2> QED BY <1>1, <2>1, MergeFreq, KeyTypes, WordKeys DEF KeyFreq
<1>4. \A k \in NewKeys : KeyFreq(k)' = IF HasFrozen(k) THEN 0 ELSE PairSum(After, k)
  <2> SUFFICES ASSUME NEW k \in NewKeys
               PROVE  KeyFreq(k)' = IF HasFrozen(k) THEN 0 ELSE PairSum(After, k)
    OBVIOUS
  <2>1. WeightedPairs(k)' = PairSum(After, k)
    BY <1>1, Zenon DEF WeightedPairs, PairSum
  <2>2. k[1] # Sentinel
    <3>1. k \in Id \X Id
      BY <1>1, NewKeyTypes
    <3> QED BY <3>1, Keys
  <2> QED BY <2>1, <2>2 DEF KeyFreq, HasFrozen
<1>5. \A k : PairSum(After, k) \in Nat /\ WeightedPairs(k) \in Nat
  <2>1. After \in Inventory(Token \cup {NewId})
    BY <1>1, AfterFacts
  <2> QED BY <1>1, <2>1, WeightedCounts, WordKeys
<1>6. ASSUME NEW k \in NewKeys
      PROVE  \E q \in PairKeys : KeyFreq(k)' <= KeyFreq(q) /\ KeyFreq(q) <= merge.freq
  <2>1. CASE HasFrozen(k)
    BY <1>1, <1>3, <1>4, <2>1
  <2>2. CASE ~HasFrozen(k) /\ k \in PairKeys
    <3>1. k[1] # NewId /\ k[2] # NewId
      BY <1>1, <2>2, NewKeyTypes
    <3>2. PairSum(After, k) <= WeightedPairs(k)
      BY <1>1, <3>1, AfterFacts, WordKeys
    <3>3. k[1] # Sentinel
      BY <1>1, <2>2, KeyTypes
    <3>4. KeyFreq(k) <= merge.freq /\ KeyFreq(k) = WeightedPairs(k)
      BY <1>1, <2>2, <3>3, MergeIsBest DEF KeyFreq
    <3> QED BY <1>4, <2>2, <3>2, <3>4
  <2>3. CASE ~HasFrozen(k) /\ k \notin PairKeys
    <3>1. PairSum(After, k) <= PairSum(words, merge.tp)
      BY <1>1, <2>3, NewKeyTypes, AfterFacts
    <3> QED BY <1>1, <1>3, <1>4, <2>3, <3>1
  <2> QED BY <2>1, <2>2, <2>3
<1>7. /\ \A r \in DOMAIN merges : merges[r].freq \in Nat
      /\ \A q \in PairKeys : KeyFreq(q) \in Nat
      /\ \A k \in NewKeys : KeyFreq(k)' \in Nat
  BY <1>1, <1>4, <1>5, MergeTypes, Recount
<1>8. ASSUME NEW r \in DOMAIN merges', NEW k \in NewKeys
      PROVE  KeyFreq(k)' <= merges'[r].freq
  <2>0. PICK q \in PairKeys : KeyFreq(k)' <= KeyFreq(q) /\ KeyFreq(q) <= merge.freq
    BY <1>6
  <2>1. CASE r = n + 1
    BY <1>2, <1>3, <1>7, <2>0, <2>1
  <2>2. CASE r \in DOMAIN merges
    <3>1. KeyFreq(q) <= merges[r].freq
      BY <1>1, <2>2 DEF RarestInv
    <3> QED BY <1>2, <1>7, <2>0, <2>2, <3>1
  <2> QED BY <1>2, <2>1, <2>2
<1>9. RarestInv'
  <2>1. PairKeys' = NewKeys
    BY LearnPairEntry
  <2> QED BY <1>8, <2>1 DEF RarestInv
<1>10. FinalMergeIsRarest'
  <2> SUFFICES ASSUME NEW r \in DOMAIN merges', NEW q \in DOMAIN merges', r < q
               PROVE  merges'[r].freq >= merges'[q].freq
    BY DEF FinalMergeIsRarest
  <2>1. r \in DOMAIN merges /\ merges'[r] = merges[r]
    BY <1>2
  <2>2. CASE q = n + 1
    <3>1. merges[r].freq >= KeyFreq(merge.tp)
      BY <1>1, <1>3, <1>7, <2>1 DEF RarestInv
    <3> QED BY <1>2, <1>3, <2>1, <2>2, <3>1
  <2>3. CASE q \in DOMAIN merges
    BY <1>1, <1>2, <2>1, <2>3 DEF FinalMergeIsRarest
  <2> QED BY <1>2, <2>2, <2>3
<1> QED BY <1>9, <1>10

\* What is frozen is not admitted to the table.
LEMMA LearnPairKeptOut ==
  ASSUME Inv, UNCHANGED frozen, LearnPair
  PROVE  KeptOut'
<1>1. \A k \in DOMAIN store' : ~HasFrozen(k)
  BY LearnPairUnfold, LearnPairTable, ResultFreqs
<1> QED BY <1>1 DEF KeptOut, HasFrozen

\* A learned pair is replaced everywhere, and everything the table holds is
\* right about the new words.
LEMMA LearnPairStep ==
  ASSUME Inv, UNCHANGED frozen, LearnPair
  PROVE  Inv'
BY LearnPairWords, LearnPairMerges, LearnPairKeys, LearnPairFreqs, LearnPairHandles,
   LearnPairRarest, LearnPairKeptOut, LearnPairTable DEF Inv, Sound

-----------------------------------------------------------------------------
(* The invariant holds. *)

\* Every step of the trainer keeps the invariant.
LEMMA InvStep == PositiveInventories /\ Inv /\ [Next]_vars => Inv'
<1> SUFFICES ASSUME PositiveInventories, Inv, [Next]_vars PROVE Inv'
  OBVIOUS
<1>1. CASE UNCHANGED vars
  <2>1. UNCHANGED trainerVars /\ UNCHANGED tableVars /\ frozen' = frozen
    BY <1>1 DEF vars
  <2>2. SameWords /\ UNCHANGED <<merges, adds, ready, store, threshold, merge>>
        /\ UNCHANGED Store!storeVars
    BY <2>1 DEF trainerVars, tableVars, Store!storeVars, SameWords
  <2>3. CallInv'
    BY <2>1 DEF Inv, Sound, CallInv, trainerVars, tableVars
  <2> QED BY <2>2, <2>3, QuietStep
<1>2. CASE Next
  <2>1. UNCHANGED frozen
    BY <1>2 DEF Next
  <2>2. ASSUME NEW inventory \in Added, AddWords(inventory) PROVE Inv'
    BY <2>1, <2>2, AddWordsStep
  <2>3. CASE InitTraining \/ \E target \in Targets : TrainUntil(target)
    BY <2>1, <2>3, BuildStep, TrainerAssumption DEF Inv
  <2>4. CASE Step \/ TrainNext \/ TrainReached
    BY <2>1, <2>4, CallStep
  <2>5. CASE PopStale \/ Refill \/ Exhausted
    BY <2>1, <2>5, SearchStep
  <2>6. CASE Select
    BY <2>1, <2>6, SelectStep
  <2>7. CASE StopAtCutoff
    BY <2>1, <2>7, DeclineStep
  <2>8. CASE LearnUnit
    BY <2>1, <2>8, LearnUnitStep
  <2>9. CASE LearnPair
    BY <2>1, <2>9, LearnPairStep
  <2> QED BY <1>2, <2>2, <2>3, <2>4, <2>5, <2>6, <2>7, <2>8, <2>9 DEF Next, TrainingCall, Loop
<1> QED BY <1>1, <1>2

\* The invariant holds in every reachable state.
THEOREM Invariant == PositiveInventories => (Spec => []Inv)
<1> SUFFICES ASSUME PositiveInventories PROVE Spec => []Inv
  OBVIOUS
<1>1. Init => Inv
  BY InvInit
<1>2. Inv /\ [Next]_vars => Inv'
  BY InvStep
<1> QED BY <1>1, <1>2, PTL DEF Spec

-----------------------------------------------------------------------------
(* What it says about the code. *)

\* Words, vocabulary, merges and call are what the code's types say.
THEOREM TypeCorrect == PositiveInventories => (Spec => []TypeOK)
<1> SUFFICES ASSUME PositiveInventories PROVE Spec => []TypeOK
  OBVIOUS
<1>1. Inv => TypeOK
  <2> SUFFICES ASSUME Inv PROVE TypeOK
    OBVIOUS
  <2>1. WordsInv /\ MergesInv /\ CallInv
    BY DEF Inv, Sound
  <2>2. \A i \in DOMAIN words : words[i].idxs \in Seq(Id) /\ words[i].freq \in Int
    <3>1. words \in Inventory(Token) /\ Token \subseteq Id
      BY <2>1, Tokens DEF WordsInv
    <3>2. \A i \in DOMAIN words : words[i].idxs \in Seq(Token) /\ words[i].freq \in Int
      BY <3>1, InventoryType
    <3> QED BY <3>1, <3>2
  <2>3. \A r \in DOMAIN merges : /\ merges[r].tp \in Id \X Id
                                 /\ merges[r].target \in DOMAIN vocab
                                 /\ merges[r].freq \in Int
    BY <2>1, MergeTypes, KeyTypes
  <2> QED BY <2>1, <2>2, <2>3 DEF TypeOK, WordsInv, CallInv
<1> QED BY <1>1, Invariant, PTL

\* "Frequencies stay exact": in every state in which the table was built from
\* the words, its frequencies are those of a recount.
THEOREM FrequenciesAreExact == PositiveInventories => (Spec => []FrequenciesExact)
<1> SUFFICES ASSUME PositiveInventories PROVE Spec => []FrequenciesExact
  OBVIOUS
<1>1. Inv => FrequenciesExact
  <2> SUFFICES ASSUME Inv, ready, NEW tp \in DOMAIN Counted \cup DOMAIN store
               PROVE  HeldFreq(tp) = IF tp \in DOMAIN Counted THEN Counted[tp].freq ELSE 0
    BY Zenon DEF FrequenciesExact, HeldFreq
  <2>1. WordsInv /\ KeysInv /\ FreqInv
    BY DEF Inv, Sound
  <2>2. tp \in PairKeys \cup UnitKeys
    BY <2>1, Recount DEF KeysInv
  <2>3. HeldFreq(tp) = KeyFreq(tp)
    BY <2>1, <2>2 DEF FreqInv
  <2> QED BY <2>1, <2>2, <2>3, Recount
<1> QED BY <1>1, Invariant, PTL

\* A handle, however it was made, covers every word its pair is in.
THEOREM HandlesAreComplete == PositiveInventories => (Spec => []OccurrencesComplete)
<1> SUFFICES ASSUME PositiveInventories PROVE Spec => []OccurrencesComplete
  OBVIOUS
<1>1. Inv => OccurrencesComplete
  <2> SUFFICES ASSUME Inv, ready, NEW tp \in DOMAIN store, store[tp].occ # None,
                      NEW i \in DOMAIN words, tp \in PairsOf(words[i].idxs)
               PROVE  i \in store[tp].occ
    BY DEF OccurrencesComplete
  <2>1. WordsInv /\ OccInv
    BY DEF Inv, Sound
  <2>2. tp \in Id \X Id
    BY <2>1, WordKeys, KeyTypes
  <2>3. Covers(store[tp].occ, tp)
    BY <2>1, <2>2 DEF OccInv
  <2> QED BY <2>2, <2>3 DEF Covers, Occurrences
<1> QED BY <1>1, Invariant, PTL

\* The assertion in _step_with_observer cannot fail: rewriting the words of the
\* occurrence set removes exactly the frequency the table had for the pair.
THEOREM AssertionHolds == PositiveInventories => (Spec => []SelectedFreqIsRemoved)
<1> SUFFICES ASSUME PositiveInventories PROVE Spec => []SelectedFreqIsRemoved
  OBVIOUS
<1>1. Inv => SelectedFreqIsRemoved
  <2> SUFFICES ASSUME Inv, phase = "merge", merge.tp \in Id \X Id
               PROVE  RemovedFreq(Change) = merge.freq
    BY DEF SelectedFreqIsRemoved, Change
  <2>1. WordsInv /\ merge.tp \in PairKeys
    BY MergeFreq, KeyTypes DEF Inv, Sound
  <2>2. /\ merge.freq = PairSum(words, merge.tp) /\ PairSum(words, merge.tp) \in Nat
        /\ merge.freq > 0
    BY <2>1, MergeFreq, MergeKeptOut, KeyTypes, WordKeys DEF KeyFreq
  <2>3. PairSum(After, merge.tp) = 0
    BY <2>1, AfterFacts
  <2>4. merge.tp \in DOMAIN Change
    BY <2>1, <2>2, <2>3, ChangeFacts
  <2>5. Change[merge.tp].freq = 0 - PairSum(words, merge.tp)
    BY <2>1, <2>3, <2>4, ChangeFacts
  <2> QED BY <2>2, <2>4, <2>5 DEF RemovedFreq
<1> QED BY <1>1, Invariant, PTL

\* apply_changes never reads a threshold that no ranking has set.
THEOREM ThresholdIsThere == PositiveInventories => (Spec => []ThresholdIsSet)
<1> SUFFICES ASSUME PositiveInventories PROVE Spec => []ThresholdIsSet
  OBVIOUS
<1>1. Table!Bounded <=> Store!Bounded
  BY SameOrder
<1>2. Inv => ThresholdIsSet
  BY <1>1, MergeFreq DEF ThresholdIsSet, Inv, Sound, ThresholdInv
<1> QED BY <1>2, Invariant, PTL

\* A pair is merged only when both of its operands have a vocabulary entry,
\* though initial units and pairs compete for every step.
THEOREM UnitsComeFirst == PositiveInventories => (Spec => []UnitsBeforePairs)
<1> SUFFICES ASSUME PositiveInventories PROVE Spec => []UnitsBeforePairs
  OBVIOUS
<1>1. Inv => UnitsBeforePairs
  BY DEF Inv, Sound, MergesInv
<1> QED BY <1>1, Invariant, PTL

\* validate_model may look at the final merge only, as long as the inventory is
\* not replaced in the middle of a session.
THEOREM FinalIsRarest == PositiveInventories /\ MaxAdds = 0 => (Spec => []FinalMergeIsRarest)
<1> SUFFICES ASSUME PositiveInventories, MaxAdds = 0 PROVE Spec => []FinalMergeIsRarest
  OBVIOUS
<1>1. Inv => FinalMergeIsRarest
  BY DEF Inv, Sound, WordsInv
<1> QED BY <1>1, Invariant, PTL

-----------------------------------------------------------------------------
(* Training implements BpeAbstract. *)

\* BpeAbstract counts and rewrites words as the trainer does.
LEMMA SameCounts ==
  /\ \A f : Abs!SumFunction(f) = SumFunction(f)
  /\ \A w, k : Abs!PairCount(w, k) = PairCount(w, k) /\ Abs!UnitCount(w, k) = UnitCount(w, k)
  /\ \A w : Abs!PairsOf(w) = PairsOf(w) /\ Abs!Elements(w) = Elements(w)
  /\ \A w, tp, target : Abs!Replaced(w, tp, target) = Replaced(w, tp, target)
<1>1. ASSUME NEW f PROVE Abs!SumFunction(f) = SumFunction(f)
  BY Zenon DEF SumFunction, SumFunctionOnSet, FoldFunctionOnSet, MapThenFoldSet,
     Abs!SumFunction, Abs!SumFunctionOnSet, Abs!FoldFunctionOnSet, Abs!MapThenFoldSet
<1>2. \A S : Abs!Cardinality(S) = Cardinality(S)
  BY Zenon DEF Abs!Cardinality, Cardinality
<1>3. \A w, k : Abs!PairCount(w, k) = PairCount(w, k) /\ Abs!UnitCount(w, k) = UnitCount(w, k)
  BY <1>2, Zenon DEF Abs!PairCount, PairCount, Abs!UnitCount, UnitCount, Abs!PairAt, PairAt
<1>4. \A w : Abs!PairsOf(w) = PairsOf(w) /\ Abs!Elements(w) = Elements(w)
  BY Zenon DEF Abs!PairsOf, PairsOf, Abs!Elements, Elements, Abs!PairAt, PairAt
<1>5. \A w, tp, target : Abs!Replaced(w, tp, target) = Replaced(w, tp, target)
  BY Zenon DEF Abs!Replaced, Replaced, Abs!PairAt, PairAt
<1> QED BY <1>1, <1>3, <1>4, <1>5

\* The event that learning the key k is, and the candidate the table has of it.
EventOf(k) ==
  [unit    |-> k[1] = Sentinel,
   freq    |-> KeyFreq(k),
   tp      |-> IF k[1] = Sentinel THEN <<0, k[2]>> ELSE k,
   content |-> KeyContent(k)]

CandidateOf(k) == [freq |-> KeyFreq(k), tp |-> k, content |-> KeyContent(k)]

\* The table and the abstract specification rank keys alike.
LEMMA SameRank ==
  ASSUME WordsInv, NEW k \in PairKeys \cup UnitKeys, NEW l \in PairKeys \cup UnitKeys
  PROVE  Abs!Worse(EventOf(k), EventOf(l)) <=> Store!Less(CandidateOf(k), CandidateOf(l))
<1>1. /\ k \in UnitKeys <=> k[1] = Sentinel
      /\ l \in UnitKeys <=> l[1] = Sentinel
      /\ k \in Id \X Id <=> k[1] # Sentinel
      /\ l \in Id \X Id <=> l[1] # Sentinel
  BY KeyTypes DEF UnitKeys
<1>2. /\ EventOf(k).unit = (k[1] = Sentinel) /\ EventOf(l).unit = (l[1] = Sentinel)
      /\ EventOf(k).freq = KeyFreq(k) /\ EventOf(l).freq = KeyFreq(l)
      /\ EventOf(k).content = KeyContent(k) /\ EventOf(l).content = KeyContent(l)
      /\ EventOf(k).tp = IF k[1] = Sentinel THEN <<0, k[2]>> ELSE k
      /\ EventOf(l).tp = IF l[1] = Sentinel THEN <<0, l[2]>> ELSE l
  BY DEF EventOf
<1>3. /\ CandidateOf(k).tp = k /\ CandidateOf(l).tp = l
      /\ CandidateOf(k).freq = KeyFreq(k) /\ CandidateOf(l).freq = KeyFreq(l)
      /\ Store!LabelOf(CandidateOf(k)) = [tp |-> k, content |-> KeyContent(k)]
      /\ Store!LabelOf(CandidateOf(l)) = [tp |-> l, content |-> KeyContent(l)]
  BY DEF CandidateOf, Store!LabelOf
<1>4. ASSUME k[1] = Sentinel <=> l[1] = Sentinel
      PROVE  TieLess(EventOf(k), EventOf(l))
               <=> TieLess(Store!LabelOf(CandidateOf(k)), Store!LabelOf(CandidateOf(l)))
  <2>1. SmallestPairId(EventOf(k), EventOf(l))
          <=> SmallestPairId(Store!LabelOf(CandidateOf(k)), Store!LabelOf(CandidateOf(l)))
    <3>1. CASE k[1] = Sentinel
      <4>1. EventOf(k).tp = <<0, k[2]>> /\ EventOf(l).tp = <<0, l[2]>>
        BY <1>2, <1>4, <3>1
      <4>2. Sentinel \in Int
        BY Keys
      <4> QED BY <1>3, <1>4, <3>1, <4>1, <4>2 DEF SmallestPairId
    <3>2. CASE k[1] # Sentinel
      BY <1>2, <1>3, <1>4, <3>2 DEF SmallestPairId
    <3> QED BY <3>1, <3>2
  <2>2. LargestContent(EventOf(k), EventOf(l))
          <=> LargestContent(Store!LabelOf(CandidateOf(k)), Store!LabelOf(CandidateOf(l)))
    BY <1>2, <1>3 DEF LargestContent
  <2> QED BY <2>1, <2>2 DEF TieLess
<1>5. Abs!Worse(EventOf(k), EventOf(l)) <=>
        \/ KeyFreq(k) < KeyFreq(l)
        \/ KeyFreq(k) = KeyFreq(l) /\ k[1] # Sentinel /\ l[1] = Sentinel
        \/ /\ KeyFreq(k) = KeyFreq(l) /\ (k[1] = Sentinel <=> l[1] = Sentinel)
           /\ TieLess(EventOf(k), EventOf(l))
  BY <1>2 DEF Abs!Worse
<1>6. Store!Less(CandidateOf(k), CandidateOf(l)) <=>
        \/ KeyFreq(k) < KeyFreq(l)
        \/ KeyFreq(k) = KeyFreq(l) /\ k[1] # Sentinel /\ l[1] = Sentinel
        \/ /\ KeyFreq(k) = KeyFreq(l) /\ (k[1] = Sentinel <=> l[1] = Sentinel)
           /\ TieLess(Store!LabelOf(CandidateOf(k)), Store!LabelOf(CandidateOf(l)))
  BY <1>1, <1>3, Zenon DEF Store!Less, UnitKeys
<1> QED BY <1>4, <1>5, <1>6

\* The events the words offer are those of the keys with a frequency.
LEMMA EventsOfKeys ==
  ASSUME WordsInv
  PROVE  /\ \A e \in Abs!Events : \E k \in PairKeys \cup UnitKeys :
              e = EventOf(k) /\ KeyFreq(k) > 0
         /\ \A k \in PairKeys \cup UnitKeys : KeyFreq(k) > 0 => EventOf(k) \in Abs!Events
<1>1. \A k : HasFrozen(k) <=> {k[1], k[2]} \cap frozen # {}
  BY DEF HasFrozen
<1>2. \A id : Abs!Text(id) = TextOf(id)
  BY DEF Abs!Text, TextOf
<1>3. \A tp : Abs!TrueFreq(tp) = WeightedPairs(tp)
  BY SameCounts, Zenon DEF Abs!TrueFreq, WeightedPairs
<1>4. \A u : Abs!TrueUnitFreq(u) = WeightedUnits(u)
  BY SameCounts, Zenon DEF Abs!TrueUnitFreq, WeightedUnits
<1>5. Abs!Missing = Unmaterialized
  BY SameCounts, Zenon DEF Abs!Missing, Unmaterialized
<1>6. ASSUME NEW k \in PairKeys, ~HasFrozen(k)
      PROVE  EventOf(k) = [unit |-> FALSE, freq |-> Abs!TrueFreq(k), tp |-> k,
                           content |-> <<Abs!Text(k[1]), Abs!Text(k[2])>>]
             /\ KeyFreq(k) = WeightedPairs(k)
  <2>1. k[1] # Sentinel
    BY KeyTypes
  <2> QED BY <1>2, <1>3, <1>6, <2>1 DEF EventOf, KeyFreq, KeyContent
<1>7. ASSUME NEW u \in Unmaterialized
      PROVE  EventOf(<<Sentinel, u>>) = [unit |-> TRUE, freq |-> Abs!TrueUnitFreq(u),
                                         tp |-> <<0, u>>, content |-> << << >>, <<u>> >>]
             /\ <<Sentinel, u>> \in UnitKeys /\ KeyFreq(<<Sentinel, u>>) = WeightedUnits(u)
  BY <1>4 DEF EventOf, KeyFreq, KeyContent, UnitKeys, Unmaterialized
<1>8. ASSUME NEW e \in Abs!Events
      PROVE  \E k \in PairKeys \cup UnitKeys : e = EventOf(k) /\ KeyFreq(k) > 0
  <2>1. e.freq > 0 /\ (e \in Abs!PairEvents \/ e \in Abs!UnitEvents)
    BY DEF Abs!Events
  <2>2. CASE e \in Abs!PairEvents
    <3>1. PICK k \in UNION {PairsOf(words[i].idxs) : i \in DOMAIN words} :
             /\ ~HasFrozen(k)
             /\ e = [unit |-> FALSE, freq |-> Abs!TrueFreq(k), tp |-> k,
                     content |-> <<Abs!Text(k[1]), Abs!Text(k[2])>>]
      BY <1>1, <2>2, SameCounts DEF Abs!PairEvents
    <3>2. k \in PairKeys
      BY WordKeys
    <3> QED BY <1>3, <1>6, <2>1, <3>1, <3>2
  <2>3. CASE e \in Abs!UnitEvents
    <3>1. PICK u \in Unmaterialized :
             e = [unit |-> TRUE, freq |-> Abs!TrueUnitFreq(u), tp |-> <<0, u>>,
                  content |-> << << >>, <<u>> >>]
      BY <1>5, <2>3 DEF Abs!UnitEvents
    <3> QED BY <1>4, <1>7, <2>1, <3>1
  <2> QED BY <2>1, <2>2, <2>3
<1>9. ASSUME NEW k \in PairKeys, KeyFreq(k) > 0 PROVE EventOf(k) \in Abs!Events
  <2>0. ~HasFrozen(k)
    <3>1. k[1] # Sentinel
      BY KeyTypes
    <3> QED BY <1>9, <3>1 DEF KeyFreq
  <2>1. k \in UNION {PairsOf(words[i].idxs) : i \in DOMAIN words}
    BY <1>6, <1>9, <2>0, WordKeys
  <2>2. EventOf(k) \in Abs!PairEvents
    BY <1>1, <1>6, <2>0, <2>1, SameCounts DEF Abs!PairEvents
  <2> QED BY <1>9, <2>2 DEF Abs!Events, EventOf
<1>10. ASSUME NEW k \in UnitKeys, KeyFreq(k) > 0 PROVE EventOf(k) \in Abs!Events
  <2>1. k = <<Sentinel, k[2]>> /\ k[1] = Sentinel
    BY KeyTypes DEF UnitKeys
  <2>2. k[2] \in Unmaterialized
    BY <1>10, <2>1 DEF KeyFreq
  <2>3. EventOf(k) \in Abs!UnitEvents
    BY <1>5, <1>7, <2>1, <2>2 DEF Abs!UnitEvents
  <2> QED BY <1>10, <2>3 DEF Abs!Events, EventOf
<1> QED BY <1>8, <1>9, <1>10

\* The held merge is an event, and no event the words offer beats it.
LEMMA MergeIsBestEvent ==
  ASSUME Inv, phase = "merge"
  PROVE  /\ EventOf(merge.tp) \in Abs!Events
         /\ \A f \in Abs!Events : ~Abs!Worse(EventOf(merge.tp), f)
<1>1. /\ WordsInv /\ KeysInv /\ FreqInv /\ Store!WinnerIsGlobal
  BY DEF Inv, Sound, Store!FrontierInv
<1>2. /\ ready /\ merge # None /\ merge.tp \in PairKeys \cup UnitKeys
      /\ KeyFreq(merge.tp) > 0 /\ merge.freq = KeyFreq(merge.tp)
      /\ merge.content = KeyContent(merge.tp)
  BY MergeFreq
<1>3. Store!Winner = CandidateOf(merge.tp)
  BY <1>2 DEF Store!Winner, CandidateOf
<1>4. ASSUME NEW f \in Abs!Events PROVE ~Abs!Worse(EventOf(merge.tp), f)
  <2>1. PICK k \in PairKeys \cup UnitKeys : f = EventOf(k) /\ KeyFreq(k) > 0
    BY <1>1, EventsOfKeys
  <2>2. CASE k = merge.tp
    <3>1. Store!Winner \in Store!Candidate
      BY MergeFreq
    <3>2. ~Store!Less(Store!Winner, Store!Winner)
      BY <3>1, TableAssumptions, Store!LessAsymmetric
    <3> QED BY <1>1, <1>2, <1>3, <2>1, <2>2, <3>2, SameRank
  <2>3. CASE k # merge.tp
    <3>1. HeldFreq(k) = KeyFreq(k)
      BY <1>1, <1>2 DEF FreqInv
    <3>2. k \in DOMAIN store /\ store[k].freq = KeyFreq(k) /\ store[k].content = KeyContent(k)
      BY <1>1, <2>1, <2>3, <3>1 DEF HeldFreq, KeysInv
    <3>3. k \in Store!Live(store) /\ Store!CandIn(store, k) = CandidateOf(k)
      BY <2>1, <3>2 DEF Store!Live, Store!CandIn, CandidateOf
    <3>4. ~Store!Less(CandidateOf(merge.tp), CandidateOf(k))
      BY <1>1, <1>2, <1>3, <3>3 DEF Store!WinnerIsGlobal
    <3> QED BY <1>1, <1>2, <2>1, <3>4, SameRank
  <2> QED BY <2>2, <2>3
<1> QED BY <1>1, <1>2, <1>4, EventsOfKeys

\* A learned pair is the abstract Learn with the event of that pair.
LEMMA LearnPairIsLearn ==
  ASSUME Inv, LearnPair
  PROVE  Abs!Learn
<1> DEFINE e == EventOf(merge.tp)
<1>1. /\ WordsInv /\ phase = "merge" /\ merge.tp \in PairKeys
      /\ words' = After
      /\ vocab' = Append(vocab, merge.content[1] \o merge.content[2])
      /\ merges' = Append(merges, [tp |-> merge.tp, target |-> NewId, freq |-> merge.freq])
  BY LearnPairUnfold DEF Inv, Sound
<1>2. e \in Abs!Events /\ \A f \in Abs!Events : ~Abs!Worse(e, f)
  BY <1>1, MergeIsBestEvent
<1>3. merge.tp[1] # Sentinel /\ merge.content = KeyContent(merge.tp)
      /\ merge.freq = KeyFreq(merge.tp)
  BY <1>1, MergeFreq, KeyTypes
<1>4. e.unit = FALSE /\ e.tp = merge.tp /\ e.content = merge.content /\ e.freq = merge.freq
  BY <1>3 DEF EventOf
<1>5. words' = [i \in DOMAIN words |->
                  [words[i] EXCEPT !.idxs = Abs!Replaced(@, merge.tp, Len(vocab) + 1)]]
  <2>1. After = [i \in DOMAIN words |->
                   [words[i] EXCEPT !.idxs = Replaced(@, merge.tp, NewId)]]
    BY <1>1, AfterFacts
  <2> QED BY <1>1, <2>1, SameCounts DEF NewId
<1> HIDE DEF e
<1> QED BY <1>1, <1>2, <1>4, <1>5 DEF Abs!Learn, NewId

\* A learned unit is the abstract Learn with the event of that unit.
LEMMA LearnUnitIsLearn ==
  ASSUME Inv, LearnUnit
  PROVE  Abs!Learn
<1> DEFINE e == EventOf(merge.tp)
           u == merge.tp[2]
           none == << >>
           text == <<u>>
<1>1. /\ phase = "merge" /\ merge.tp \in UnitKeys
      /\ vocab' = Append(vocab, merge.content[2])
      /\ words' = words /\ merges' = merges
  <2>1. Store!ApplyUnit
    BY SameSearch DEF LearnUnit
  <2> QED BY <2>1 DEF LearnUnit, Store!ApplyUnit, UnitKeys
<1>2. e \in Abs!Events /\ \A f \in Abs!Events : ~Abs!Worse(e, f)
  BY <1>1, MergeIsBestEvent
<1>3. merge.tp[1] = Sentinel /\ u \in Int /\ merge.content = KeyContent(merge.tp)
  BY <1>1, MergeFreq, TrainerAssumption DEF UnitKeys
<1>4. merge.content = <<none, text>>
  BY <1>3 DEF KeyContent
<1>5. e.unit = TRUE /\ e.content = merge.content
  BY <1>3 DEF EventOf
<1>6. none \o text = text
  BY <1>3
<1> HIDE DEF e, none, text
<1>7. e.content[1] \o e.content[2] = merge.content[2]
  BY <1>4, <1>5, <1>6
<1> QED BY <1>1, <1>2, <1>5, <1>7 DEF Abs!Learn

\* Every step of the trainer learns the best event, brings another inventory,
\* or changes nothing the abstract specification knows.
LEMMA AbsStep == PositiveInventories /\ Inv /\ [Next]_vars => [Abs!AbsNext]_(Abs!absVars)
<1> SUFFICES ASSUME Inv, [Next]_vars PROVE Abs!AbsNext \/ UNCHANGED Abs!absVars
  OBVIOUS
<1>1. CASE UNCHANGED vars
  BY <1>1 DEF vars, trainerVars, Abs!absVars
<1>2. CASE Next
  <2>1. UNCHANGED frozen
    BY <1>2 DEF Next
  <2>2. ASSUME NEW inventory \in Added, AddWords(inventory)
        PROVE  Abs!AbsNext
    BY <2>1, <2>2 DEF AddWords, Abs!AbsNext, Abs!NewInventory
  <2>3. CASE InitTraining \/ (\E target \in Targets : TrainUntil(target)) \/ Step
    BY <2>1, <2>3 DEF InitTraining, TrainUntil, Step, Abs!absVars
  <2>4. CASE TrainNext \/ TrainReached \/ PopStale \/ Refill \/ Exhausted \/ Select
    BY <2>1, <2>4 DEF TrainNext, TrainReached, PopStale, Refill, Exhausted, Select,
       trainerVars, Abs!absVars
  <2>5. CASE StopAtCutoff
    BY <2>1, <2>5 DEF StopAtCutoff, Abs!absVars
  <2>6. CASE LearnUnit
    BY <2>1, <2>6, LearnUnitIsLearn DEF Abs!AbsNext
  <2>7. CASE LearnPair
    BY <2>1, <2>7, LearnPairIsLearn DEF Abs!AbsNext
  <2> QED BY <1>2, <2>2, <2>3, <2>4, <2>5, <2>6, <2>7 DEF Next, TrainingCall, Loop
<1> QED BY <1>1, <1>2

\* Training with the candidate table, exact or bounded, is the textbook
\* algorithm: "preserving exact global pair frequencies, winner selection, and
\* tie-breaking" (README), for every inventory, window and tie-break.
THEOREM TrainingLearnsTheBest == PositiveInventories => (Spec => LearnsTheBest)
<1> SUFFICES ASSUME PositiveInventories PROVE Spec => LearnsTheBest
  OBVIOUS
<1>1. Init => Abs!AbsInit
  BY DEF Init, Abs!AbsInit
<1>2. Inv /\ [Next]_vars => [Abs!AbsNext]_(Abs!absVars)
  BY AbsStep
<1> QED BY <1>1, <1>2, Invariant, PTL DEF Spec, LearnsTheBest, Abs!AbsSpec

-----------------------------------------------------------------------------
(* The trainer drives the table only as PairStoreSpec allows, and what holds
   of the table under every driver holds of the trainer's. *)

\* Every step of the trainer is a step of the table's specification.
LEMMA DrivesTable ==
  ASSUME Inv, [Next]_vars
  PROVE  [Store!StoreNext]_(Store!storeVars)
<1>1. CASE UNCHANGED vars
  BY <1>1 DEF vars, tableVars, Store!storeVars
<1>2. CASE Next
  <2>1. WordsInv
    BY DEF Inv, Sound
  <2>2. Counted \in Store!Counted /\ Occurrences \in Store!Scans
    BY <2>1, RecountTypes
  <2>3. CASE (\E inventory \in Added : AddWords(inventory)) \/ TrainReached
    BY <2>3 DEF AddWords, TrainReached, tableVars, Store!storeVars
  <2>4. CASE InitTraining \/ \E target \in Targets : TrainUntil(target)
    <3>1. Store!Build(Counted, Occurrences)
      BY <2>4, SameSearch DEF InitTraining, TrainUntil, BuildTable
    <3> QED BY <2>2, <3>1 DEF Store!StoreNext
  <2>5. CASE Step \/ TrainNext
    <3>1. Store!Search
      BY <2>5, SameSearch DEF Step, TrainNext
    <3> QED BY <3>1 DEF Store!StoreNext
  <2>6. CASE PopStale
    <3>1. PICK c \in heap : /\ HasFrozen(c.tp) \/ ~Table!Current(c)
                            /\ Table!Popped(c) /\ heap' = heap \ {c}
      BY <2>6 DEF PopStale
    <3>2. ~Table!Current(c)
      BY <3>1 DEF Table!Current, KeptOut, Inv
    <3>3. Store!PopStale(c)
      BY <2>6, <3>1, <3>2, SameSearch DEF PopStale, Store!PopStale
    <3> QED BY <3>3 DEF Store!StoreNext
  <2>7. CASE Select
    <3>1. PICK c \in heap : Store!Select(c, Occurrences)
      BY <2>7, SameSearch DEF Select
    <3> QED BY <2>2, <3>1 DEF Store!StoreNext
  <2>8. CASE Refill \/ Exhausted
    <3>1. Store!Refill \/ Store!GiveUp
      BY <2>8, SameSearch DEF Refill, Exhausted
    <3> QED BY <3>1 DEF Store!StoreNext
  <2>9. CASE StopAtCutoff
    <3>1. Store!Decline
      BY <2>9, SameMerge DEF StopAtCutoff
    <3> QED BY <3>1 DEF Store!StoreNext
  <2>10. CASE LearnUnit
    <3>1. Store!ApplyUnit
      BY <2>10, SameSearch DEF LearnUnit
    <3> QED BY <3>1 DEF Store!StoreNext
  <2>11. CASE LearnPair
    <3>1. Kept \in Store!Changes /\ NewId \in Id /\ Store!Apply(NewId, Kept)
      BY <2>11, LearnPairUnfold
    <3> QED BY <3>1 DEF Store!StoreNext
  <2> QED BY <1>2, <2>3, <2>4, <2>5, <2>6, <2>7, <2>8, <2>9, <2>10, <2>11
          DEF Next, TrainingCall, Loop
<1> QED BY <1>1, <1>2

\* The trainer's table behaves as PairStoreSpec, fairness aside: whatever is
\* proved there for every driver holds of every training session.
THEOREM TableIsDriven ==
  PositiveInventories => (Spec => Store!StoreInit /\ [][Store!StoreNext]_(Store!storeVars))
<1> SUFFICES ASSUME PositiveInventories
             PROVE  Spec => Store!StoreInit /\ [][Store!StoreNext]_(Store!storeVars)
  OBVIOUS
<1>1. Init => Store!StoreInit
  BY SameSearch DEF Init
<1>2. Inv /\ [Next]_vars => [Store!StoreNext]_(Store!storeVars)
  BY DrivesTable
<1> QED BY <1>1, <1>2, Invariant, PTL DEF Spec

-----------------------------------------------------------------------------
(* No two live pairs of the table are spelled alike. *)

BaseText(id) == IF id \in Unit THEN <<id>> ELSE BaseVocab[id]

UnitsIn(inventory) == UNION {Elements(inventory[i].idxs) : i \in DOMAIN inventory}

\* A word is cut into bytes or scalars, of which no two are spelled alike.
SpelledInventories ==
  \A inventory \in Inventories \cup Added :
    /\ \A x \in UnitsIn(inventory) : Len(BaseText(x)) = 1
    /\ \A x, y \in UnitsIn(inventory) : BaseText(x) = BaseText(y) => x = y

\* The content of every id.
Text == [id \in Id |-> TextOf(id)]

\* Wherever parts of words are spelled alike, they are cut alike.
WordsApart == \A ws, c : ws = words /\ c = Text => SpelledApart(Int, ws, c)

\* Two live pairs with the same contents are the same pair.
NoTwins ==
  \A k, l \in DOMAIN store \cap (Id \X Id) :
    store[k].freq > 0 /\ store[l].freq > 0 /\ KeyContent(k) = KeyContent(l) => k = l

ApartInv == WordsApart /\ (ready \/ NoTwins)

\* Words of bytes or scalars are cut in one way only.
LEMMA ApartInventory ==
  ASSUME PositiveInventories, SpelledInventories, WordsInv,
         NEW inventory \in Inventories \cup Added
  PROVE  SpelledApart(Int, inventory, Text)
<1> DEFINE T == UnitsIn(inventory)
           c == Text
<1>1. inventory \in Inventory(Token) /\ Token \subseteq Id
  BY BaseWords, Tokens DEF WordsInv
<1>2. \A i \in DOMAIN inventory : inventory[i].idxs \in Seq(Token)
  BY <1>1, InventoryType
<1>3. \A i \in DOMAIN inventory : inventory[i].idxs \in Seq(T)
  <2> TAKE i \in DOMAIN inventory
  <2> DEFINE w == inventory[i].idxs
  <2>1. w \in Seq(Token)
    BY <1>2
  <2>2. \A k \in DOMAIN w : w[k] \in T
    BY DEF UnitsIn, Elements
  <2> HIDE DEF w, T
  <2>3. w \in Seq(T)
    BY <2>1, <2>2
  <2> QED BY <2>3 DEF w
<1>4. ASSUME NEW x \in T
      PROVE  x \in Token /\ TextOf(x) = BaseText(x)
  <2>1. PICK i \in DOMAIN inventory : x \in Elements(inventory[i].idxs)
    BY DEF UnitsIn
  <2> DEFINE base == Unit \cup {id \in DOMAIN BaseVocab : BaseVocab[id] # << >>}
  <2>2. inventory \in Inventory(base)
    BY DEF PositiveInventories
  <2> HIDE DEF base
  <2>3. inventory[i].idxs \in Seq(base)
    BY <2>2, InventoryType
  <2>4. x \in base
    BY <2>1, <2>3 DEF Elements
  <2>5. x \in Token
    BY <1>2, <2>1 DEF Elements
  <2>6. TextOf(x) = BaseText(x)
    BY <2>4 DEF base, TextOf, BaseText, WordsInv
  <2> QED BY <2>5, <2>6
<1>5. \A x \in T : c[x] = BaseText(x) /\ c[x] \in Seq(Letter)
  <2> TAKE x \in T
  <2>1. c[x] = TextOf(x) /\ TextOf(x) \in Seq(Int)
    BY <1>1, <1>4, Tokens DEF Text
  <2> QED BY <1>4, <2>1 DEF Letter
<1>6. \A x \in T : Len(c[x]) = 1
  BY <1>5 DEF SpelledInventories
<1>7. \A x, y \in T : c[x] = c[y] => x = y
  BY <1>5 DEF SpelledInventories
<1> HIDE DEF T, c
<1>8. SpelledApart(Int, inventory, c)
  BY <1>3, <1>5, <1>6, <1>7, ApartAtFirst
<1> QED BY <1>8 DEF c

\* The pairs of words that are cut in one way only are no twins.
LEMMA NoTwinsInWords ==
  ASSUME Inv, WordsApart, ready
  PROVE  NoTwins
<1>1. WordsInv /\ KeysInv /\ FreqInv
  BY DEF Inv, Sound
<1>2. /\ words \in Inventory(Token) /\ Token \subseteq Int /\ Token \subseteq Id
      /\ SpelledApart(Int, words, Text)
  BY <1>1, Tokens DEF WordsInv, WordsApart
<1>3. \A i \in DOMAIN words : words[i].idxs \in Seq(Int)
  <2> DEFINE Z == Int
             T == Token
  <2>1. T \subseteq Z
    BY <1>2
  <2>2. \A i \in DOMAIN words : words[i].idxs \in Seq(T)
    BY <1>2, InventoryType
  <2> HIDE DEF Z, T
  <2>3. Seq(T) \subseteq Seq(Z)
    BY <2>1
  <2> QED BY <2>2, <2>3 DEF Z
<1>4. ASSUME NEW k \in DOMAIN store \cap (Id \X Id), store[k].freq > 0
      PROVE  /\ KeyContent(k) = <<Text[k[1]], Text[k[2]]>> /\ k = <<k[1], k[2]>>
             /\ k[1] \in Token /\ k[2] \in Token
             /\ \E i \in DOMAIN words : k[1] \in Elements(words[i].idxs) /\ k[2] \in Elements(words[i].idxs)
  <2>1. k \in PairKeys
    BY <1>1, KeyTypes DEF KeysInv
  <2>2. k = <<k[1], k[2]>> /\ k[1] \in Token /\ k[2] \in Token /\ k[1] # Sentinel
    BY <1>1, <2>1, KeyTypes
  <2>3. HeldFreq(k) = store[k].freq
    BY <1>1 DEF HeldFreq, KeysInv
  <2>4. HeldFreq(k) = KeyFreq(k)
    BY <1>1, <2>1 DEF FreqInv
  <2>5. WeightedPairs(k) > 0
    BY <1>4, <2>2, <2>3, <2>4 DEF KeyFreq
  <2>6. PICK i \in DOMAIN words : k \in PairsOf(words[i].idxs)
    BY <1>1, <2>5, WordKeys
  <2>7. k[1] \in Elements(words[i].idxs) /\ k[2] \in Elements(words[i].idxs)
    <3> DEFINE w == words[i].idxs
    <3>1. w \in Seq(Int)
      BY <1>3
    <3>2. PICK n \in 1..Len(w) - 1 : k = PairAt(w, n)
      BY <2>6 DEF PairsOf
    <3> HIDE DEF w
    <3>3. n \in DOMAIN w /\ n + 1 \in DOMAIN w
      BY <3>1
    <3>4. k[1] = w[n] /\ k[2] = w[n + 1]
      BY <3>2 DEF PairAt
    <3>5. k[1] \in Elements(w) /\ k[2] \in Elements(w)
      BY <3>3, <3>4 DEF Elements
    <3> QED BY <3>5 DEF w
  <2>8. KeyContent(k) = <<Text[k[1]], Text[k[2]]>>
    BY <1>2, <2>2 DEF KeyContent, Text
  <2> QED BY <2>2, <2>7, <2>8
<1>5. \A x \in Token : Text[x] \in Seq(Letter)
  BY <1>1, <1>2, Tokens DEF Text, Letter
<1>6. ASSUME NEW i \in DOMAIN words, NEW j \in DOMAIN words,
             NEW x \in Elements(words[i].idxs), NEW y \in Elements(words[j].idxs),
             x \in Token, Text[x] = Text[y]
      PROVE  x = y
  <2> DEFINE c == Text
  <2>1. c[x] \in Seq(Letter) /\ c[x] = c[y] /\ SpelledApart(Int, words, c)
    BY <1>2, <1>5, <1>6
  <2> HIDE DEF c
  <2> QED BY <1>3, <2>1, ApartUnits
<1> SUFFICES ASSUME NEW k \in DOMAIN store \cap (Id \X Id), NEW l \in DOMAIN store \cap (Id \X Id),
                    store[k].freq > 0, store[l].freq > 0, KeyContent(k) = KeyContent(l)
             PROVE  k = l
  BY DEF NoTwins
<1>7. PICK i \in DOMAIN words : k[1] \in Elements(words[i].idxs) /\ k[2] \in Elements(words[i].idxs)
  BY <1>4
<1>8. PICK j \in DOMAIN words : l[1] \in Elements(words[j].idxs) /\ l[2] \in Elements(words[j].idxs)
  BY <1>4
<1>9. Text[k[1]] = Text[l[1]] /\ Text[k[2]] = Text[l[2]]
  BY <1>4
<1>10. k[1] = l[1]
  BY <1>4, <1>6, <1>7, <1>8, <1>9
<1>11. k[2] = l[2]
  BY <1>4, <1>6, <1>7, <1>8, <1>9
<1> QED BY <1>4, <1>10, <1>11

\* What no step but a merge, a unit or add_words can disturb.
LEMMA ApartKept ==
  ASSUME WordsApart, UNCHANGED <<words, vocab>>
  PROVE  WordsApart'
<1>1. Text' = Text
  BY Zenon DEF Text, TextOf
<1> QED BY <1>1 DEF WordsApart

\* A learned unit gives no word another content.
LEMMA ApartLearnUnit ==
  ASSUME Inv, WordsApart, LearnUnit
  PROVE  WordsApart'
<1> SUFFICES ASSUME NEW ws, NEW d, ws = words', d = Text'
             PROVE  SpelledApart(Int, ws, d)
  BY DEF WordsApart
<1>1. /\ WordsInv /\ CallInv /\ phase = "merge" /\ merge.tp \in UnitKeys
      /\ vocab' = Append(vocab, merge.content[2]) /\ words' = words
  BY DEF Inv, Sound, LearnUnit, Table!ApplyUnit, UnitKeys
<1>2. Len(vocab) < MaxVocab
  BY <1>1 DEF CallInv
<1> DEFINE text == merge.content[2]
<1>3. text \in Seq(Int) /\ text # << >>
  <2> DEFINE u == merge.tp[2]
  <2>1. merge.tp = <<Sentinel, u>> /\ u \in Unit /\ u \in Int
    BY <1>1, TrainerAssumption DEF UnitKeys
  <2>2. merge.content = << << >>, <<u>> >>
    BY <1>1, <2>1, MergeFreq DEF KeyContent
  <2>3. <<u>> \in Seq(Int) /\ <<u>> # << >>
    BY <2>1
  <2> QED BY <2>2, <2>3
<1>4. \A id \in Token : TextOf(id)' = TextOf(id)
  <2> HIDE DEF text
  <2>1. vocab' = Append(vocab, text)
    BY <1>1 DEF text
  <2> QED BY <1>1, <1>2, <1>3, <2>1, NewEntry
<1>5. Token \subseteq Id /\ words \in Inventory(Token)
  BY <1>1, Tokens DEF WordsInv
<1>6. \A x \in Token : d[x] = Text[x]
  BY <1>4, <1>5 DEF Text
<1>7. \A i \in DOMAIN ws : ws[i].idxs \in Seq(Token)
  BY <1>1, <1>5, InventoryType
<1>8. SpelledApart(Int, ws, Text)
  BY <1>1 DEF WordsApart
<1> QED BY <1>6, <1>7, <1>8, ApartAmongTokens

\* A merge leaves words that are cut in one way only.
LEMMA ApartLearnPair ==
  ASSUME Inv, WordsApart, LearnPair
  PROVE  WordsApart'
<1> SUFFICES ASSUME NEW ws, NEW d, ws = words', d = Text'
             PROVE  SpelledApart(Int, ws, d)
  BY DEF WordsApart
<1> DEFINE a == merge.tp[1]
           b == merge.tp[2]
           n == NewId
           c == Text
<1>1. /\ WordsInv /\ phase = "merge" /\ merge.tp \in PairKeys /\ words' = After
      /\ words \in Inventory(Token) /\ Len(vocab) < MaxVocab
  BY LearnPairUnfold, MergeFreq DEF Inv, Sound, WordsInv
<1>2. /\ merge.tp = <<a, b>> /\ a \in Token /\ b \in Token /\ a # Sentinel
      /\ Token \subseteq Id /\ Token \subseteq Int /\ n \in Id /\ n \in Int /\ n \notin Token
  <2>1. n \in Id /\ n \in Int
    BY <1>1, Tokens, TrainerAssumption DEF NewId, Id
  <2> QED BY <1>1, <2>1, KeyTypes, Tokens
<1>3. \A i \in DOMAIN words : /\ words[i].idxs \in Seq(Token)
                              /\ ws[i].idxs = Replaced(words[i].idxs, <<a, b>>, n)
  <2> TAKE i \in DOMAIN words
  <2>1. words[i].idxs \in Seq(Token) /\ words[i] = [idxs |-> words[i].idxs, freq |-> words[i].freq]
    BY <1>1, InventoryType
  <2>2. ws[i] = [words[i] EXCEPT !.idxs = Replaced(@, merge.tp, n)]
    BY <1>1, AfterFacts
  <2>3. ws[i].idxs = Replaced(words[i].idxs, merge.tp, n)
    BY <2>1, <2>2
  <2> QED BY <1>2, <2>1, <2>3
<1>4. DOMAIN ws = DOMAIN words
  BY <1>1, AfterFacts
<1>5. \A x \in Token : c[x] \in Seq(Letter) /\ d[x] = c[x]
  <2> TAKE x \in Token
  <2>1. TextOf(x)' = TextOf(x)
    <3> DEFINE m == NewText(x)
    <3>1. m = TextOf(x)
      BY <1>2 DEF NewText
    <3>2. \A t : t = m => TextOf(x)' = t
      BY LearnPairEntry
    <3> QED BY <3>1, <3>2
  <2>2. TextOf(x) \in Seq(Int)
    BY <1>1, Tokens
  <2> QED BY <1>2, <2>1, <2>2 DEF Text, Letter
<1>6. d[n] = c[a] \o c[b]
  <2>1. merge.content = <<TextOf(a), TextOf(b)>>
    BY <1>1, <1>2, MergeFreq DEF KeyContent
  <2>2. NewText(n) = merge.content[1] \o merge.content[2]
    BY DEF NewText
  <2>3. \A m : m = NewText(n) => d[n] = m
    <3>1. \A id, m : id \in Token \cup {NewId} /\ m = NewText(id) => TextOf(id)' = m
      BY LearnPairEntry
    <3>2. d = [id \in Id |-> TextOf(id)']
      BY DEF Text
    <3> QED BY <1>2, <3>1, <3>2
  <2>4. NewText(n) = TextOf(a) \o TextOf(b)
    BY <2>1, <2>2
  <2>5. c[a] = TextOf(a) /\ c[b] = TextOf(b)
    BY <1>2 DEF Text
  <2> QED BY <2>3, <2>4, <2>5
<1>7. SpelledApart(Int, words, c)
  BY DEF WordsApart
<1> DEFINE T == Token
           U == Int
<1>8. T \subseteq U /\ a \in T /\ b \in T /\ n \in U
  BY <1>2
<1>9. \A i \in DOMAIN words : /\ words[i].idxs \in Seq(T)
                              /\ ws[i].idxs = Replaced(words[i].idxs, <<a, b>>, n)
  BY <1>3
<1>10. \A x \in T : c[x] \in Seq(Letter) /\ d[x] = c[x]
  BY <1>5
<1>11. SpelledApart(U, words, c)
  BY <1>7
<1> HIDE DEF a, b, n, c, T, U
<1>12. Respelled(T, U, a, b, n, c, d, words, ws)
  BY <1>4, <1>6, <1>8, <1>9, <1>10, Zenon DEF Respelled
<1>13. SpelledApart(U, ws, d)
  BY <1>11, <1>12, ApartAfterMerge
<1> QED BY <1>13 DEF U

\* Outside a merge no content and no frequency of the table changes.
LEMMA ApartAddWords ==
  ASSUME PositiveInventories, SpelledInventories, Inv, ApartInv,
         NEW inventory \in Added, AddWords(inventory), UNCHANGED frozen
  PROVE  ApartInv'
<1>1. words' = inventory /\ vocab' = vocab /\ store' = store
  BY DEF AddWords, tableVars
<1>2. WordsInv
  BY DEF Inv, Sound
<1>3. SpelledApart(Int, inventory, Text)
  BY <1>2, ApartInventory
<1>4. Text' = Text
  BY <1>1, Zenon DEF Text, TextOf
<1>5. WordsApart'
  BY <1>1, <1>3, <1>4 DEF WordsApart
<1>6. NoTwins
  BY NoTwinsInWords DEF ApartInv
<1>7. \A tp : KeyContent(tp)' = KeyContent(tp)
  BY <1>1, Zenon DEF KeyContent, TextOf
<1>8. NoTwins'
  BY <1>1, <1>6, <1>7 DEF NoTwins
<1> QED BY <1>5, <1>8 DEF ApartInv

\* Words stay cut in one way only, whatever is merged.
LEMMA ApartStep ==
  ASSUME PositiveInventories, SpelledInventories, Inv, ApartInv, [Next]_vars
  PROVE  ApartInv'
<1>1. CallInv /\ WordsApart
  BY DEF Inv, Sound, ApartInv
<1>2. CASE UNCHANGED vars
  <2>1. words' = words /\ vocab' = vocab /\ store' = store /\ ready' = ready
    BY <1>2 DEF vars, trainerVars, tableVars
  <2>2. \A tp : KeyContent(tp)' = KeyContent(tp)
    BY <2>1, Zenon DEF KeyContent, TextOf
  <2>3. (ready \/ NoTwins)'
    BY <2>1, <2>2 DEF NoTwins, ApartInv
  <2> QED BY <1>1, <2>1, <2>3, ApartKept DEF ApartInv
<1>3. CASE Next
  <2>0. UNCHANGED frozen
    BY <1>3 DEF Next
  <2>1. ASSUME NEW inventory \in Added, AddWords(inventory) PROVE ApartInv'
    BY <2>0, <2>1, ApartAddWords
  <2>2. ASSUME ready', WordsApart' PROVE ApartInv'
    BY <2>2 DEF ApartInv
  <2>3. CASE InitTraining \/ \E target \in Targets : TrainUntil(target)
    BY <1>1, <2>2, <2>3, ApartKept DEF InitTraining, TrainUntil
  <2>4. CASE Step
    BY <1>1, <2>2, <2>4, ApartKept DEF Step
  <2>5. CASE TrainNext \/ TrainReached
    <3>1. call # Idle
      BY <2>5 DEF TrainNext, TrainReached, Idle
    <3> QED BY <1>1, <2>2, <2>5, <3>1, ApartKept DEF TrainNext, TrainReached, trainerVars, CallInv
  <2>6. CASE PopStale \/ Select \/ Refill \/ Exhausted
    <3>1. phase = "search"
      BY <2>6 DEF PopStale, Select, Refill, Exhausted, Table!Select, Table!Popped, Table!Refill, Table!GiveUp
    <3> QED BY <1>1, <2>2, <2>6, <3>1, ApartKept
            DEF PopStale, Select, Refill, Exhausted, trainerVars, CallInv
  <2>7. CASE StopAtCutoff
    BY <1>1, <2>2, <2>7, ApartKept DEF StopAtCutoff, CallInv
  <2>8. CASE LearnUnit
    <3>1. ready' = ready /\ phase = "merge"
      BY <2>8 DEF LearnUnit, Table!ApplyUnit
    <3> QED BY <1>1, <2>2, <2>8, <3>1, ApartLearnUnit DEF CallInv
  <2>9. CASE LearnPair
    <3>1. ready' = ready /\ phase = "merge"
      BY <2>9 DEF LearnPair
    <3> QED BY <1>1, <2>2, <2>9, <3>1, ApartLearnPair DEF CallInv
  <2> QED BY <1>3, <2>1, <2>3, <2>4, <2>5, <2>6, <2>7, <2>8, <2>9 DEF Next, TrainingCall, Loop
<1> QED BY <1>2, <1>3

\* Two live pairs of the table never have the same contents, so that no tie
\* break of the trainer leaves two pairs tied.
THEOREM NoTwinsInTable ==
  PositiveInventories /\ SpelledInventories => (Spec => []NoTwins)
<1> SUFFICES ASSUME PositiveInventories, SpelledInventories
             PROVE  Spec => []NoTwins
  OBVIOUS
<1>1. Init => ApartInv
  <2> SUFFICES ASSUME Init PROVE ApartInv
    OBVIOUS
  <2>1. words \in Inventories /\ WordsInv
    BY InvInit DEF Init, Inv, Sound
  <2>2. SpelledApart(Int, words, Text)
    BY <2>1, ApartInventory
  <2>3. store = [tp \in {} |-> None]
    BY DEF Init, Table!StoreInit
  <2>4. NoTwins
    BY <2>3 DEF NoTwins
  <2> QED BY <2>2, <2>4 DEF ApartInv, WordsApart
<1>2. Inv /\ ApartInv /\ [Next]_vars => ApartInv'
  BY ApartStep
<1>3. Inv /\ ApartInv => NoTwins
  BY NoTwinsInWords DEF ApartInv
<1> QED BY <1>1, <1>2, <1>3, Invariant, PTL DEF Spec

\* SmallestPairId tells all pairs apart, LargestContent those that are spelled
\* differently.
Distinct == TieBreak = "SmallestPairId" \/ NoTwins

\* Pairs that Distinct tells apart do not tie under Less.
LEMMA PairsNeverTie ==
  ASSUME Inv, Distinct
  PROVE  Store!NoTies
<1> SUFFICES ASSUME NEW k \in Store!Live(store) \cap (Id \X Id),
                    NEW l \in Store!Live(store) \cap (Id \X Id), k # l
             PROVE  \/ Store!Less(Store!CandIn(store, k), Store!CandIn(store, l))
                    \/ Store!Less(Store!CandIn(store, l), Store!CandIn(store, k))
  BY DEF Store!NoTies
<1>1. /\ WordsInv /\ KeysInv /\ Store!StoreTypeOK
      /\ k \in DOMAIN store /\ l \in DOMAIN store
  BY DEF Inv, Sound, Store!FrontierInv, Store!Live
<1>2. /\ k \in PairKeys /\ l \in PairKeys
      /\ store[k].content = KeyContent(k) /\ store[l].content = KeyContent(l)
      /\ store[k].freq \in Int /\ store[l].freq \in Int
  BY <1>1, KeyTypes DEF KeysInv, Store!StoreTypeOK, Store!TableOK, Store!Entry
<1> DEFINE a == [tp |-> k, content |-> KeyContent(k)]
           b == [tp |-> l, content |-> KeyContent(l)]
<1>3. /\ Store!LabelOf(Store!CandIn(store, k)) = a
      /\ Store!LabelOf(Store!CandIn(store, l)) = b
  BY <1>2 DEF Store!LabelOf, Store!CandIn
<1>4. /\ k = <<k[1], k[2]>> /\ k[1] \in Token /\ k[2] \in Token /\ k[1] # Sentinel
      /\ l = <<l[1], l[2]>> /\ l[1] \in Token /\ l[2] \in Token /\ l[1] # Sentinel
  BY <1>1, <1>2, KeyTypes
<1>5. k[1] # l[1] \/ k[2] # l[2]
  BY <1>4
<1>6. TieLess(a, b) \/ TieLess(b, a)
  <2>1. CASE TieBreak = "SmallestPairId"
    <3>1. k[1] \in Int /\ k[2] \in Int /\ l[1] \in Int /\ l[2] \in Int
      BY <1>1, <1>4, Tokens
    <3>2. SmallestPairId(a, b) \/ SmallestPairId(b, a)
      BY <1>5, <3>1 DEF SmallestPairId
    <3> QED BY <2>1, <3>2 DEF TieLess
  <2>2. CASE TieBreak # "SmallestPairId"
    <3> DEFINE k1 == TextOf(k[1])
               k2 == TextOf(k[2])
               l1 == TextOf(l[1])
               l2 == TextOf(l[2])
    <3>1. k1 \in Seq(Int) /\ k2 \in Seq(Int) /\ l1 \in Seq(Int) /\ l2 \in Seq(Int)
      BY <1>1, <1>4, Tokens
    <3>2. k1 # l1 \/ k2 # l2
      <4>1. KeyContent(k) # KeyContent(l)
        BY <1>1, <1>2, <2>2 DEF Distinct, NoTwins, Store!Live
      <4> QED BY <1>4, <4>1 DEF KeyContent
    <3>3. a.content = <<k1, k2>> /\ b.content = <<l1, l2>>
      BY <1>4 DEF KeyContent
    <3> HIDE DEF k1, k2, l1, l2, a, b
    <3>4. /\ SeqLess(k1, l1) \/ SeqLess(l1, k1) \/ k1 = l1
          /\ SeqLess(k2, l2) \/ SeqLess(l2, k2) \/ k2 = l2
      BY <3>1, SeqLessTotal
    <3>5. LargestContent(a, b) \/ LargestContent(b, a)
      BY <3>2, <3>3, <3>4 DEF LargestContent
    <3> QED BY <2>2, <3>5 DEF TieLess
  <2> QED BY <2>1, <2>2
<1>7. /\ Store!CandIn(store, k).freq = store[k].freq /\ Store!CandIn(store, k).tp = k
      /\ Store!CandIn(store, l).freq = store[l].freq /\ Store!CandIn(store, l).tp = l
  BY DEF Store!CandIn
<1> HIDE DEF a, b
<1> QED BY <1>2, <1>3, <1>6, <1>7 DEF Store!Less

\* The tie break leaves no two live pairs of the table tied.
SplitsTies == TieBreak = "SmallestPairId" \/ SpelledInventories

\* The tie break of compare_merge never leaves two live pairs equal, whatever
\* was merged and added before.
THEOREM TiesAreSplit ==
  PositiveInventories /\ SplitsTies => (Spec => []Distinct)
<1>1. CASE TieBreak = "SmallestPairId"
  <2>1. Distinct
    BY <1>1 DEF Distinct
  <2> QED BY <2>1, PTL
<1>2. CASE SpelledInventories
  <2>1. NoTwins => Distinct
    BY DEF Distinct
  <2>2. PositiveInventories => (Spec => []NoTwins)
    BY <1>2, NoTwinsInTable
  <2> QED BY <2>1, <2>2, PTL
<1> QED BY <1>1, <1>2 DEF SplitsTies

\* The assertion of hydrate cannot fail: a cold winner is in every choice of
\* the top pairs.
THEOREM ColdWinnerIsInRefill ==
  PositiveInventories /\ SplitsTies => (Spec => []ColdWinnerIsRanked)
<1> SUFFICES ASSUME PositiveInventories, SplitsTies
             PROVE  Spec => []ColdWinnerIsRanked
  OBVIOUS
<1>1. Inv /\ Distinct => ColdWinnerIsRanked
  <2> SUFFICES ASSUME Inv, Distinct PROVE ColdWinnerIsRanked
    OBVIOUS
  <2>1. Store!ColdWinnerIsRanked
    BY PairsNeverTie, TableAssumptions, Store!ColdWinner DEF Inv, Sound
  <2> QED BY <2>1, SameSearch DEF ColdWinnerIsRanked
<1> QED BY <1>1, Invariant, TiesAreSplit, PTL

\* The instance of the table counts as this module does.
LEMMA SameCardinality ==
  /\ \A S : Store!IsFiniteSet(S) <=> IsFiniteSet(S)
  /\ \A S : Store!Cardinality(S) = Cardinality(S)
<1>1. \A S : Store!IsFiniteSet(S) <=> IsFiniteSet(S)
  BY Zenon DEF Store!IsFiniteSet, IsFiniteSet
<1>2. \A S : Store!Cardinality(S) = Cardinality(S)
  BY <1>1, Zenon DEF Store!Cardinality, Cardinality
<1> QED BY <1>1, <1>2

\* A bounded trainer keeps at most 3 * Window occurrence sets.
THEOREM WindowBoundsResidents ==
  PositiveInventories /\ SplitsTies /\ IsFiniteSet(Unit) => (Spec => []WindowIsBounded)
<1> SUFFICES ASSUME PositiveInventories, SplitsTies, IsFiniteSet(Unit)
             PROVE  Spec => []WindowIsBounded
  OBVIOUS
<1>1. IsFiniteSet(Id \X Id)
  <2>1. IsFiniteSet(1..MaxVocab)
    BY TrainerAssumption, FS_Interval
  <2>2. IsFiniteSet(Id)
    BY <2>1, FS_Union DEF Id
  <2> QED BY <2>2, FS_Product
<1>2. Init => Store!WindowInv
  BY SameSearch, TableAssumptions, Store!WindowInit DEF Init
<1>3. Inv /\ Distinct /\ Store!WindowInv /\ [Next]_vars => Store!WindowInv'
  <2> SUFFICES ASSUME Inv, Distinct, Store!WindowInv, [Next]_vars
               PROVE  Store!WindowInv'
    OBVIOUS
  <2>1. Store!StoreNext \/ UNCHANGED Store!storeVars
    BY DrivesTable
  <2>2. Store!FrontierInv /\ Store!ResidencyAgrees /\ Store!NoTies
    BY PairsNeverTie DEF Inv, Sound
  <2>3. Store!IsFiniteSet(Id \X Id)
    BY <1>1, SameCardinality
  <2> QED BY <2>1, <2>2, <2>3, TableAssumptions, Store!WindowStep
<1>4. Store!WindowInv => WindowIsBounded
  BY SameOrder, SameCardinality, Zenon DEF Store!WindowInv, WindowIsBounded
<1> QED BY <1>2, <1>3, <1>4, Invariant, TiesAreSplit, PTL DEF Spec

=============================================================================
