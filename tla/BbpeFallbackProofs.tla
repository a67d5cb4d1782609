------------------------- MODULE BbpeFallbackProofs -------------------------
(***************************************************************************)
(* Proofs about the fallback call, for every inventory of positive         *)
(* frequencies, every window, target, share and set of scalars that is     *)
(* frozen: a trainer that was closed stays as it is, training without the  *)
(* frozen scalars still learns the best there is, and the call fills its   *)
(* target unless the cutoff keeps it from it.                              *)
(***************************************************************************)
EXTENDS BbpeFallback, BpeTrainerProofs

\* The loop of the frontier runs inside a call only, and a trainer is closed at
\* the very end of one: no stage and no iteration of it is left.
ClosedInv ==
  /\ call = Idle => phase = "idle"
  /\ training_state # "open" => bbpe = NoFallback /\ call = Idle

\* A new trainer is open.
LEMMA ClosedInit == FallbackInit => ClosedInv
BY DEF FallbackInit, Init, ClosedInv, Table!StoreInit

\* An iteration belongs to a call, which it may end.
LEMMA IterationHasCall ==
  ASSUME ClosedInv,
         \/ TrainNext \/ TrainReached \/ PopStale \/ Select \/ Refill
         \/ Exhausted \/ StopAtCutoff \/ LearnUnit \/ LearnPair
  PROVE  call # Idle /\ (call' = Idle => phase' = "idle")
<1> USE DEF ClosedInv, trainerVars, Idle
<1>1. CASE TrainNext
  BY <1>1 DEF TrainNext
<1>2. CASE TrainReached
  BY <1>2 DEF TrainReached, tableVars
<1>3. CASE PopStale
  BY <1>3 DEF PopStale
<1>4. CASE Select
  BY <1>4 DEF Select, Table!Select
<1>5. CASE Refill
  BY <1>5 DEF Refill, Table!Refill
<1>6. CASE Exhausted
  BY <1>6 DEF Exhausted, Table!GiveUp
<1>7. CASE StopAtCutoff
  BY <1>7 DEF StopAtCutoff, Table!Decline
<1>8. CASE LearnUnit
  BY <1>8 DEF LearnUnit, Table!ApplyUnit
<1>9. CASE LearnPair
  BY <1>9 DEF LearnPair, Table!ApplyChanges
<1> QED BY <1>1, <1>2, <1>3, <1>4, <1>5, <1>6, <1>7, <1>8, <1>9

\* A training call that starts leaves the table idle, or is in progress.
LEMMA CallStarts ==
  ASSUME ClosedInv, TrainingCall
  PROVE  call' = Idle => phase' = "idle"
<1>1. CASE InitTraining
  BY <1>1 DEF ClosedInv, InitTraining, BuildTable, Table!Build
<1>2. ASSUME NEW target \in Targets, TrainUntil(target)
      PROVE  call' # Idle
  BY <1>2 DEF TrainUntil, Idle
<1>3. CASE Step
  BY <1>3 DEF Step, Idle
<1> QED BY <1>1, <1>2, <1>3 DEF TrainingCall

\* Every step of a closed trainer is a stutter, and every step keeps ClosedInv.
LEMMA ClosedStep ==
  ClosedInv /\ [FallbackNext]_allVars =>
    /\ ClosedInv'
    /\ training_state # "open" => UNCHANGED <<vocab, merges, store, training_state>>
<1> SUFFICES ASSUME ClosedInv, [FallbackNext]_allVars
             PROVE  /\ ClosedInv'
                    /\ training_state # "open" =>
                         UNCHANGED <<vocab, merges, store, training_state>>
  OBVIOUS
<1>1. CASE Ordinary
  BY <1>1, CallStarts DEF Ordinary, ClosedInv, fallbackVars
<1>2. ASSUME NEW target \in Targets, NEW share \in Shares, StartPrimary(target, share)
      PROVE  training_state = "open" /\ ClosedInv'
  BY <1>2 DEF StartPrimary, MayStart, TrainUntil, ClosedInv, Idle
<1>3. ASSUME NEW target \in Targets, NEW share \in Shares, SkipPrimary(target, share)
      PROVE  training_state = "open" /\ ClosedInv'
  BY <1>3 DEF SkipPrimary, MayStart, InitTraining, BuildTable, Table!Build, ClosedInv
<1>4. CASE Iterate
  BY <1>4, IterationHasCall DEF Iterate, ClosedInv
<1>5. CASE TrainingFails
  BY <1>5, IterationHasCall DEF TrainingFails, Exhausted, ClosedInv
<1>6. CASE Freeze
  BY <1>6 DEF Freeze, ClosedInv, NoFallback, trainerVars, tableVars
<1>7. CASE FallbackLearns
  BY <1>7 DEF FallbackLearns, ClosedInv, NoFallback, vars, trainerVars, tableVars
<1>8. CASE Resume
  BY <1>8 DEF Resume, FallbackDone, TrainUntil, ClosedInv, NoFallback, Idle
<1>9. CASE Compose
  <2>1. bbpe # NoFallback
    BY <1>9 DEF Compose, ReadyToCompose, FallbackDone, NoFallback
  <2> QED BY <1>9, <2>1 DEF Compose, ReadyToCompose, ClosedInv, tableVars
<1>10. CASE UNCHANGED allVars
  BY <1>10 DEF ClosedInv, allVars, fallbackVars, vars, trainerVars, tableVars
<1> QED
  BY <1>1, <1>2, <1>3, <1>4, <1>5, <1>6, <1>7, <1>8, <1>9, <1>10
     DEF FallbackNext, FallbackLoop

\* Once it is finalised or poisoned a trainer keeps its vocabulary, its merges
\* and its table, whatever is called (ensure_training_open).
THEOREM ClosedTrainerIsClosed == FallbackSpec => ClosedForGood
<1>1. ClosedInv /\ [FallbackNext]_allVars =>
        [training_state # "open" =>
           UNCHANGED <<vocab, merges, store, training_state>>]_allVars
  BY ClosedStep
<1>2. FallbackSpec => []ClosedInv
  BY ClosedInit, ClosedStep, PTL DEF FallbackSpec
<1> QED BY <1>1, <1>2, PTL DEF FallbackSpec, ClosedForGood

-----------------------------------------------------------------------------
(* What an iteration of ordinary training does, in or out of a fallback call. *)

Iteration ==
  \/ TrainNext \/ TrainReached \/ PopStale \/ Select \/ Refill
  \/ Exhausted \/ StopAtCutoff \/ LearnUnit \/ LearnPair

\* It keeps the invariant of the trainer.
LEMMA IterationKeeps ==
  ASSUME Inv, UNCHANGED frozen, Iteration
  PROVE  Inv' /\ adds' = adds
<1>1. CASE TrainNext \/ TrainReached
  BY <1>1, CallStep DEF TrainNext, TrainReached, trainerVars
<1>2. CASE PopStale \/ Refill \/ Exhausted
  BY <1>2, SearchStep DEF PopStale, Refill, Exhausted, trainerVars
<1>3. CASE Select
  BY <1>3, SelectStep DEF Select, trainerVars
<1>4. CASE StopAtCutoff
  BY <1>4, DeclineStep DEF StopAtCutoff
<1>5. CASE LearnUnit
  BY <1>5, LearnUnitStep DEF LearnUnit
<1>6. CASE LearnPair
  BY <1>6, LearnPairStep DEF LearnPair
<1> QED BY <1>1, <1>2, <1>3, <1>4, <1>5, <1>6 DEF Iteration

\* Nothing the words offer reaches the cutoff.
NothingLeft == \A k \in PairKeys \cup UnitKeys : KeyFreq(k) < CutoffFreq

\* Only below its target does it look for another event; and a training call
\* goes on below its target, or ends there, at the cutoff or with nothing left.
LEMMA IterationStops ==
  ASSUME Inv, UNCHANGED frozen, Iteration, call.op = "train", Len(vocab) <= call.target,
         phase # "idle" => Len(vocab) < call.target
  PROVE  \/ /\ call' = call /\ Len(vocab') <= call.target
            /\ phase' # "idle" => Len(vocab') < call.target
         \/ /\ call' = Idle /\ SameWords
            /\ Exhausted \/ Len(vocab) = call.target \/ NothingLeft
<1>1. Len(vocab) \in Nat /\ call.target \in Nat /\ vocab \in Seq(Seq(Int)) /\ call.op # "step"
  BY DEF Inv, Sound, WordsInv, CallInv
<1>2. CASE TrainNext \/ PopStale \/ Select \/ Refill
  <2>1. call' = call /\ vocab' = vocab
    BY <1>2 DEF TrainNext, PopStale, Select, Refill, trainerVars
  <2>2. Len(vocab) < call.target \/ phase # "idle"
    BY <1>2 DEF TrainNext, PopStale, Select, Refill, Table!Select, Table!Refill
  <2> QED BY <2>1, <2>2
<1>3. CASE TrainReached
  BY <1>1, <1>3 DEF TrainReached, SameWords
<1>4. CASE Exhausted
  BY <1>4 DEF Exhausted, SameWords
<1>5. CASE StopAtCutoff
  <2>1. phase = "merge" /\ merge.freq < CutoffFreq
    BY <1>5 DEF StopAtCutoff, BelowCutoff
  <2>2. merge.freq \in Int
    BY <2>1, MergeFreq
  <2>3. NothingLeft
    BY <2>1, <2>2, MergeIsBest, TrainerAssumption DEF NothingLeft
  <2> QED BY <1>5, <2>3 DEF StopAtCutoff, SameWords
<1>6. CASE LearnUnit
  <2>1. phase = "merge" /\ phase' = "idle"
    BY <1>6 DEF LearnUnit, Table!ApplyUnit
  <2>2. call' = call /\ Len(vocab') = Len(vocab) + 1
    BY <1>1, <1>6 DEF LearnUnit, AfterEvent
  <2> QED BY <1>1, <2>1, <2>2
<1>7. CASE LearnPair
  <2>1. phase = "merge" /\ phase' = "idle"
    BY <1>7 DEF LearnPair, Table!ApplyChanges
  <2>2. call' = call /\ Len(vocab') = Len(vocab) + 1
    BY <1>1, <1>7 DEF LearnPair, AfterEvent
  <2> QED BY <1>1, <2>1, <2>2
<1> QED BY <1>2, <1>3, <1>4, <1>5, <1>6, <1>7 DEF Iteration

\* Freezing scalars leaves the table as it is, which is then to be built anew;
\* what the words offer is no more than it was.
LEMMA FreezeKeeps ==
  ASSUME Inv, Freeze
  PROVE  Sound'
<1>1. /\ words' = words /\ vocab' = vocab /\ merges' = merges /\ call' = call
      /\ ready' = ready /\ adds' = adds /\ store' = store /\ threshold' = threshold
      /\ merge' = merge /\ phase' = phase /\ UNCHANGED Store!storeVars
      /\ frozen' = frozen \cup Freezable
  BY DEF Freeze, trainerVars, tableVars, Store!storeVars
<1>2. /\ WordsInv /\ MergesInv /\ CallInv /\ KeysInv /\ OccInv /\ HandleInv /\ ThresholdInv
      /\ RarestInv /\ (adds = 0 => FinalMergeIsRarest)
  BY DEF Inv, Sound
<1>3. Freezable \subseteq Unit
  <2> SUFFICES ASSUME NEW tp \in DOMAIN store, tp[1] = Sentinel PROVE tp[2] \in Unit
    BY DEF Freezable
  <2>1. tp \in PairKeys \cup UnitKeys
    BY <1>2 DEF KeysInv
  <2> QED BY <1>2, <2>1, KeyTypes
<1>4. Token' = Token /\ PairKeys' = PairKeys /\ UnitKeys' = UnitKeys
  BY <1>1, Zenon DEF Token, PairKeys, UnitKeys
<1>5. WordsInv'
  BY <1>1, <1>2, <1>3, <1>4 DEF WordsInv
<1>6. \A id : TextOf(id)' = TextOf(id)
  BY <1>1, Zenon DEF TextOf
<1>7. MergesInv'
  <2>1. UnitsBeforePairs'
    BY <1>1, <1>2, <1>6, Zenon DEF MergesInv, UnitsBeforePairs, KnownBefore
  <2> QED BY <1>1, <1>2, <1>4, <2>1 DEF MergesInv
<1>8. CallInv'
  BY <1>1, <1>2 DEF CallInv
<1>9. KeysInv'
  <2>1. \A tp : KeyContent(tp)' = KeyContent(tp)
    BY <1>6, Zenon DEF KeyContent
  <2> QED BY <1>1, <1>2, <1>4, <2>1, Zenon DEF KeysInv
<1>10. OccInv'
  <2>1. Occurrences' = Occurrences
    BY <1>1, Zenon DEF Occurrences
  <2>2. \A occ, tp : Covers(occ, tp)' <=> Covers(occ, tp)
    BY <1>1, <2>1, Zenon DEF Covers
  <2> QED BY <1>1, <1>2, <2>2, Zenon DEF OccInv
<1>11. HandleInv' /\ ThresholdInv'
  BY <1>1, <1>2, Zenon DEF HandleInv, ThresholdInv, Store!Bounded, Store!Live
<1>12. RarestInv'
  <2> SUFFICES ASSUME adds = 0, NEW r \in DOMAIN merges, NEW tp \in PairKeys
               PROVE  KeyFreq(tp)' <= merges[r].freq
    BY <1>1, <1>4, Zenon DEF RarestInv
  <2>1. tp[1] # Sentinel
    BY <1>2, KeyTypes
  <2>2. KeyFreq(tp) <= merges[r].freq
    BY <1>2 DEF RarestInv
  <2>3. merges[r].freq \in Nat
    BY <1>2, MergeTypes
  <2>4. WeightedPairs(tp)' = WeightedPairs(tp)
    BY <1>1, Zenon DEF WeightedPairs
  <2>5. HasFrozen(tp) => HasFrozen(tp)'
    BY <1>1 DEF HasFrozen
  <2>6. KeyFreq(tp)' = IF HasFrozen(tp)' THEN 0 ELSE WeightedPairs(tp)'
    BY <2>1 DEF KeyFreq
  <2>7. KeyFreq(tp) = IF HasFrozen(tp) THEN 0 ELSE WeightedPairs(tp)
    BY <2>1 DEF KeyFreq
  <2> QED BY <2>2, <2>3, <2>4, <2>5, <2>6, <2>7
<1>13. (adds = 0 => FinalMergeIsRarest)'
  BY <1>1, <1>2, Zenon DEF FinalMergeIsRarest
<1>14. Store!FrontierInv' /\ Store!ResidencyAgrees'
  BY <1>1, TableStep DEF Inv
<1> QED BY <1>5, <1>7, <1>8, <1>9, <1>10, <1>11, <1>12, <1>13, <1>14 DEF Sound

-----------------------------------------------------------------------------
(* The byte trainer, which is a BpeAbstract of its own. *)

\* Its tokens are the bytes and what it learned.
ByteToken == DOMAIN fbVocab

ByteMerge == [tp     : ByteToken \X ByteToken,
              target : ByteToken,
              freq   : Nat]

\* Nothing its words still offer is more frequent than anything it learned.
ByteRarest == \A r \in DOMAIN fbMerges : \A k : PairSum(fbWords, k) <= fbMerges[r].freq

ByteSorted == \A r, q \in DOMAIN fbMerges : r < q => fbMerges[r].freq >= fbMerges[q].freq

ByteInv ==
  /\ fbVocab \in Seq(Seq(Int)) /\ Len(Bytes) <= Len(fbVocab)
  /\ fbWords \in Inventory(ByteToken)
  /\ fbMerges \in Seq(ByteMerge)
  /\ ByteRarest /\ ByteSorted

\* BpeAbstract counts and rewrites the words of the byte trainer as ours.
LEMMA ByteCounts ==
  /\ \A f : Fb!SumFunction(f) = SumFunction(f)
  /\ \A w, k : Fb!PairCount(w, k) = PairCount(w, k)
  /\ \A w : Fb!PairsOf(w) = PairsOf(w)
  /\ \A w, tp, target : Fb!Replaced(w, tp, target) = Replaced(w, tp, target)
<1>1. ASSUME NEW f PROVE Fb!SumFunction(f) = SumFunction(f)
  BY Zenon DEF SumFunction, SumFunctionOnSet, FoldFunctionOnSet, MapThenFoldSet,
     Fb!SumFunction, Fb!SumFunctionOnSet, Fb!FoldFunctionOnSet, Fb!MapThenFoldSet
<1>2. \A S : Fb!Cardinality(S) = Cardinality(S)
  BY Zenon DEF Fb!Cardinality, Cardinality
<1>3. \A w, k : Fb!PairCount(w, k) = PairCount(w, k)
  BY <1>2, Zenon DEF Fb!PairCount, PairCount, Fb!PairAt, PairAt
<1>4. \A w : Fb!PairsOf(w) = PairsOf(w)
  BY Zenon DEF Fb!PairsOf, PairsOf, Fb!PairAt, PairAt
<1>5. \A w, tp, target : Fb!Replaced(w, tp, target) = Replaced(w, tp, target)
  BY Zenon DEF Fb!Replaced, Replaced, Fb!PairAt, PairAt
<1> QED BY <1>1, <1>3, <1>4, <1>5

\* What the byte trainer may learn is a pair of its words with its frequency.
LEMMA ByteEvents ==
  ASSUME ByteInv
  PROVE  /\ \A e \in Fb!Events :
              /\ ~e.unit /\ e.tp \in ByteToken \X ByteToken
              /\ e.freq = PairSum(fbWords, e.tp) /\ e.freq > 0 /\ e.freq \in Nat
              /\ e.content = <<fbVocab[e.tp[1]], fbVocab[e.tp[2]]>>
         /\ \A k : PairSum(fbWords, k) > 0 =>
              \E e \in Fb!Events : e.freq = PairSum(fbWords, k)
<1>1. fbWords \in Inventory(ByteToken)
  BY DEF ByteInv
<1>2. \A k : Fb!TrueFreq(k) = PairSum(fbWords, k)
  BY ByteCounts, Zenon DEF Fb!TrueFreq, PairSum
<1>3. \A id : Fb!Text(id) = fbVocab[id]
  BY DEF Fb!Text
<1>4. Fb!UnitEvents = {}
  BY DEF Fb!UnitEvents, Fb!Missing
<1>5. \A k : PairSum(fbWords, k) \in Nat
             /\ (PairSum(fbWords, k) > 0 <=> \E i \in DOMAIN fbWords : k \in PairsOf(fbWords[i].idxs))
  BY <1>1, WeightedCounts
<1> DEFINE P == UNION {PairsOf(fbWords[i].idxs) : i \in DOMAIN fbWords}
<1>6. \A k \in P : k \in ByteToken \X ByteToken
  <2> SUFFICES ASSUME NEW i \in DOMAIN fbWords, NEW k \in PairsOf(fbWords[i].idxs)
               PROVE  k \in ByteToken \X ByteToken
    OBVIOUS
  <2>1. fbWords[i].idxs \in Seq(ByteToken)
    BY <1>1, InventoryType
  <2>2. PICK j \in 1..Len(fbWords[i].idxs) - 1 :
          k = <<fbWords[i].idxs[j], fbWords[i].idxs[j + 1]>>
    BY DEF PairsOf, PairAt
  <2> DEFINE w == fbWords[i].idxs
  <2> HIDE DEF w
  <2>3. w \in Seq(ByteToken) /\ j \in 1..Len(w) - 1 /\ k = <<w[j], w[j + 1]>>
    BY <2>1, <2>2 DEF w
  <2> QED BY <2>3
<1>7. Fb!PairEvents = {[unit |-> FALSE, freq |-> PairSum(fbWords, tp), tp |-> tp,
                        content |-> <<fbVocab[tp[1]], fbVocab[tp[2]]>>] : tp \in P}
  <2>1. {p \in UNION {Fb!PairsOf(fbWords[i].idxs) : i \in DOMAIN fbWords} :
           {p[1], p[2]} \cap {} = {}} = P
    BY ByteCounts
  <2> QED BY <1>2, <1>3, <2>1, Zenon DEF Fb!PairEvents
<1>8. ASSUME NEW e \in Fb!Events
      PROVE  /\ ~e.unit /\ e.tp \in ByteToken \X ByteToken
             /\ e.freq = PairSum(fbWords, e.tp) /\ e.freq > 0 /\ e.freq \in Nat
             /\ e.content = <<fbVocab[e.tp[1]], fbVocab[e.tp[2]]>>
  <2>1. e \in Fb!PairEvents /\ e.freq > 0
    BY <1>4 DEF Fb!Events
  <2>2. PICK tp \in P : e = [unit |-> FALSE, freq |-> PairSum(fbWords, tp), tp |-> tp,
                             content |-> <<fbVocab[tp[1]], fbVocab[tp[2]]>>]
    BY <1>7, <2>1
  <2> QED BY <1>5, <1>6, <2>1, <2>2
<1>9. ASSUME NEW k, PairSum(fbWords, k) > 0
      PROVE  \E e \in Fb!Events : e.freq = PairSum(fbWords, k)
  <2>1. k \in P
    BY <1>5, <1>9
  <2> DEFINE e == [unit |-> FALSE, freq |-> PairSum(fbWords, k), tp |-> k,
                   content |-> <<fbVocab[k[1]], fbVocab[k[2]]>>]
  <2>2. e \in Fb!PairEvents
    BY <1>7, <2>1
  <2>3. e.freq = PairSum(fbWords, k)
    OBVIOUS
  <2> HIDE DEF e
  <2> QED BY <1>9, <2>2, <2>3 DEF Fb!Events
<1> QED BY <1>8, <1>9

LearnsBytes(tp) ==
  /\ tp \in ByteToken \X ByteToken
  /\ PairSum(fbWords, tp) \in Nat /\ PairSum(fbWords, tp) > 0
  /\ \A k : PairSum(fbWords, k) <= PairSum(fbWords, tp)
  /\ fbMerges' = Append(fbMerges, [tp     |-> tp,
                                  target |-> Len(fbVocab) + 1,
                                  freq   |-> PairSum(fbWords, tp)])
  /\ fbVocab' = Append(fbVocab, fbVocab[tp[1]] \o fbVocab[tp[2]])
  /\ fbWords' = MergedBy(fbWords, DOMAIN fbWords, tp, Len(fbVocab) + 1)

\* It learns the most frequent pair of its words, and replaces it in all of them.
LEMMA ByteLearns ==
  ASSUME ByteInv, Fb!Learn
  PROVE  \E tp : LearnsBytes(tp)
<1> DEFINE target == Len(fbVocab) + 1
<1>1. fbVocab \in Seq(Seq(Int)) /\ fbWords \in Inventory(ByteToken)
  BY DEF ByteInv
<1>2. PICK e \in Fb!Events :
        /\ \A f \in Fb!Events : ~Fb!Worse(e, f)
        /\ fbVocab' = Append(fbVocab, e.content[1] \o e.content[2])
        /\ ~e.unit =>
             /\ fbWords' = [i \in DOMAIN fbWords |->
                   [fbWords[i] EXCEPT !.idxs = Fb!Replaced(@, e.tp, target)]]
             /\ fbMerges' = Append(fbMerges,
                   [tp |-> e.tp, target |-> target, freq |-> e.freq])
  BY DEF Fb!Learn
<1> DEFINE tp == e.tp
<1>3. /\ ~e.unit /\ tp \in ByteToken \X ByteToken
      /\ e.freq = PairSum(fbWords, tp) /\ e.freq > 0 /\ e.freq \in Nat
      /\ e.content = <<fbVocab[tp[1]], fbVocab[tp[2]]>>
  BY ByteEvents
<1>4. \A k : PairSum(fbWords, k) <= PairSum(fbWords, tp)
  <2> TAKE k
  <2>1. PairSum(fbWords, k) \in Nat
    BY <1>1, WeightedCounts
  <2>2. CASE PairSum(fbWords, k) > 0
    <3>1. PICK f \in Fb!Events : f.freq = PairSum(fbWords, k)
      BY <2>2, ByteEvents
    <3>2. ~(e.freq < f.freq)
      BY <1>2 DEF Fb!Worse
    <3> QED BY <1>3, <2>1, <3>1, <3>2
  <2> QED BY <1>3, <2>1, <2>2
<1> HIDE DEF target, tp
<1>5. target = Len(fbVocab) + 1
  BY DEF target
<1>6. target \notin ByteToken /\ tp[1] # target /\ tp[2] # target
  BY <1>1, <1>3, <1>5 DEF ByteToken
<1>7. fbWords' = [i \in DOMAIN fbWords |->
                    [fbWords[i] EXCEPT !.idxs = Replaced(@, tp, target)]]
  BY <1>2, <1>3, ByteCounts, Zenon DEF tp
<1>8. MergedBy(fbWords, DOMAIN fbWords, tp, target) = fbWords'
  <2>1. RewritesAll(ByteToken, fbWords, DOMAIN fbWords, tp, target,
                    MergedBy(fbWords, DOMAIN fbWords, tp, target))
    BY <1>1, <1>6, MergedInventory
  <2> QED BY <1>7, <2>1, Zenon DEF RewritesAll
<1>9. fbVocab' = Append(fbVocab, fbVocab[tp[1]] \o fbVocab[tp[2]])
  <2>1. e.content[1] = fbVocab[tp[1]] /\ e.content[2] = fbVocab[tp[2]]
    BY <1>3
  <2> QED BY <1>2, <2>1, Zenon
<1>10. fbMerges' = Append(fbMerges, [tp |-> tp, target |-> target, freq |-> PairSum(fbWords, tp)])
  BY <1>2, <1>3, Zenon DEF tp
<1>11. LearnsBytes(tp)
  BY <1>3, <1>4, <1>5, <1>8, <1>9, <1>10 DEF LearnsBytes
<1> QED BY <1>11

\* What the byte trainer says of itself stays true, and its list grows by one.
LEMMA ByteLearnStep ==
  ASSUME ByteInv, Fb!Learn
  PROVE  /\ ByteInv' /\ Len(fbMerges') = Len(fbMerges) + 1
         /\ Len(fbVocab') = Len(fbVocab) + 1
<1>1. PICK tp : LearnsBytes(tp)
  BY ByteLearns
<1> DEFINE target == Len(fbVocab) + 1
           text == fbVocab[tp[1]] \o fbVocab[tp[2]]
           m == [tp |-> tp, target |-> target, freq |-> PairSum(fbWords, tp)]
           n == Len(fbMerges)
<1>2. /\ fbVocab \in Seq(Seq(Int)) /\ Len(Bytes) <= Len(fbVocab)
      /\ fbWords \in Inventory(ByteToken) /\ fbMerges \in Seq(ByteMerge)
      /\ ByteRarest /\ ByteSorted
  BY DEF ByteInv
<1>3. /\ tp \in ByteToken \X ByteToken
      /\ m.tp = tp /\ m.target = target /\ m.freq = PairSum(fbWords, tp) /\ m.freq \in Nat
      /\ \A k : PairSum(fbWords, k) <= m.freq
      /\ fbMerges' = Append(fbMerges, m) /\ fbVocab' = Append(fbVocab, text)
      /\ fbWords' = MergedBy(fbWords, DOMAIN fbWords, tp, target)
  BY <1>1 DEF LearnsBytes
<1>4. text \in Seq(Int)
  <2>1. fbVocab[tp[1]] \in Seq(Int) /\ fbVocab[tp[2]] \in Seq(Int)
    BY <1>2, <1>3 DEF ByteToken
  <2> QED BY <2>1
<1> HIDE DEF text
<1>5. /\ fbVocab' \in Seq(Seq(Int)) /\ Len(fbVocab') = target
      /\ ByteToken' = ByteToken \cup {target}
      /\ target \notin ByteToken
  <2>1. DOMAIN fbVocab = 1..Len(fbVocab) /\ Len(fbVocab) \in Nat
    BY <1>2
  <2>2. /\ fbVocab' \in Seq(Seq(Int)) /\ Len(fbVocab') = Len(fbVocab) + 1
        /\ DOMAIN fbVocab' = 1..(Len(fbVocab) + 1)
    BY <1>2, <1>3, <1>4
  <2> QED BY <2>1, <2>2 DEF ByteToken
<1>6. tp[1] # target /\ tp[2] # target
  BY <1>3, <1>5
<1> HIDE DEF target, m
<1>7. RewritesAll(ByteToken, fbWords, DOMAIN fbWords, tp, target, fbWords')
  BY <1>2, <1>3, <1>5, <1>6, MergedInventory
<1>8. /\ fbWords' \in Inventory(ByteToken')
      /\ \A k : k[1] # target /\ k[2] # target => PairSum(fbWords', k) <= PairSum(fbWords, k)
      /\ \A k : k[1] = target \/ k[2] = target => PairSum(fbWords', k) <= PairSum(fbWords, tp)
  BY <1>5, <1>7, Zenon DEF RewritesAll
<1>9. \A k : PairSum(fbWords, k) \in Nat /\ PairSum(fbWords', k) \in Nat
  BY <1>2, <1>8, WeightedCounts
<1>10. \A k : PairSum(fbWords', k) <= m.freq
  <2> TAKE k
  <2>1. PairSum(fbWords', k) <= PairSum(fbWords, k) \/ PairSum(fbWords', k) <= PairSum(fbWords, tp)
    BY <1>8
  <2>2. PairSum(fbWords, k) <= m.freq /\ PairSum(fbWords, tp) <= m.freq
    BY <1>3
  <2> DEFINE a == PairSum(fbWords', k)
             b == PairSum(fbWords, k)
             c == PairSum(fbWords, tp)
  <2>3. a \in Nat /\ b \in Nat /\ c \in Nat
    BY <1>9
  <2> HIDE DEF a, b, c
  <2>4. (a <= b \/ a <= c) /\ b <= m.freq /\ c <= m.freq
    BY <2>1, <2>2 DEF a, b, c
  <2>5. a <= m.freq
    BY <1>3, <2>3, <2>4
  <2> QED BY <2>5 DEF a
<1>11. n \in Nat /\ DOMAIN fbMerges = 1..n
  BY <1>2
<1>12. /\ m \in ByteMerge' /\ Len(fbMerges') = n + 1
       /\ fbMerges' \in Seq(ByteMerge')
       /\ DOMAIN fbMerges' = 1..(n + 1) /\ fbMerges'[n + 1] = m
       /\ \A r \in DOMAIN fbMerges : fbMerges'[r] = fbMerges[r]
  <2>1. m \in ByteMerge'
    BY <1>3, <1>5 DEF ByteMerge, m
  <2>2. ByteMerge \subseteq ByteMerge'
    BY <1>5 DEF ByteMerge
  <2>3. fbMerges \in Seq(ByteMerge')
    <3> HIDE DEF ByteMerge
    <3> DEFINE A == ByteMerge
               B == ByteMerge'
    <3> HIDE DEF A, B
    <3>1. A \subseteq B /\ fbMerges \in Seq(A)
      BY <1>2, <2>2 DEF A, B
    <3>2. fbMerges \in Seq(B)
      BY <3>1
    <3> QED BY <3>2 DEF B
  <2> DEFINE B == ByteMerge'
  <2> HIDE DEF B
  <2>4. fbMerges \in Seq(B) /\ m \in B /\ fbMerges' = Append(fbMerges, m)
    BY <1>3, <2>1, <2>3 DEF B
  <2>5. /\ fbMerges' \in Seq(B) /\ Len(fbMerges') = n + 1 /\ DOMAIN fbMerges' = 1..(n + 1)
        /\ fbMerges'[n + 1] = m /\ \A r \in DOMAIN fbMerges : fbMerges'[r] = fbMerges[r]
    BY <1>11, <2>4
  <2> QED BY <2>1, <2>5 DEF B
<1>13. \A r \in DOMAIN fbMerges : fbMerges[r].freq \in Nat
  <2> TAKE r \in DOMAIN fbMerges
  <2>1. fbMerges[r] \in ByteMerge
    BY <1>2
  <2> QED BY <2>1 DEF ByteMerge
<1> HIDE DEF n
<1>14. ByteRarest'
  <2> SUFFICES ASSUME NEW r \in DOMAIN fbMerges', NEW k
               PROVE  PairSum(fbWords', k) <= fbMerges'[r].freq
    BY DEF ByteRarest
  <2>1. CASE r = n + 1
    BY <1>10, <1>12, <2>1
  <2>2. CASE r \in DOMAIN fbMerges
    <3>1. m.freq <= fbMerges[r].freq
      BY <1>2, <1>3, <2>2 DEF ByteRarest
    <3>2. fbMerges'[r].freq = fbMerges[r].freq
      BY <1>12, <2>2
    <3>3. PairSum(fbWords', k) <= m.freq
      BY <1>10
    <3> QED BY <1>3, <1>9, <1>13, <2>2, <3>1, <3>2, <3>3
  <2> QED BY <1>11, <1>12, <2>1, <2>2
<1>15. ByteSorted'
  <2> SUFFICES ASSUME NEW r \in DOMAIN fbMerges', NEW q \in DOMAIN fbMerges', r < q
               PROVE  fbMerges'[r].freq >= fbMerges'[q].freq
    BY DEF ByteSorted
  <2>1. r \in DOMAIN fbMerges /\ fbMerges'[r] = fbMerges[r]
    BY <1>11, <1>12
  <2>2. CASE q = n + 1
    <3>1. m.freq <= fbMerges[r].freq
      BY <1>2, <1>3, <2>1 DEF ByteRarest
    <3> QED BY <1>3, <1>12, <1>13, <2>1, <2>2, <3>1
  <2>3. CASE q \in DOMAIN fbMerges
    BY <1>2, <1>12, <2>1, <2>3 DEF ByteSorted
  <2> QED BY <1>11, <1>12, <2>2, <2>3
<1>16. Len(Bytes) <= Len(fbVocab')
  <2>1. Len(Bytes) \in Nat /\ Len(fbVocab) \in Nat
    BY <1>2, FallbackAssumption
  <2> QED BY <1>2, <1>5, <2>1 DEF target
<1> QED BY <1>5, <1>8, <1>12, <1>14, <1>15, <1>16 DEF ByteInv, n, target

-----------------------------------------------------------------------------
(* The units that are left to freeze. *)

\* A unit that is still in the table occurs in the words.
UnitsInv == \A k \in DOMAIN store \cap UnitKeys : store[k].freq > 0

\* A table that was just built has what occurs.
LEMMA UnitsBuilt ==
  ASSUME Sound, UNCHANGED frozen,
         InitTraining \/ \E target \in 0..MaxVocab : TrainUntil(target)
  PROVE  UnitsInv'
<1>1. BuildTable /\ WordsInv
  BY DEF InitTraining, TrainUntil, Sound
<1>2. Store!Build(Counted, Occurrences)
  BY <1>1, SameSearch DEF BuildTable
<1>3. Counted \in Store!Counted /\ Occurrences \in Store!Scans
  BY <1>1, RecountTypes
<1>4. /\ DOMAIN store' = DOMAIN Counted
      /\ \A tp \in DOMAIN Counted : store'[tp].freq = Counted[tp].freq
  BY <1>2, <1>3, TableAssumptions, Store!BuildEntries
<1> QED BY <1>1, <1>4, Recount DEF UnitsInv, UnitKeys

\* Training only takes units out of the table.
LEMMA UnitsStay ==
  ASSUME Inv, UnitsInv, UNCHANGED frozen, Step \/ Iteration
  PROVE  UnitsInv'
<1>1. UnitKeys' = UnitKeys
  BY DEF UnitKeys
<1>2. WordsInv /\ KeysInv
  BY DEF Inv, Sound
<1>3. CASE \/ Step \/ TrainNext \/ TrainReached \/ PopStale \/ Refill \/ Exhausted \/ LearnUnit
  <2>1. store' = store
    BY <1>3 DEF Step, TrainNext, TrainReached, PopStale, Refill, Exhausted, LearnUnit,
       Table!Search, Table!Refill, Table!GiveUp, Table!ApplyUnit, tableVars
  <2> QED BY <1>1, <2>1 DEF UnitsInv
<1>4. CASE Select
  <2>1. PICK c \in heap : Store!Select(c, Occurrences)
    BY <1>4, SameSearch DEF Select
  <2>2. Store!StoreTypeOK /\ Occurrences \in Store!Scans
    BY <1>2, RecountTypes DEF Inv, Sound, Store!FrontierInv
  <2>3. /\ DOMAIN store' = DOMAIN store \ {c.tp}
        /\ \A tp \in DOMAIN store' : store'[tp].freq = store[tp].freq
    BY <2>1, <2>2, TableAssumptions, Store!SelectEntries
  <2> QED BY <1>1, <2>3 DEF UnitsInv
<1>5. CASE StopAtCutoff
  <2>1. Store!Decline
    BY <1>5, SameMerge DEF StopAtCutoff
  <2>2. /\ DOMAIN store' = DOMAIN store \cup {merge.tp} /\ merge.tp \in Id \X Id
        /\ \A tp \in DOMAIN store : tp # merge.tp => store'[tp] = store[tp]
    BY <2>1 DEF Store!Decline, Store!Restored
  <2>3. merge.tp \notin UnitKeys
    BY <1>2, <2>2, KeyTypes
  <2> QED BY <1>1, <2>2, <2>3 DEF UnitsInv
<1>6. CASE LearnPair
  <2>1. phase = "merge" /\ merge.tp \in PairKeys
    BY <1>6, LearnPairUnfold
  <2>2. /\ DOMAIN store' = DOMAIN Result
        /\ \A k \in DOMAIN Result : store'[k].freq = Result[k].freq
    BY <1>6, LearnPairTable
  <2>3. \A k \in UnitKeys : k \in DOMAIN Result => k \in DOMAIN store /\ Result[k] = store[k]
    <3>1. NewKeys \cap UnitKeys = {}
      BY <1>2, <2>1, NewKeyTypes
    <3> QED BY <2>1, <3>1, ResultFreqs
  <2> QED BY <1>1, <2>2, <2>3 DEF UnitsInv
<1> QED BY <1>3, <1>4, <1>5, <1>6 DEF Iteration

\* The values of a function on a finite set are finitely many.
LEMMA FiniteValues ==
  ASSUME NEW f, NEW S, IsFiniteSet(S)
  PROVE  IsFiniteSet({f[x] : x \in S})
<1> DEFINE T == {f[x] : x \in S}
           g == [x \in S |-> f[x]]
<1>1. g \in Surjection(S, T)
  BY DEF Surjection
<1> HIDE DEF g, T
<1>2. IsFiniteSet(T)
  BY <1>1, FS_Surjection
<1> QED BY <1>2 DEF T

\* So are the units of finitely many words.
LEMMA FiniteUnits ==
  ASSUME NEW U, NEW ws \in Inventory(U)
  PROVE  IsFiniteSet(UNION {Elements(ws[i].idxs) : i \in DOMAIN ws})
<1> DEFINE g == [i \in DOMAIN ws |-> Elements(ws[i].idxs)]
           T == {g[i] : i \in DOMAIN ws}
<1>1. ASSUME NEW i \in DOMAIN ws PROVE IsFiniteSet(g[i])
  <2> DEFINE w == ws[i].idxs
  <2>1. w \in Seq(U)
    BY InventoryType
  <2>2. g[i] = Elements(w)
    OBVIOUS
  <2> HIDE DEF w, g
  <2>3. IsFiniteSet(DOMAIN w)
    <3>1. DOMAIN w = 1..Len(w) /\ Len(w) \in Nat
      BY <2>1
    <3> QED BY <3>1, FS_Interval
  <2> QED BY <2>2, <2>3, FiniteValues DEF Elements
<1>2. {Elements(ws[i].idxs) : i \in DOMAIN ws} = T
  OBVIOUS
<1>3. IsFiniteSet(DOMAIN ws)
  BY InventoryType
<1> HIDE DEF g
<1>4. IsFiniteSet(T)
  BY <1>3, FiniteValues
<1>5. \A A \in T : IsFiniteSet(A)
  BY <1>1
<1> HIDE DEF T
<1>6. IsFiniteSet(UNION T)
  BY <1>4, <1>5, FS_UNION
<1> QED BY <1>2, <1>6

\* What is frozen are scalars of the words, each with the number of times it
\* occurs in them.
LEMMA Frozen ==
  ASSUME Inv, UnitsInv, call = Idle, ready
  PROVE  /\ Freezable \subseteq Unit /\ IsFiniteSet(Freezable)
         /\ \A u \in Freezable : store[<<Sentinel, u>>].freq \in Nat \ {0}
<1>1. WordsInv /\ KeysInv /\ FreqInv /\ CallInv /\ Store!StoreTypeOK
  BY DEF Inv, Sound, Store!FrontierInv
<1>2. ASSUME NEW u \in Freezable
      PROVE  /\ u \in Unit /\ <<Sentinel, u>> \in DOMAIN store \cap UnitKeys
  <2>1. PICK tp \in DOMAIN store : tp[1] = Sentinel /\ u = tp[2]
    BY DEF Freezable
  <2>2. tp \in PairKeys \cup UnitKeys
    BY <1>1 DEF KeysInv
  <2> QED BY <1>1, <2>1, <2>2, KeyTypes
<1>3. ASSUME NEW u \in Freezable
      PROVE  store[<<Sentinel, u>>].freq \in Nat \ {0}
  <2>1. store[<<Sentinel, u>>].freq > 0
    BY <1>2 DEF UnitsInv
  <2>2. store[<<Sentinel, u>>].freq \in Int
    BY <1>1, <1>2 DEF Store!StoreTypeOK, Store!TableOK, Store!Entry
  <2> QED BY <2>1, <2>2
<1>4. IsFiniteSet(Freezable)
  <2> DEFINE S == UNION {Elements(words[i].idxs) : i \in DOMAIN words}
  <2>1. IsFiniteSet(S)
    BY <1>1, FiniteUnits DEF WordsInv
  <2>2. merge = None
    BY <1>1 DEF CallInv, Store!StoreTypeOK
  <2>3. ASSUME NEW u \in Freezable PROVE u \in S
    <3> DEFINE k == <<Sentinel, u>>
    <3>1. HeldFreq(k) = KeyFreq(k) /\ HeldFreq(k) > 0
      BY <1>1, <1>2, <1>3, <2>2 DEF FreqInv, HeldFreq
    <3>2. u \in Unmaterialized
      BY <3>1 DEF KeyFreq
    <3> QED BY <3>2 DEF Unmaterialized
  <2> HIDE DEF S
  <2> QED BY <2>1, <2>3, FS_Subset
<1> QED BY <1>2, <1>3, <1>4

\* Every frozen scalar becomes a word of bytes, which all have a token.
LEMMA FreezeBytes ==
  ASSUME Inv, UnitsInv, ready, ByteInv, fbMerges = << >>, Freeze
  PROVE  ByteInv'
<1> DEFINE n == Cardinality(Freezable)
           order == InOrder(Freezable)
<1>1. /\ fbVocab' = fbVocab /\ fbMerges' = fbMerges
      /\ fbWords' = [k \in 1..n |-> LET u == order[k]
                                   IN [idxs |-> [i \in DOMAIN Utf8[u] |-> ByteId(Utf8[u][i])],
                                       freq |-> store[<<Sentinel, u>>].freq]]
      /\ call = Idle
  BY DEF Freeze
<1>2. /\ Freezable \subseteq Unit /\ IsFiniteSet(Freezable)
      /\ \A u \in Freezable : store[<<Sentinel, u>>].freq \in Nat \ {0}
  BY <1>1, Frozen
<1>3. order \in Seq(Int) /\ Len(order) = n /\ Elements(order) = Freezable
  <2>1. Freezable \subseteq Int
    BY <1>2, TrainerAssumption
  <2> QED BY <1>2, <2>1, Ordered
<1>4. n \in Nat /\ \A k \in 1..n : order[k] \in Freezable
  <2> HIDE DEF n, order
  <2> QED BY <1>3 DEF Elements
<1>5. ByteToken' = ByteToken /\ fbVocab \in Seq(Seq(Int)) /\ Len(Bytes) <= Len(fbVocab)
  BY <1>1 DEF ByteInv, ByteToken
<1>6. DOMAIN Bytes \subseteq ByteToken
  BY <1>5, FallbackAssumption DEF ByteToken
<1>7. ASSUME NEW u \in Unit
      PROVE  [i \in DOMAIN Utf8[u] |-> ByteId(Utf8[u][i])] \in Seq(ByteToken)
  <2>1. Utf8[u] \in Seq(Byte)
    BY FallbackAssumption, CharactersAssumption DEF Scalar
  <2>2. ASSUME NEW i \in DOMAIN Utf8[u] PROVE ByteId(Utf8[u][i]) \in ByteToken
    <3>1. Utf8[u][i] \in Elements(Utf8[u])
      BY DEF Elements
    <3>2. <<Utf8[u][i]>> \in Elements(Bytes)
      BY <3>1, FallbackAssumption
    <3>3. \E j \in DOMAIN Bytes : Bytes[j] = <<Utf8[u][i]>>
      BY <3>2 DEF Elements
    <3> QED BY <1>6, <3>3 DEF ByteId
  <2> DEFINE w == Utf8[u]
             v == [i \in DOMAIN w |-> ByteId(w[i])]
  <2>3. \A i \in DOMAIN w : v[i] \in ByteToken
    BY <2>2
  <2>4. DOMAIN w = 1..Len(w) /\ Len(w) \in Nat
    BY <2>1
  <2>5. DOMAIN v = 1..Len(w) /\ v = [i \in 1..Len(w) |-> v[i]]
    BY <2>4
  <2> HIDE DEF v, w
  <2>6. v \in Seq(ByteToken)
    BY <2>3, <2>4, <2>5
  <2> QED BY <2>6 DEF v, w
<1>8. fbWords' \in Inventory(ByteToken)
  <2> DEFINE A == [idxs : Seq(ByteToken), freq : Nat \ {0}]
             word(k) == [idxs |-> [i \in DOMAIN Utf8[order[k]] |-> ByteId(Utf8[order[k]][i])],
                         freq |-> store[<<Sentinel, order[k]>>].freq]
  <2>1. \A k \in 1..n : word(k) \in A
    <3> TAKE k \in 1..n
    <3>1. order[k] \in Unit /\ store[<<Sentinel, order[k]>>].freq \in Nat \ {0}
      BY <1>2, <1>4
    <3>2. [i \in DOMAIN Utf8[order[k]] |-> ByteId(Utf8[order[k]][i])] \in Seq(ByteToken)
      BY <1>7, <3>1
    <3> HIDE DEF order
    <3> QED BY <3>1, <3>2
  <2>2. fbWords' = [k \in 1..n |-> word(k)]
    BY <1>1
  <2> HIDE DEF A, word, n
  <2>3. fbWords' \in Seq(A)
    BY <1>4, <2>1, <2>2
  <2> QED BY <2>3 DEF Inventory, A
<1>9. fbMerges' \in Seq(ByteMerge')
  BY <1>1
<1>10. ByteRarest' /\ ByteSorted'
  BY <1>1 DEF ByteRarest, ByteSorted
<1> QED BY <1>1, <1>5, <1>8, <1>9, <1>10 DEF ByteInv

-----------------------------------------------------------------------------
(* The invariant of a trainer that is open. *)

\* Outside the fallback itself its table is the one of the words; frozen scalars
\* make it one that has to be built anew.
TableInv ==
  /\ adds = 0
  /\ bbpe # NoFallback => ready
  /\ IF bbpe.stage = "fallback" THEN Sound /\ call = Idle ELSE Inv /\ UnitsInv

\* A byte trainer is new until the fallback runs, and keeps to its share.
ShareInv ==
  /\ bbpe # NoFallback =>
       /\ bbpe \in [stage : {"primary", "fallback", "resume"}, target : Targets, cap : Nat]
       /\ Len(fbMerges) <= bbpe.cap
  /\ bbpe.stage \in {"none", "primary"} => fbMerges = << >>

\* What is left to a call that is in progress, or was ordered by the fallback.
TargetInv ==
  /\ call.op = "train" => Len(vocab) <= call.target
  /\ call.op = "train" /\ phase # "idle" => Len(vocab) < call.target
  /\ bbpe.stage \in {"primary", "fallback"} => Len(vocab) <= bbpe.target - bbpe.cap
  /\ bbpe.stage = "primary" /\ call # Idle =>
       call = [op |-> "train", target |-> bbpe.target - bbpe.cap]
  /\ bbpe.stage = "resume" =>
       /\ Len(vocab) <= ResumeTarget
       /\ IF call = Idle THEN Len(vocab) = ResumeTarget \/ NothingLeft
                         ELSE call = [op |-> "train", target |-> ResumeTarget]

OpenInv == TableInv /\ ByteInv /\ ShareInv /\ TargetInv

CallsInv == ClosedInv /\ (training_state = "open" => OpenInv)

\* A share below 1 of some places is some of them.
LEMMA ShareOfPlaces ==
  ASSUME NEW n \in Nat, NEW a \in Nat, NEW b \in Nat, a < b
  PROVE  (n * a) \div b \in 0..n
<1> DEFINE q == (n * a) \div b
           m == n * a
<1>1. m \in Nat /\ b \in Nat \ {0}
  OBVIOUS
<1>2. n * a <= n * b
  OBVIOUS
<1>3. q \in Int /\ b * q <= m /\ m < b * (q + 1)
  <2>1. \A x \in Nat, y \in Nat \ {0} : x \div y \in Int /\ y * (x \div y) <= x /\ x < y * (x \div y + 1)
    OBVIOUS
  <2>2. q = m \div b
    OBVIOUS
  <2> HIDE DEF m
  <2>3. m \div b \in Int /\ b * (m \div b) <= m /\ m < b * (m \div b + 1)
    BY <1>1, <2>1
  <2> HIDE DEF q
  <2> QED BY <2>2, <2>3
<1>4. q >= 0
  <2> HIDE DEF q, m
  <2>1. SUFFICES ASSUME q + 1 <= 0 PROVE FALSE
    BY <1>3
  <2>2. b * (q + 1) <= 0
    BY <1>1, <1>3, <2>1
  <2> QED BY <1>1, <1>3, <2>2
<1>5. q <= n
  <2>1. b * q <= b * n
    <3> HIDE DEF q
    <3> QED BY <1>2, <1>3 DEF m
  <2> HIDE DEF q, m
  <2>2. SUFFICES ASSUME n + 1 <= q PROVE FALSE
    BY <1>3
  <2>3. b * (n + 1) <= b * q
    BY <1>1, <1>3, <2>2
  <2>4. b * (n + 1) = b * n + b
    BY <1>1
  <2> QED BY <1>1, <1>3, <2>1, <2>3, <2>4
<1> QED BY <1>3, <1>4, <1>5

\* Other words than these are not needed to say what is left of them.
LEMMA NothingLeftStays ==
  ASSUME SameWords, NothingLeft PROVE NothingLeft'
BY SameWordsKeys DEF NothingLeft

\* Nothing of the trainer changes while the byte trainer learns.
LEMMA SoundStays ==
  ASSUME Sound, UNCHANGED vars
  PROVE  Sound'
<1>1. /\ SameWords /\ UNCHANGED <<merges, adds, ready, store, threshold, merge, call, phase>>
      /\ UNCHANGED Store!storeVars
  BY DEF vars, trainerVars, tableVars, SameWords, Store!storeVars
<1>2. /\ CallInv /\ KeysInv /\ OccInv /\ HandleInv /\ ThresholdInv
  BY DEF Sound
<1>3. CallInv'
  BY <1>1, <1>2, Zenon DEF CallInv, SameWords
<1>4. KeysInv'
  BY <1>1, <1>2, SameWordsKeys, Zenon DEF KeysInv
<1>5. OccInv'
  BY <1>1, <1>2, SameWordsKeys, Zenon DEF OccInv
<1>6. HandleInv' /\ ThresholdInv'
  BY <1>1, <1>2, Zenon DEF HandleInv, ThresholdInv, Store!Bounded, Store!Live
<1> QED BY <1>1, <1>3, <1>4, <1>5, <1>6, SameWordsInv, TableStep DEF Sound

\* A trainer that is new.
LEMMA CallsInit == PositiveInventories /\ FallbackInit => CallsInv
<1> SUFFICES ASSUME PositiveInventories, FallbackInit PROVE CallsInv
  OBVIOUS
<1>1. Inv /\ call = Idle /\ adds = 0 /\ bbpe = NoFallback
  BY InvInit DEF FallbackInit, Init
<1>2. TableInv
  <2>1. UnitsInv
    BY DEF FallbackInit, Init, Table!StoreInit, UnitsInv
  <2> QED BY <1>1, <2>1 DEF TableInv, NoFallback
<1>3. ByteInv
  <2>1. fbWords = << >> /\ fbVocab = Bytes /\ fbMerges = << >>
    BY DEF FallbackInit
  <2>2. fbWords \in Inventory(ByteToken) /\ fbMerges \in Seq(ByteMerge)
    BY <2>1 DEF Inventory
  <2>3. ByteRarest /\ ByteSorted
    BY <2>1 DEF ByteRarest, ByteSorted
  <2>4. Len(Bytes) \in Nat
    BY FallbackAssumption
  <2> QED BY <2>1, <2>2, <2>3, <2>4, FallbackAssumption DEF ByteInv
<1>4. ShareInv /\ TargetInv
  BY <1>1 DEF FallbackInit, ShareInv, TargetInv, Idle, NoFallback
<1> QED BY <1>2, <1>3, <1>4, ClosedInit DEF CallsInv, OpenInv

\* A call from outside a fallback.
LEMMA OrdinaryStep ==
  ASSUME CallsInv, Ordinary
  PROVE  OpenInv'
<1>1. /\ bbpe = NoFallback /\ training_state = "open" /\ TrainingCall /\ frozen' = frozen
      /\ UNCHANGED <<bbpe, byteTrainer>>
  BY DEF Ordinary, fallbackVars
<1>2. OpenInv /\ Inv /\ UnitsInv /\ adds = 0
  BY <1>1 DEF CallsInv, OpenInv, TableInv, NoFallback
<1>3. Inv' /\ UnitsInv' /\ adds' = adds
  <2>1. CASE InitTraining \/ \E target \in Targets : TrainUntil(target)
    <3>1. InitTraining \/ \E target \in 0..MaxVocab : TrainUntil(target)
      BY <2>1, TrainerAssumption
    <3> QED BY <1>1, <1>2, <3>1, BuildStep, UnitsBuilt DEF Inv, InitTraining, TrainUntil
  <2>2. CASE Step
    BY <1>1, <1>2, <2>2, CallStep, UnitsStay DEF Step
  <2> QED BY <1>1, <2>1, <2>2 DEF TrainingCall
<1>4. TableInv'
  BY <1>1, <1>2, <1>3 DEF TableInv, NoFallback
<1>5. ByteInv' /\ ShareInv'
  <2>1. fbWords' = fbWords /\ fbVocab' = fbVocab /\ fbMerges' = fbMerges /\ bbpe' = bbpe
    BY <1>1 DEF byteTrainer
  <2>2. ByteInv'
    BY <1>2, <2>1, Zenon DEF OpenInv, ByteInv, ByteToken, ByteMerge, ByteRarest, ByteSorted, PairSum
  <2>3. ShareInv'
    BY <1>2, <2>1, Zenon DEF OpenInv, ShareInv
  <2> QED BY <2>2, <2>3
<1>6. TargetInv'
  <2>1. bbpe'.stage = "none"
    BY <1>1 DEF NoFallback
  <2>2. CASE InitTraining
    BY <2>1, <2>2 DEF InitTraining, TargetInv, Idle
  <2>3. ASSUME NEW target \in Targets, TrainUntil(target) PROVE TargetInv'
    <3>1. vocab' = vocab /\ call'.target = target /\ target > Len(vocab)
      BY <2>3 DEF TrainUntil
    <3>2. Len(vocab) \in Nat /\ target \in Nat
      BY <1>2, TrainerAssumption DEF Inv, Sound, WordsInv
    <3> QED BY <2>1, <3>1, <3>2 DEF TargetInv
  <2>4. CASE Step
    BY <2>1, <2>4 DEF Step, TargetInv
  <2> QED BY <1>1, <2>2, <2>3, <2>4 DEF TrainingCall
<1> QED BY <1>4, <1>5, <1>6 DEF OpenInv

\* A fallback call begins with the share of the primary stage.
LEMMA StartStep ==
  ASSUME CallsInv, NEW target \in Targets, NEW share \in Shares,
         StartPrimary(target, share) \/ SkipPrimary(target, share)
  PROVE  OpenInv'
<1> DEFINE slots == PrimarySlots(target, share)
<1>1. /\ MayStart(target) /\ Entered(target, slots)
      /\ IF slots > 0 THEN TrainUntil(Len(BaseVocab) + slots) ELSE slots = 0 /\ InitTraining
      /\ frozen' = frozen /\ UNCHANGED byteTrainer
  BY DEF StartPrimary, SkipPrimary
<1>2. OpenInv /\ Inv /\ adds = 0 /\ fbMerges = << >>
  BY <1>1 DEF MayStart, CallsInv, OpenInv, TableInv, NoFallback, ShareInv
<1>3. /\ target \in Nat /\ target <= MaxVocab /\ MaxVocab \in Nat /\ Len(BaseVocab) \in Nat
      /\ Len(vocab) = Len(BaseVocab) /\ target > Len(BaseVocab)
  BY <1>1, TrainerAssumption DEF MayStart
<1>4. slots \in 0..(target - Len(BaseVocab))
  <2>1. share[1] \in Nat /\ share[2] \in Nat /\ share[1] < share[2]
    BY FallbackAssumption
  <2>2. target - Len(BaseVocab) \in Nat
    BY <1>3
  <2> QED BY <2>1, <2>2, ShareOfPlaces DEF PrimarySlots
<1>5. bbpe' = [stage |-> "primary", target |-> target, cap |-> target - Len(BaseVocab) - slots]
  BY <1>1 DEF Entered
<1> HIDE DEF slots
<1>6. Len(BaseVocab) + slots \in 0..MaxVocab
  BY <1>3, <1>4
<1>7. InitTraining \/ \E n \in 0..MaxVocab : TrainUntil(n)
  BY <1>1, <1>6
<1>8. Inv' /\ UnitsInv' /\ adds' = adds /\ ready' = TRUE /\ vocab' = vocab
  BY <1>1, <1>2, <1>7, BuildStep, UnitsBuilt DEF Inv, InitTraining, TrainUntil
<1>9. TableInv'
  BY <1>2, <1>5, <1>8 DEF TableInv
<1>10. ByteInv' /\ fbMerges' = << >>
  <2>1. fbWords' = fbWords /\ fbVocab' = fbVocab /\ fbMerges' = fbMerges
    BY <1>1 DEF byteTrainer
  <2> QED BY <1>2, <2>1, Zenon DEF OpenInv, ByteInv, ByteToken, ByteMerge, ByteRarest, ByteSorted, PairSum
<1>11. ShareInv'
  <2> DEFINE cap == target - Len(BaseVocab) - slots
  <2>1. cap \in Nat
    BY <1>3, <1>4
  <2> HIDE DEF cap
  <2>2. bbpe' = [stage |-> "primary", target |-> target, cap |-> cap]
    BY <1>5 DEF cap
  <2>3. /\ bbpe' \in [stage : {"primary", "fallback", "resume"}, target : Targets, cap : Nat]
        /\ bbpe'.cap = cap
    BY <2>1, <2>2
  <2>4. Len(fbMerges') <= bbpe'.cap
    BY <1>10, <2>1, <2>3
  <2> QED BY <1>10, <2>3, <2>4 DEF ShareInv
<1>12. TargetInv'
  <2>1. bbpe'.stage = "primary" /\ bbpe'.target - bbpe'.cap = Len(BaseVocab) + slots
    BY <1>3, <1>4, <1>5
  <2>2. CASE slots > 0
    <3>1. call' = [op |-> "train", target |-> Len(BaseVocab) + slots] /\ vocab' = vocab
      BY <1>1, <2>2 DEF TrainUntil
    <3> QED BY <1>3, <1>4, <2>1, <2>2, <3>1 DEF TargetInv
  <2>3. CASE slots = 0
    <3>1. call' = Idle /\ vocab' = vocab
      BY <1>1, <2>3 DEF InitTraining
    <3> QED BY <1>3, <2>1, <2>3, <3>1 DEF TargetInv, Idle
  <2> QED BY <1>4, <2>2, <2>3
<1> QED BY <1>9, <1>10, <1>11, <1>12 DEF OpenInv

\* The byte trainer is untouched by the steps of the other one.
LEMMA BytesStay ==
  ASSUME ByteInv, UNCHANGED byteTrainer PROVE ByteInv'
BY Zenon DEF byteTrainer, ByteInv, ByteToken, ByteMerge, ByteRarest, ByteSorted, PairSum

\* A search that fails finds no other step to take.
LEMMA OnlyExhausted ==
  ASSUME Exhausted
  PROVE  ~(\/ TrainNext \/ TrainReached \/ PopStale \/ Select \/ Refill
           \/ StopAtCutoff \/ LearnUnit \/ LearnPair)
<1>1. phase = "search" /\ heap = {} /\ (cutoff = None \/ Table!Candidates(store) = {})
  BY DEF Exhausted, Table!GiveUp
<1>2. ~TrainNext /\ ~TrainReached /\ ~StopAtCutoff /\ ~LearnUnit /\ ~LearnPair
  BY <1>1 DEF TrainNext, Table!Search, TrainReached, StopAtCutoff, LearnUnit, Table!ApplyUnit,
     LearnPair
<1>3. ~PopStale /\ ~Select /\ ~Refill
  BY <1>1 DEF PopStale, Select, Refill, Table!Refill
<1> QED BY <1>2, <1>3

\* An iteration of ordinary training, in a fallback or not.
LEMMA IterateStep ==
  ASSUME CallsInv, Iterate
  PROVE  training_state = "open" => OpenInv'
<1> SUFFICES ASSUME training_state = "open" PROVE OpenInv'
  OBVIOUS
<1>1. /\ Iteration /\ frozen' = frozen /\ bbpe' = bbpe /\ UNCHANGED byteTrainer
      /\ Exhausted => bbpe = NoFallback
  BY OnlyExhausted DEF Iterate, Iteration
<1>2. OpenInv /\ call # Idle
  BY <1>1, IterationHasCall DEF CallsInv, Iteration
<1>3. Inv /\ UnitsInv /\ adds = 0 /\ bbpe.stage # "fallback"
  BY <1>2 DEF OpenInv, TableInv
<1>4. Inv' /\ UnitsInv' /\ adds' = adds
  BY <1>1, <1>3, IterationKeeps, UnitsStay
<1>5. TableInv'
  <2>1. ready' = ready
    BY <1>1 DEF Iteration, TrainNext, TrainReached, PopStale, Select, Refill, Exhausted,
       StopAtCutoff, LearnUnit, LearnPair, trainerVars
  <2> QED BY <1>1, <1>2, <1>3, <1>4, <2>1 DEF OpenInv, TableInv
<1>6. ByteInv' /\ ShareInv' /\ fbMerges' = fbMerges
  <2>1. ByteInv'
    BY <1>1, <1>2, BytesStay DEF OpenInv
  <2> QED BY <1>1, <1>2, <2>1 DEF OpenInv, ShareInv, byteTrainer
<1>7. TargetInv'
  <2>1. TargetInv /\ CallInv /\ CallInv' /\ WordsInv /\ ShareInv
    BY <1>2, <1>3, <1>4 DEF OpenInv, Inv, Sound
  <2>2. CASE call.op # "train"
    <3>1. bbpe'.stage = "none"
      BY <1>1, <1>2, <1>3, <2>1, <2>2 DEF TargetInv, ShareInv, OpenInv, NoFallback
    <3>2. call' \in {call, Idle}
      BY <1>1 DEF Iteration, TrainNext, TrainReached, PopStale, Select, Refill, Exhausted,
         StopAtCutoff, LearnUnit, LearnPair, AfterEvent, trainerVars
    <3>3. call'.op # "train"
      BY <2>2, <3>2 DEF Idle
    <3> QED BY <3>1, <3>3 DEF TargetInv
  <2>3. CASE call.op = "train"
    <3>1. \/ /\ call' = call /\ Len(vocab') <= call.target
             /\ phase' # "idle" => Len(vocab') < call.target
          \/ /\ call' = Idle /\ SameWords
             /\ Exhausted \/ Len(vocab) = call.target \/ NothingLeft
      BY <1>1, <1>3, <2>1, <2>3, IterationStops DEF TargetInv
    <3>2. ResumeTarget' = ResumeTarget
      BY <1>1, <1>6 DEF ResumeTarget
    <3>3. \/ bbpe = NoFallback
          \/ /\ bbpe.stage = "primary"
             /\ call = [op |-> "train", target |-> bbpe.target - bbpe.cap]
          \/ /\ bbpe.stage = "resume"
             /\ call = [op |-> "train", target |-> ResumeTarget]
      BY <1>2, <1>3, <2>1 DEF TargetInv, ShareInv, OpenInv
    <3>4. CASE /\ call' = call /\ Len(vocab') <= call.target
               /\ phase' # "idle" => Len(vocab') < call.target
      BY <1>1, <1>2, <3>2, <3>3, <3>4 DEF TargetInv, NoFallback
    <3>5. CASE call' = Idle /\ SameWords /\ (Exhausted \/ Len(vocab) = call.target \/ NothingLeft)
      <4>1. vocab' = vocab /\ call'.op # "train"
        BY <3>5 DEF SameWords, Idle
      <4>2. CASE bbpe = NoFallback
        BY <1>1, <4>1, <4>2 DEF TargetInv, NoFallback
      <4>3. CASE bbpe.stage = "primary"
        BY <1>1, <2>1, <3>5, <4>1, <4>3 DEF TargetInv
      <4>4. CASE bbpe.stage = "resume"
        <5>1. Len(vocab) = ResumeTarget \/ NothingLeft'
          BY <1>1, <3>3, <3>5, <4>4, NothingLeftStays DEF NoFallback
        <5> QED BY <1>1, <2>1, <3>2, <3>5, <4>1, <4>4, <5>1 DEF TargetInv
      <4> QED BY <3>3, <4>2, <4>3, <4>4
    <3> QED BY <3>1, <3>4, <3>5
  <2> QED BY <2>2, <2>3
<1> QED BY <1>5, <1>6, <1>7 DEF OpenInv

\* The primary stage ends with the freeze.
LEMMA FreezeStep ==
  ASSUME OpenInv, Freeze
  PROVE  OpenInv'
<1>1. /\ bbpe.stage = "primary" /\ call = Idle /\ bbpe' = [bbpe EXCEPT !.stage = "fallback"]
      /\ vocab' = vocab /\ call' = call /\ ready' = ready /\ adds' = adds
      /\ phase' = phase /\ fbMerges' = fbMerges
  BY DEF Freeze, trainerVars, tableVars
<1>2. bbpe # NoFallback
  BY <1>1 DEF NoFallback
<1>3. /\ Inv /\ UnitsInv /\ ready /\ adds = 0 /\ ByteInv /\ fbMerges = << >>
      /\ ShareInv /\ TargetInv
  BY <1>1, <1>2 DEF OpenInv, TableInv, ShareInv
<1>4. Sound' /\ ByteInv'
  BY <1>3, FreezeKeeps, FreezeBytes
<1>5. bbpe'.stage = "fallback" /\ bbpe'.target = bbpe.target /\ bbpe'.cap = bbpe.cap
  BY <1>1, <1>2, <1>3 DEF ShareInv
<1>6. TableInv'
  BY <1>1, <1>3, <1>4, <1>5 DEF TableInv
<1>7. ShareInv' /\ TargetInv'
  BY <1>1, <1>2, <1>3, <1>5 DEF ShareInv, TargetInv, Idle
<1> QED BY <1>4, <1>6, <1>7 DEF OpenInv

\* The byte trainer learns within its share.
LEMMA BytesStep ==
  ASSUME OpenInv, FallbackLearns
  PROVE  OpenInv'
<1>1. /\ bbpe.stage = "fallback" /\ Len(fbMerges) < bbpe.cap /\ Fb!Learn
      /\ UNCHANGED vars /\ bbpe' = bbpe
  BY DEF FallbackLearns
<1>2. /\ bbpe # NoFallback /\ Sound /\ call = Idle /\ ready /\ adds = 0 /\ ByteInv
      /\ ShareInv /\ TargetInv
  BY <1>1 DEF OpenInv, TableInv, NoFallback
<1>3. Sound' /\ call' = call /\ ready' = ready /\ adds' = adds /\ vocab' = vocab /\ phase' = phase
  BY <1>1, <1>2, SoundStays DEF vars, trainerVars, tableVars
<1>4. ByteInv' /\ Len(fbMerges') = Len(fbMerges) + 1
  BY <1>1, <1>2, ByteLearnStep
<1>5. TableInv'
  BY <1>1, <1>2, <1>3 DEF TableInv
<1>6. ShareInv'
  <2>1. Len(fbMerges) \in Nat /\ bbpe.cap \in Nat
    BY <1>2 DEF ByteInv, ShareInv
  <2> QED BY <1>1, <1>2, <1>4, <2>1 DEF ShareInv
<1>7. TargetInv'
  BY <1>1, <1>2, <1>3 DEF TargetInv, Idle
<1> QED BY <1>4, <1>5, <1>6, <1>7 DEF OpenInv

\* What the byte trainer left is trained on a table without the frozen scalars.
LEMMA ResumeStep ==
  ASSUME OpenInv, Resume
  PROVE  OpenInv'
<1>1. /\ bbpe.stage = "fallback" /\ ResumeTarget > Len(vocab) /\ TrainUntil(ResumeTarget)
      /\ bbpe' = [bbpe EXCEPT !.stage = "resume"]
      /\ frozen' = frozen /\ UNCHANGED byteTrainer
  BY DEF Resume, FallbackDone
<1>2. /\ bbpe # NoFallback /\ Sound /\ adds = 0 /\ ByteInv /\ ShareInv /\ TargetInv
  BY <1>1 DEF OpenInv, TableInv, NoFallback
<1>3. ResumeTarget \in 0..MaxVocab /\ Len(vocab) \in Nat
  <2>1. bbpe.target \in Nat /\ bbpe.target <= MaxVocab /\ MaxVocab \in Nat
    BY <1>2, TrainerAssumption DEF ShareInv
  <2>2. Len(fbMerges) \in Nat /\ Len(vocab) \in Nat
    BY <1>2 DEF ByteInv, Sound, WordsInv
  <2> QED BY <1>1, <2>1, <2>2 DEF ResumeTarget
<1>4. Inv' /\ UnitsInv' /\ ready' = TRUE /\ adds' = adds /\ vocab' = vocab
      /\ call' = [op |-> "train", target |-> ResumeTarget]
  BY <1>1, <1>2, <1>3, BuildStep, UnitsBuilt DEF TrainUntil
<1>5. ByteInv' /\ fbMerges' = fbMerges
  BY <1>1, <1>2, BytesStay DEF byteTrainer
<1>6. bbpe'.stage = "resume" /\ bbpe'.target = bbpe.target /\ bbpe'.cap = bbpe.cap
  BY <1>1, <1>2 DEF ShareInv
<1>7. ResumeTarget' = ResumeTarget
  BY <1>5, <1>6 DEF ResumeTarget
<1>8. TableInv'
  BY <1>2, <1>4, <1>6 DEF TableInv
<1>10. ShareInv'
  <2>1. bbpe \in [stage : {"primary", "fallback", "resume"}, target : Targets, cap : Nat]
        /\ Len(fbMerges) <= bbpe.cap
    BY <1>2 DEF ShareInv
  <2>2. bbpe' \in [stage : {"primary", "fallback", "resume"}, target : Targets, cap : Nat]
    BY <1>1, <2>1
  <2> QED BY <1>5, <1>6, <2>1, <2>2 DEF ShareInv
<1>9. TargetInv'
  <2>1. Len(vocab') <= ResumeTarget /\ Len(vocab') < ResumeTarget
    BY <1>1, <1>3, <1>4
  <2> QED BY <1>4, <1>6, <1>7, <2>1 DEF TargetInv, Idle
<1> QED BY <1>5, <1>8, <1>9, <1>10 DEF OpenInv

\* Every step keeps the invariant of the calls.
LEMMA CallsStep == CallsInv /\ [FallbackNext]_allVars => CallsInv'
<1> SUFFICES ASSUME CallsInv, [FallbackNext]_allVars, training_state' = "open"
             PROVE  OpenInv'
  BY ClosedStep DEF CallsInv
<1>1. CASE Ordinary
  BY <1>1, OrdinaryStep
<1>2. ASSUME NEW target \in Targets, NEW share \in Shares,
             StartPrimary(target, share) \/ SkipPrimary(target, share)
      PROVE  OpenInv'
  BY <1>2, StartStep
<1>3. CASE Iterate
  BY <1>3, IterateStep DEF Iterate
<1>4. CASE TrainingFails \/ Compose
  BY <1>4 DEF TrainingFails, Compose
<1>5. CASE Freeze
  BY <1>5, FreezeStep DEF CallsInv, Freeze
<1>6. CASE FallbackLearns
  BY <1>6, BytesStep DEF CallsInv, FallbackLearns
<1>7. CASE Resume
  BY <1>7, ResumeStep DEF CallsInv, Resume
<1>8. CASE UNCHANGED allVars
  <2>1. /\ UNCHANGED vars /\ bbpe' = bbpe /\ UNCHANGED byteTrainer /\ training_state' = training_state
    BY <1>8 DEF allVars, fallbackVars
  <2>2. /\ words' = words /\ vocab' = vocab /\ call' = call /\ phase' = phase /\ frozen' = frozen
        /\ store' = store /\ ready' = ready /\ adds' = adds /\ fbMerges' = fbMerges
    BY <2>1 DEF vars, trainerVars, tableVars, byteTrainer
  <2>3. OpenInv
    BY <2>1 DEF CallsInv
  <2>4. TableInv'
    <3>1. Sound => Sound'
      BY <2>1, SoundStays
    <3>2. Inv => Inv'
      <4>1. SameWords /\ UNCHANGED <<merges, adds, ready, store, threshold, merge>>
            /\ UNCHANGED Store!storeVars
        BY <2>1 DEF vars, trainerVars, tableVars, Store!storeVars, SameWords
      <4>2. Inv => CallInv'
        BY <3>1 DEF Inv, Sound
      <4> QED BY <4>1, <4>2, QuietStep
    <3>3. UnitsInv => UnitsInv'
      BY <2>2 DEF UnitsInv, UnitKeys
    <3> QED BY <2>1, <2>2, <2>3, <3>1, <3>2, <3>3 DEF OpenInv, TableInv
  <2>5. ByteInv'
    BY <2>1, <2>3, BytesStay DEF OpenInv
  <2>6. ShareInv'
    BY <2>1, <2>2, <2>3 DEF OpenInv, ShareInv
  <2>7. TargetInv'
    <3>1. ResumeTarget' = ResumeTarget
      BY <2>1, <2>2 DEF ResumeTarget
    <3>2. NothingLeft => NothingLeft'
      BY <2>2, NothingLeftStays DEF SameWords
    <3>3. TargetInv
      BY <2>3 DEF OpenInv
    <3> QED BY <2>1, <2>2, <3>1, <3>2, <3>3 DEF TargetInv
  <2> QED BY <2>4, <2>5, <2>6, <2>7 DEF OpenInv
<1> QED
  BY <1>1, <1>2, <1>3, <1>4, <1>5, <1>6, <1>7, <1>8 DEF FallbackNext, FallbackLoop

\* The invariant of the calls holds in every reachable state.
THEOREM CallsInvariant == PositiveInventories => (FallbackSpec => []CallsInv)
<1> SUFFICES ASSUME PositiveInventories PROVE FallbackSpec => []CallsInv
  OBVIOUS
<1>1. FallbackInit => CallsInv
  BY CallsInit
<1>2. CallsInv /\ [FallbackNext]_allVars => CallsInv'
  BY CallsStep
<1> QED BY <1>1, <1>2, PTL DEF FallbackSpec

-----------------------------------------------------------------------------
(* What it says about the code. *)

\* Whatever was frozen and learned by the fallback, ordinary training learns the
\* best event the words offer without the frozen scalars, and nothing else.
THEOREM BestIsLearned == PositiveInventories => (FallbackSpec => LearnsTheBestLeft)
<1> SUFFICES ASSUME PositiveInventories PROVE FallbackSpec => LearnsTheBestLeft
  OBVIOUS
<1>1. CallsInv /\ [FallbackNext]_allVars =>
        [call # Idle /\ vocab' # vocab => Abs!Learn]_allVars
  <2> SUFFICES ASSUME CallsInv, [FallbackNext]_allVars, call # Idle, vocab' # vocab
               PROVE  Abs!Learn
    OBVIOUS
  <2>1. training_state = "open" /\ OpenInv
    BY DEF CallsInv, ClosedInv
  <2>2. Inv
    BY <2>1 DEF OpenInv, TableInv
  <2>3. CASE LearnUnit
    BY <2>2, <2>3, LearnUnitIsLearn
  <2>4. CASE LearnPair
    BY <2>2, <2>4, LearnPairIsLearn
  <2>5. CASE Iterate
    BY <2>3, <2>4, <2>5 DEF Iterate, TrainNext, TrainReached, PopStale, Select, Refill, Exhausted,
       StopAtCutoff, trainerVars
  <2>6. ~Ordinary
    BY DEF Ordinary, TrainingCall, InitTraining, TrainUntil, Step
  <2>7. ~\E target \in Targets, share \in Shares :
           StartPrimary(target, share) \/ SkipPrimary(target, share)
    BY DEF StartPrimary, SkipPrimary, InitTraining, TrainUntil
  <2>8. ~(TrainingFails \/ Freeze \/ FallbackLearns \/ Resume \/ Compose)
    BY DEF TrainingFails, Exhausted, Freeze, FallbackLearns, Resume, TrainUntil, Compose,
       ReadyToCompose, vars, trainerVars
  <2>9. ~UNCHANGED allVars
    BY DEF allVars, vars, trainerVars
  <2> QED BY <2>5, <2>6, <2>7, <2>8, <2>9 DEF FallbackNext, FallbackLoop
<1>2. FallbackSpec => []CallsInv
  BY CallsInvariant
<1> QED BY <1>1, <1>2, PTL DEF FallbackSpec, LearnsTheBestLeft

\* What the fallback call is asked for it delivers, unless the cutoff keeps it
\* from it: the places the byte trainer did not need are not lost.
THEOREM TargetIsFilled == PositiveInventories => (FallbackSpec => FillsTarget)
<1> SUFFICES ASSUME PositiveInventories PROVE FallbackSpec => FillsTarget
  OBVIOUS
<1> DEFINE Filled ==
         training_state = "open" /\ training_state' = "finalized" =>
           \/ Len(vocab') = bbpe.target
           \/ /\ Len(vocab') < bbpe.target
              /\ \A e \in Abs!Events : e.freq < CutoffFreq
<1>1. CallsInv /\ [FallbackNext]_allVars => [Filled]_allVars
  <2> SUFFICES ASSUME CallsInv, [FallbackNext]_allVars, training_state = "open",
                      training_state' = "finalized"
               PROVE  \/ Len(vocab') = bbpe.target
                      \/ /\ Len(vocab') < bbpe.target
                         /\ \A e \in Abs!Events : e.freq < CutoffFreq
    OBVIOUS
  <2>1. OpenInv
    BY DEF CallsInv
  <2>2. Compose
    BY DEF FallbackNext, FallbackLoop, Ordinary, StartPrimary, SkipPrimary, Iterate, TrainingFails,
       Freeze, FallbackLearns, Resume, fallbackVars, allVars
  <2>3. ReadyToCompose /\ vocab' = ComposedVocab /\ call = Idle
    BY <2>2 DEF Compose, ReadyToCompose
  <2>4. bbpe # NoFallback
    BY <2>3 DEF ReadyToCompose, FallbackDone, NoFallback
  <2>5. ByteInv /\ ShareInv /\ TargetInv /\ Sound
    BY <2>1 DEF OpenInv, TableInv, Inv
  <2>6. /\ Len(vocab) \in Nat /\ Len(fbMerges) \in Nat /\ vocab \in Seq(Seq(Int))
        /\ DOMAIN fbMerges = 1..Len(fbMerges)
        /\ bbpe.target \in Nat /\ bbpe.cap \in Nat /\ Len(fbMerges) <= bbpe.cap
    BY <2>4, <2>5, TrainerAssumption DEF Sound, WordsInv, ByteInv, ShareInv
  <2>7. Len(ComposedVocab) = Len(vocab) + Len(fbMerges)
    <3> DEFINE g(k) == FromBytes(fbVocab[fbMerges[k].target])
               s == [k \in DOMAIN fbMerges |-> g(k)]
    <3>1. FallbackContents = s \o << >>
      BY DEF FallbackContents
    <3> HIDE DEF g
    <3>2. s \in Seq({g(k) : k \in DOMAIN fbMerges}) /\ Len(s) = Len(fbMerges)
      BY <2>6
    <3> DEFINE G == {g(k) : k \in DOMAIN fbMerges}
    <3> HIDE DEF s, G
    <3>3. s \in Seq(G)
      BY <3>2 DEF G
    <3>4. FallbackContents \in Seq(G) /\ Len(FallbackContents) = Len(fbMerges)
      BY <3>1, <3>2, <3>3
    <3> DEFINE all == Seq(Int) \cup G
    <3>5. vocab \in Seq(all) /\ FallbackContents \in Seq(all)
      BY <2>6, <3>4
    <3> HIDE DEF all
    <3>6. Len(vocab \o FallbackContents) = Len(vocab) + Len(FallbackContents)
      BY <3>5
    <3> QED BY <3>4, <3>6 DEF ComposedVocab
  <2>8. CASE bbpe.stage = "resume"
    <3>1. Len(vocab) <= ResumeTarget /\ (Len(vocab) = ResumeTarget \/ NothingLeft)
      BY <2>3, <2>5, <2>8 DEF TargetInv
    <3>2. NothingLeft => \A e \in Abs!Events : e.freq < CutoffFreq
      <4> SUFFICES ASSUME NothingLeft, NEW e \in Abs!Events PROVE e.freq < CutoffFreq
        OBVIOUS
      <4>1. PICK k \in PairKeys \cup UnitKeys : e = EventOf(k)
        BY <2>5, EventsOfKeys DEF Sound
      <4> QED BY <4>1 DEF NothingLeft, EventOf
    <3>3. Len(vocab') = Len(vocab) + Len(fbMerges)
      BY <2>3, <2>7
    <3>4. CASE Len(vocab) = ResumeTarget
      <4>1. Len(vocab') = bbpe.target
        BY <2>6, <3>3, <3>4 DEF ResumeTarget
      <4> QED BY <4>1
    <3>5. CASE Len(vocab) # ResumeTarget
      <4>1. Len(vocab') < bbpe.target
        BY <2>6, <3>1, <3>3, <3>5 DEF ResumeTarget
      <4> QED BY <3>1, <3>2, <3>5, <4>1
    <3> QED BY <3>4, <3>5
  <2>9. CASE FallbackDone /\ ResumeTarget <= Len(vocab)
    <3>1. Len(vocab) <= bbpe.target - bbpe.cap
      BY <2>5, <2>9 DEF FallbackDone, TargetInv
    <3>2. bbpe.target - Len(fbMerges) <= Len(vocab)
      BY <2>9 DEF ResumeTarget
    <3>3. Len(vocab') = Len(vocab) + Len(fbMerges)
      BY <2>3, <2>7
    <3>4. \A v, n, target, cap \in Nat :
            v <= target - cap /\ target - n <= v /\ n <= cap => v + n = target
      OBVIOUS
    <3>5. Len(vocab) + Len(fbMerges) = bbpe.target
      BY <2>6, <3>1, <3>2, <3>4
    <3> QED BY <3>3, <3>5
  <2> QED BY <2>3, <2>8, <2>9 DEF ReadyToCompose
<1>2. FallbackSpec => []CallsInv
  BY CallsInvariant
<1>3. FallbackSpec => [][Filled]_allVars
  BY <1>1, <1>2, PTL DEF FallbackSpec
<1> QED BY <1>3 DEF FillsTarget

-----------------------------------------------------------------------------
(* Two lists of merges become one. *)

\* R has what is in p from i on and in f from j on, in the order of each.
Shuffled(R, p, i, f, j) ==
  \E a \in [i..Len(p) -> DOMAIN R], b \in [j..Len(f) -> DOMAIN R] :
    /\ \A x, y \in i..Len(p) : x < y => a[x] < a[y]
    /\ \A x, y \in j..Len(f) : x < y => b[x] < b[y]
    /\ \A x \in i..Len(p) : R[a[x]] = p[x]
    /\ \A y \in j..Len(f) : R[b[y]] = f[y]
    /\ \A n \in DOMAIN R : \/ \E x \in i..Len(p) : n = a[x]
                           \/ \E y \in j..Len(f) : n = b[y]

\* From the most frequent to the rarest.
Descends(s) == \A n, m \in DOMAIN s : n < m => s[n].freq >= s[m].freq

Cells(p, f) == (1..Len(p) + 1) \X (1..Len(f) + 1)

\* How much of both lists is left at a cell.
Rest(p, f, c) == (Len(p) + 1 - c[1]) + (Len(f) + 1 - c[2])

\* What Composed writes from a cell on, if g is what it writes from later ones.
ComposedAt(p, f, g, c) ==
  IF c[2] > Len(f) THEN SubSeq(p, c[1], Len(p))
  ELSE IF c[1] > Len(p) THEN SubSeq(f, c[2], Len(f))
  ELSE IF p[c[1]].freq >= f[c[2]].freq THEN <<p[c[1]]>> \o g[<<c[1] + 1, c[2]>>]
  ELSE <<f[c[2]]>> \o g[<<c[1], c[2] + 1>>]

\* A later cell has less left.
LEMMA CellsLeft ==
  ASSUME NEW p, NEW f, Len(p) \in Nat, Len(f) \in Nat, NEW c \in Cells(p, f)
  PROVE  /\ Rest(p, f, c) \in Nat /\ Rest(p, f, c) <= Len(p) + Len(f)
         /\ c[1] \in 1..Len(p) + 1 /\ c[2] \in 1..Len(f) + 1 /\ c = <<c[1], c[2]>>
         /\ c[2] <= Len(f) /\ c[1] <= Len(p) =>
              /\ <<c[1] + 1, c[2]>> \in Cells(p, f) /\ <<c[1], c[2] + 1>> \in Cells(p, f)
              /\ Rest(p, f, <<c[1] + 1, c[2]>>) = Rest(p, f, c) - 1
              /\ Rest(p, f, <<c[1], c[2] + 1>>) = Rest(p, f, c) - 1
<1>1. PICK i \in 1..Len(p) + 1, j \in 1..Len(f) + 1 : c = <<i, j>>
  BY DEF Cells
<1>2. /\ Rest(p, f, c) \in Nat /\ Rest(p, f, c) <= Len(p) + Len(f)
      /\ c[1] = i /\ c[2] = j
  BY <1>1 DEF Rest
<1>3. ASSUME j <= Len(f), i <= Len(p)
      PROVE  /\ <<i + 1, j>> \in Cells(p, f) /\ <<i, j + 1>> \in Cells(p, f)
             /\ Rest(p, f, <<i + 1, j>>) = Rest(p, f, c) - 1
             /\ Rest(p, f, <<i, j + 1>>) = Rest(p, f, c) - 1
  BY <1>1, <1>3 DEF Cells, Rest
<1> QED BY <1>1, <1>2, <1>3

\* The recursion of Composed has a function, from the end of both lists on.
LEMMA ComposedUnfold ==
  ASSUME NEW p, NEW f, Len(p) \in Nat, Len(f) \in Nat
  PROVE  \E g : /\ \A c \in Cells(p, f) : g[c] = ComposedAt(p, f, g, c)
                /\ Composed(p, f) = g[<<1, 1>>]
<1> DEFINE C == Cells(p, f)
           Is(g, n) == \A c \in C : Rest(p, f, c) <= n => g[c] = ComposedAt(p, f, g, c)
           S == {n \in Nat : \E g : Is(g, n)}
<1>1. ASSUME NEW g, NEW h, NEW c \in C,
             \A d \in C : Rest(p, f, d) < Rest(p, f, c) => h[d] = g[d]
      PROVE  ComposedAt(p, f, g, c) = ComposedAt(p, f, h, c)
  <2>1. CASE c[2] <= Len(f) /\ c[1] <= Len(p)
    <3>1. /\ <<c[1] + 1, c[2]>> \in C /\ <<c[1], c[2] + 1>> \in C
          /\ Rest(p, f, <<c[1] + 1, c[2]>>) < Rest(p, f, c)
          /\ Rest(p, f, <<c[1], c[2] + 1>>) < Rest(p, f, c)
      <4>0. Rest(p, f, c) \in Nat
        BY CellsLeft
      <4>1. Rest(p, f, c) - 1 < Rest(p, f, c)
        BY <4>0
      <4> QED BY <2>1, <4>1, CellsLeft
    <3> HIDE DEF C
    <3>2. h[<<c[1] + 1, c[2]>>] = g[<<c[1] + 1, c[2]>>] /\ h[<<c[1], c[2] + 1>>] = g[<<c[1], c[2] + 1>>]
      BY <1>1, <3>1
    <3> QED BY <3>2 DEF ComposedAt
  <2>2. CASE ~(c[2] <= Len(f) /\ c[1] <= Len(p))
    <3>1. c[2] > Len(f) \/ c[1] > Len(p)
      <4>0. c[1] \in 1..Len(p) + 1 /\ c[2] \in 1..Len(f) + 1
        BY CellsLeft
      <4>1. c[1] \in Int /\ c[2] \in Int
        BY <4>0
      <4> QED BY <2>2, <4>1
    <3> QED BY <3>1 DEF ComposedAt
  <2> QED BY <2>1, <2>2
<1>2. ASSUME NEW n \in Nat, NEW g,
             \A c \in C : Rest(p, f, c) < n => g[c] = ComposedAt(p, f, g, c)
      PROVE  \E h : Is(h, n)
  <2> DEFINE h == [c \in C |-> IF Rest(p, f, c) < n THEN g[c] ELSE ComposedAt(p, f, g, c)]
  <2>1. ASSUME NEW c \in C, Rest(p, f, c) <= n
        PROVE  h[c] = ComposedAt(p, f, h, c)
    <3>1. \A d \in C : Rest(p, f, d) < Rest(p, f, c) => h[d] = g[d]
      <4> SUFFICES ASSUME NEW d \in C, Rest(p, f, d) < Rest(p, f, c) PROVE h[d] = g[d]
        OBVIOUS
      <4>1. Rest(p, f, d) \in Nat /\ Rest(p, f, c) \in Nat
        BY CellsLeft
      <4>2. Rest(p, f, d) < n
        BY <2>1, <4>1
      <4> HIDE DEF C
      <4> QED BY <4>2
    <3> HIDE DEF h
    <3>2. ComposedAt(p, f, g, c) = ComposedAt(p, f, h, c)
      BY <1>1, <3>1
    <3>3. h[c] = IF Rest(p, f, c) < n THEN g[c] ELSE ComposedAt(p, f, g, c)
      BY DEF h
    <3> QED BY <1>2, <3>2, <3>3
  <2> HIDE DEF h
  <2> QED BY <2>1
<1>3. 0 \in S
  <2>1. \A c \in C : ~(Rest(p, f, c) < 0)
    <3> TAKE c \in C
    <3>1. Rest(p, f, c) \in Nat
      BY CellsLeft
    <3> QED BY <3>1
  <2>2. \E h : Is(h, 0)
    <3> HIDE DEF Is, C
    <3> QED BY <1>2, <2>1
  <2> QED BY <2>2
<1>4. ASSUME NEW n \in S PROVE n + 1 \in S
  <2>1. PICK g : Is(g, n)
    OBVIOUS
  <2>2. \A c \in C : Rest(p, f, c) < n + 1 => g[c] = ComposedAt(p, f, g, c)
    <3> SUFFICES ASSUME NEW c \in C, Rest(p, f, c) < n + 1
                 PROVE  g[c] = ComposedAt(p, f, g, c)
      OBVIOUS
    <3>1. Rest(p, f, c) \in Nat
      BY CellsLeft
    <3>2. Rest(p, f, c) <= n
      BY <3>1
    <3> HIDE DEF C
    <3> QED BY <2>1, <3>2
  <2>3. \E h : Is(h, n + 1)
    <3> HIDE DEF Is, C
    <3> QED BY <1>2, <2>2
  <2> HIDE DEF Is
  <2> QED BY <2>3
<1>5. S = Nat
  <2>1. S \in SUBSET Nat
    OBVIOUS
  <2> HIDE DEF S
  <2> QED BY <1>3, <1>4, <2>1, NatInd
<1>6. PICK g : Is(g, Len(p) + Len(f))
  <2>1. Len(p) + Len(f) \in S
    <3> HIDE DEF S
    <3> QED BY <1>5
  <2> HIDE DEF Is
  <2> QED BY <2>1
<1>7. \A c \in C : g[c] = ComposedAt(p, f, g, c)
  <2>1. \A c \in C : Rest(p, f, c) <= Len(p) + Len(f)
    BY CellsLeft
  <2> QED BY <1>6, <2>1
<1> DEFINE G(h) == [c \in C |-> ComposedAt(p, f, h, c)]
           from == CHOOSE h : h = G(h)
<1>8. Composed(p, f) = from[<<1, 1>>]
  BY Zenon DEF Composed, ComposedAt, Cells
<1>9. \E h : h = G(h)
  <2> DEFINE h == [c \in C |-> g[c]]
  <2>1. \A c \in C : h[c] = ComposedAt(p, f, h, c)
    <3> TAKE c \in C
    <3>1. \A d \in C : h[d] = g[d]
      OBVIOUS
    <3> HIDE DEF h
    <3>2. ComposedAt(p, f, g, c) = ComposedAt(p, f, h, c)
      BY <1>1, <3>1
    <3> QED BY <1>7, <3>1, <3>2
  <2>2. h = [c \in C |-> h[c]]
    OBVIOUS
  <2> HIDE DEF h, C
  <2>3. h = G(h)
    BY <2>1, <2>2, Zenon
  <2> QED BY <2>3
<1>10. from = G(from)
  <2> HIDE DEF G
  <2> QED BY <1>9
<1> HIDE DEF from, C
<1>11. \A c \in C : from[c] = ComposedAt(p, f, from, c)
  BY <1>10, Zenon
<1> QED BY <1>8, <1>11 DEF C

\* The order of the two lists does not matter to what is kept.
LEMMA ShuffledSwaps ==
  ASSUME NEW R, NEW p, NEW i, NEW f, NEW j, Shuffled(R, f, j, p, i)
  PROVE  Shuffled(R, p, i, f, j)
BY DEF Shuffled

\* The rest of one list is what is left if nothing of the other is.
LEMMA ShuffledRest ==
  ASSUME NEW M, NEW p \in Seq(M), NEW i \in 1..Len(p) + 1, NEW f \in Seq(M), Descends(p)
  PROVE  LET R == SubSeq(p, i, Len(p))
         IN R \in Seq(M) /\ Shuffled(R, p, i, f, Len(f) + 1) /\ Descends(R)
<1> DEFINE R == SubSeq(p, i, Len(p))
           a == [x \in i..Len(p) |-> x - i + 1]
           b == [y \in Len(f) + 1..Len(f) |-> 1]
<1>1. /\ R \in Seq(M) /\ DOMAIN R = 1..Len(p) + 1 - i
      /\ \A n \in 1..Len(p) + 1 - i : R[n] = p[n + i - 1]
  OBVIOUS
<1>2. Len(p) \in Nat /\ Len(f) \in Nat /\ DOMAIN p = 1..Len(p)
  OBVIOUS
<1> HIDE DEF R
<1>3. a \in [i..Len(p) -> DOMAIN R] /\ \A x \in i..Len(p) : a[x] = x - i + 1
  BY <1>1, <1>2
<1>4. Len(f) + 1..Len(f) = {}
  BY <1>2
<1>5. b \in [Len(f) + 1..Len(f) -> DOMAIN R]
  BY <1>4
<1> HIDE DEF a, b
<1>6. \A x, y \in i..Len(p) : x < y => a[x] < a[y]
  BY <1>2, <1>3
<1>7. \A x \in i..Len(p) : R[a[x]] = p[x]
  <2> TAKE x \in i..Len(p)
  <2>1. x - i + 1 \in 1..Len(p) + 1 - i /\ (x - i + 1) + i - 1 = x
    BY <1>2
  <2> QED BY <1>1, <1>3, <2>1
<1>8. \A n \in DOMAIN R : \E x \in i..Len(p) : n = a[x]
  <2> TAKE n \in DOMAIN R
  <2>1. n + i - 1 \in i..Len(p) /\ (n + i - 1) - i + 1 = n
    BY <1>1, <1>2
  <2> QED BY <1>3, <2>1
<1>9. Shuffled(R, p, i, f, Len(f) + 1)
  BY <1>3, <1>4, <1>5, <1>6, <1>7, <1>8 DEF Shuffled
<1>10. Descends(R)
  <2> SUFFICES ASSUME NEW n \in DOMAIN R, NEW m \in DOMAIN R, n < m
               PROVE  R[n].freq >= R[m].freq
    BY DEF Descends
  <2>1. n + i - 1 \in DOMAIN p /\ m + i - 1 \in DOMAIN p /\ n + i - 1 < m + i - 1
    BY <1>1, <1>2
  <2> QED BY <1>1, <2>1 DEF Descends
<1> QED BY <1>1, <1>9, <1>10 DEF R

\* The next of one list is put in front.
LEMMA ShuffledCons ==
  ASSUME NEW M, NEW p \in Seq(M), NEW i \in 1..Len(p), NEW f \in Seq(M),
         NEW j \in 1..Len(f) + 1, NEW R \in Seq(M), Shuffled(R, p, i + 1, f, j)
  PROVE  <<p[i]>> \o R \in Seq(M) /\ Shuffled(<<p[i]>> \o R, p, i, f, j)
<1> DEFINE Q == <<p[i]>> \o R
<1>1. Len(p) \in Nat /\ Len(f) \in Nat /\ DOMAIN p = 1..Len(p) /\ p[i] \in M
  OBVIOUS
<1>2. /\ Q \in Seq(M) /\ DOMAIN R = 1..Len(R) /\ Len(R) \in Nat /\ DOMAIN Q = 1..Len(R) + 1
      /\ Q[1] = p[i] /\ \A n \in 1..Len(R) : Q[n + 1] = R[n]
  BY <1>1
<1>3. PICK a \in [i + 1..Len(p) -> DOMAIN R], b \in [j..Len(f) -> DOMAIN R] :
        /\ \A x, y \in i + 1..Len(p) : x < y => a[x] < a[y]
        /\ \A x, y \in j..Len(f) : x < y => b[x] < b[y]
        /\ \A x \in i + 1..Len(p) : R[a[x]] = p[x]
        /\ \A y \in j..Len(f) : R[b[y]] = f[y]
        /\ \A n \in DOMAIN R : \/ \E x \in i + 1..Len(p) : n = a[x]
                               \/ \E y \in j..Len(f) : n = b[y]
  BY DEF Shuffled
<1> HIDE DEF Q
<1> DEFINE c == [x \in i..Len(p) |-> IF x = i THEN 1 ELSE a[x] + 1]
           d == [y \in j..Len(f) |-> b[y] + 1]
<1>4. \A x \in i..Len(p) : x # i => x \in i + 1..Len(p)
  BY <1>1
<1>5. /\ \A x \in i + 1..Len(p) : a[x] \in 1..Len(R) /\ a[x] \in Int
      /\ \A y \in j..Len(f) : b[y] \in 1..Len(R) /\ b[y] \in Int
  <2>1. \A x \in i + 1..Len(p) : a[x] \in 1..Len(R)
    BY <1>2
  <2>2. \A y \in j..Len(f) : b[y] \in 1..Len(R)
    BY <1>2
  <2> QED BY <1>2, <2>1, <2>2
<1>6. c \in [i..Len(p) -> DOMAIN Q] /\ d \in [j..Len(f) -> DOMAIN Q]
  BY <1>2, <1>4, <1>5
<1>7. i \in i..Len(p) /\ c[i] = 1 /\ \A x \in i + 1..Len(p) : x \in i..Len(p) /\ c[x] = a[x] + 1
  BY <1>1
<1>8. \A y \in j..Len(f) : d[y] = b[y] + 1
  OBVIOUS
<1> HIDE DEF c, d
<1>9. \A x, y \in i..Len(p) : x < y => c[x] < c[y]
  <2> SUFFICES ASSUME NEW x \in i..Len(p), NEW y \in i..Len(p), x < y PROVE c[x] < c[y]
    OBVIOUS
  <2>1. y \in i + 1..Len(p) /\ c[y] = a[y] + 1 /\ a[y] \in 1..Len(R)
    BY <1>1, <1>4, <1>5, <1>7
  <2>2. CASE x = i
    BY <1>2, <1>7, <2>1, <2>2
  <2>3. CASE x # i
    <3>1. x \in i + 1..Len(p) /\ c[x] = a[x] + 1 /\ a[x] < a[y] /\ a[x] \in Int
      BY <1>3, <1>4, <1>5, <1>7, <2>1, <2>3
    <3> QED BY <2>1, <3>1
  <2> QED BY <2>2, <2>3
<1>10. \A x, y \in j..Len(f) : x < y => d[x] < d[y]
  BY <1>3, <1>5, <1>8
<1>11. \A x \in i..Len(p) : Q[c[x]] = p[x]
  BY <1>2, <1>3, <1>4, <1>5, <1>7
<1>12. \A y \in j..Len(f) : Q[d[y]] = f[y]
  BY <1>2, <1>3, <1>5, <1>8
<1>13. \A n \in DOMAIN Q : \/ \E x \in i..Len(p) : n = c[x]
                          \/ \E y \in j..Len(f) : n = d[y]
  <2> TAKE n \in DOMAIN Q
  <2>1. CASE n = 1
    BY <1>7, <2>1
  <2>2. CASE n # 1
    <3>1. n - 1 \in DOMAIN R /\ (n - 1) + 1 = n
      BY <1>2, <2>2
    <3>2. CASE \E x \in i + 1..Len(p) : n - 1 = a[x]
      BY <1>7, <3>1, <3>2
    <3>3. CASE \E y \in j..Len(f) : n - 1 = b[y]
      BY <1>8, <3>1, <3>3
    <3> QED BY <1>3, <3>1, <3>2, <3>3
  <2> QED BY <2>1, <2>2
<1>14. Shuffled(Q, p, i, f, j)
  BY <1>6, <1>9, <1>10, <1>11, <1>12, <1>13 DEF Shuffled
<1> QED BY <1>2, <1>14 DEF Q

\* What is put in front is not rarer than what follows.
LEMMA DescendsCons ==
  ASSUME NEW M, \A m \in M : m.freq \in Int, NEW p \in Seq(M), NEW i \in 1..Len(p),
         NEW f \in Seq(M), NEW j \in 1..Len(f) + 1, NEW R \in Seq(M),
         Shuffled(R, p, i + 1, f, j), Descends(p), Descends(f), Descends(R),
         j <= Len(f) => p[i].freq >= f[j].freq
  PROVE  Descends(<<p[i]>> \o R)
<1> DEFINE Q == <<p[i]>> \o R
<1>1. Len(p) \in Nat /\ Len(f) \in Nat /\ DOMAIN p = 1..Len(p) /\ DOMAIN f = 1..Len(f) /\ p[i] \in M
  OBVIOUS
<1>2. /\ DOMAIN R = 1..Len(R) /\ Len(R) \in Nat /\ DOMAIN Q = 1..Len(R) + 1
      /\ Q[1] = p[i] /\ \A n \in 1..Len(R) : Q[n + 1] = R[n]
  BY <1>1
<1>3. ASSUME NEW n \in DOMAIN R PROVE p[i].freq >= R[n].freq
  <2>1. CASE \E x \in i + 1..Len(p) : R[n] = p[x]
    <3>1. PICK x \in i + 1..Len(p) : R[n] = p[x]
      BY <2>1
    <3>2. x \in DOMAIN p /\ i \in DOMAIN p /\ i < x
      BY <1>1
    <3> QED BY <3>1, <3>2 DEF Descends
  <2>2. CASE \E y \in j..Len(f) : R[n] = f[y]
    <3>1. PICK y \in j..Len(f) : R[n] = f[y]
      BY <2>2
    <3>2. y \in DOMAIN f /\ j \in DOMAIN f /\ j <= Len(f) /\ (j = y \/ j < y)
      BY <1>1
    <3>3. f[j].freq >= f[y].freq /\ p[i].freq >= f[j].freq
      <4>1. f[j].freq \in Int
        BY <3>2
      <4> QED BY <3>2, <4>1 DEF Descends
    <3>4. f[j].freq \in Int /\ f[y].freq \in Int /\ p[i].freq \in Int
      BY <1>1, <3>2
    <3> QED BY <3>1, <3>3, <3>4
  <2>3. \/ \E x \in i + 1..Len(p) : R[n] = p[x]
        \/ \E y \in j..Len(f) : R[n] = f[y]
    BY Zenon DEF Shuffled
  <2> QED BY <2>1, <2>2, <2>3
<1> HIDE DEF Q
<1>4. Descends(Q)
  <2> SUFFICES ASSUME NEW n \in DOMAIN Q, NEW m \in DOMAIN Q, n < m
               PROVE  Q[n].freq >= Q[m].freq
    BY DEF Descends
  <2>1. m - 1 \in DOMAIN R /\ Q[m] = R[m - 1]
    <3>1. m - 1 \in 1..Len(R) /\ (m - 1) + 1 = m
      BY <1>2
    <3> QED BY <1>2, <3>1
  <2>2. CASE n = 1
    BY <1>2, <1>3, <2>1, <2>2
  <2>3. CASE n # 1
    <3>1. n - 1 \in 1..Len(R) /\ (n - 1) + 1 = n /\ n - 1 < m - 1
      BY <1>2, <2>3
    <3> QED BY <1>2, <2>1, <3>1 DEF Descends
  <2> QED BY <2>2, <2>3
<1> QED BY <1>4 DEF Q

\* Composing keeps every merge of both lists and the order of each, and what
\* was ordered by frequency still is.
LEMMA ComposedShuffles ==
  ASSUME NEW M, \A m \in M : m.freq \in Int, NEW p \in Seq(M), NEW f \in Seq(M),
         Descends(p), Descends(f)
  PROVE  LET R == Composed(p, f)
         IN R \in Seq(M) /\ Shuffled(R, p, 1, f, 1) /\ Descends(R)
<1>1. Len(p) \in Nat /\ Len(f) \in Nat
  OBVIOUS
<1>2. PICK g : /\ \A c \in Cells(p, f) : g[c] = ComposedAt(p, f, g, c)
               /\ Composed(p, f) = g[<<1, 1>>]
  BY <1>1, ComposedUnfold
<1> DEFINE Good(c) == g[c] \in Seq(M) /\ Shuffled(g[c], p, c[1], f, c[2]) /\ Descends(g[c])
           S == {n \in Nat : \A c \in Cells(p, f) : Rest(p, f, c) <= n => Good(c)}
<1>3. ASSUME NEW c \in Cells(p, f),
             \A d \in Cells(p, f) : Rest(p, f, d) = Rest(p, f, c) - 1 => Good(d)
      PROVE  Good(c)
  <2> DEFINE i == c[1]
             j == c[2]
  <2>1. i \in 1..Len(p) + 1 /\ j \in 1..Len(f) + 1
    BY <1>1, CellsLeft
  <2>2. g[c] = ComposedAt(p, f, g, c)
    BY <1>2
  <2> HIDE DEF Good
  <2>3. j <= Len(f) /\ i <= Len(p) => Good(<<i + 1, j>>) /\ Good(<<i, j + 1>>)
    BY <1>1, <1>3, CellsLeft
  <2> USE DEF Good
  <2>4. CASE j > Len(f)
    <3>1. j = Len(f) + 1
      BY <1>1, <2>1, <2>4
    <3>2. g[c] = SubSeq(p, i, Len(p))
      BY <2>2, <2>4 DEF ComposedAt
    <3> HIDE DEF i, j
    <3>3. g[c] \in Seq(M) /\ Shuffled(g[c], p, i, f, j) /\ Descends(g[c])
      BY <2>1, <3>1, <3>2, ShuffledRest
    <3> QED BY <3>3 DEF i, j
  <2>5. CASE ~(j > Len(f)) /\ i > Len(p)
    <3>1. i = Len(p) + 1
      BY <1>1, <2>1, <2>5
    <3>2. g[c] = SubSeq(f, j, Len(f))
      BY <2>2, <2>5 DEF ComposedAt
    <3> HIDE DEF i, j
    <3>3. g[c] \in Seq(M) /\ Shuffled(g[c], f, j, p, i) /\ Descends(g[c])
      BY <2>1, <3>1, <3>2, ShuffledRest
    <3> QED BY <3>3, ShuffledSwaps DEF i, j
  <2>6. CASE ~(j > Len(f)) /\ ~(i > Len(p)) /\ p[i].freq >= f[j].freq
    <3> DEFINE R == g[<<i + 1, j>>]
    <3>1. i \in 1..Len(p) /\ j \in 1..Len(f) /\ j <= Len(f) /\ i <= Len(p)
      BY <1>1, <2>1, <2>6
    <3>2. g[c] = <<p[i]>> \o R
      BY <2>2, <2>6 DEF ComposedAt
    <3>3. R \in Seq(M) /\ Shuffled(R, p, i + 1, f, j) /\ Descends(R)
      BY <2>3, <3>1
    <3> HIDE DEF i, j, R
    <3>4. g[c] \in Seq(M) /\ Shuffled(g[c], p, i, f, j)
      BY <2>1, <3>1, <3>2, <3>3, ShuffledCons
    <3>5. Descends(g[c])
      BY <2>1, <2>6, <3>1, <3>2, <3>3, DescendsCons
    <3> QED BY <3>4, <3>5 DEF i, j
  <2>7. CASE ~(j > Len(f)) /\ ~(i > Len(p)) /\ ~(p[i].freq >= f[j].freq)
    <3> DEFINE R == g[<<i, j + 1>>]
    <3>1. i \in 1..Len(p) /\ j \in 1..Len(f) /\ j <= Len(f) /\ i <= Len(p)
      BY <1>1, <2>1, <2>7
    <3>2. g[c] = <<f[j]>> \o R
      BY <2>2, <2>7 DEF ComposedAt
    <3>3. R \in Seq(M) /\ Shuffled(R, p, i, f, j + 1) /\ Descends(R)
      BY <2>3, <3>1
    <3> HIDE DEF i, j, R
    <3>4. Shuffled(R, f, j + 1, p, i)
      BY <3>3, ShuffledSwaps
    <3>5. g[c] \in Seq(M) /\ Shuffled(g[c], f, j, p, i)
      BY <2>1, <3>1, <3>2, <3>3, <3>4, ShuffledCons
    <3>6. f[j].freq >= p[i].freq
      <4>1. f[j] \in M /\ p[i] \in M
        BY <3>1
      <4>2. f[j].freq \in Int /\ p[i].freq \in Int
        BY <4>1
      <4> QED BY <2>7, <4>2
    <3>7. Descends(g[c])
      BY <2>1, <3>1, <3>2, <3>3, <3>4, <3>6, DescendsCons
    <3> QED BY <3>5, <3>7, ShuffledSwaps DEF i, j
  <2> QED BY <2>4, <2>5, <2>6, <2>7
<1>4. 0 \in S
  <2> SUFFICES ASSUME NEW c \in Cells(p, f), Rest(p, f, c) <= 0 PROVE Good(c)
    OBVIOUS
  <2> HIDE DEF Good
  <2>1. Rest(p, f, c) \in Nat
    BY <1>1, CellsLeft
  <2>2. \A d \in Cells(p, f) : Rest(p, f, d) # Rest(p, f, c) - 1
    <3> TAKE d \in Cells(p, f)
    <3>1. Rest(p, f, d) \in Nat
      BY <1>1, CellsLeft
    <3> QED BY <2>1, <3>1
  <2> QED BY <1>3, <2>2
<1>5. ASSUME NEW n \in S PROVE n + 1 \in S
  <2> SUFFICES ASSUME NEW c \in Cells(p, f), Rest(p, f, c) <= n + 1 PROVE Good(c)
    OBVIOUS
  <2>1. n \in Nat /\ \A d \in Cells(p, f) : Rest(p, f, d) <= n => Good(d)
    OBVIOUS
  <2> HIDE DEF Good, S
  <2>2. Rest(p, f, c) \in Nat
    BY <1>1, CellsLeft
  <2>3. \A d \in Cells(p, f) : Rest(p, f, d) = Rest(p, f, c) - 1 => Good(d)
    <3> SUFFICES ASSUME NEW d \in Cells(p, f), Rest(p, f, d) = Rest(p, f, c) - 1 PROVE Good(d)
      OBVIOUS
    <3>1. Rest(p, f, d) <= n
      BY <2>1, <2>2
    <3> QED BY <2>1, <3>1
  <2> QED BY <1>3, <2>3
<1>6. S = Nat
  <2>1. S \in SUBSET Nat
    OBVIOUS
  <2> HIDE DEF S
  <2> QED BY <1>4, <1>5, <2>1, NatInd
<1>7. <<1, 1>> \in Cells(p, f)
  BY <1>1 DEF Cells
<1>8. Good(<<1, 1>>)
  <2>1. Rest(p, f, <<1, 1>>) \in Nat
    BY <1>1, <1>7, CellsLeft
  <2>2. Rest(p, f, <<1, 1>>) \in S
    <3> HIDE DEF S
    <3> QED BY <1>6, <2>1
  <2> HIDE DEF Good
  <2>3. \A c \in Cells(p, f) : Rest(p, f, c) <= Rest(p, f, <<1, 1>>) => Good(c)
    BY <2>2
  <2> HIDE DEF S
  <2> QED BY <1>7, <2>1, <2>3
<1> QED BY <1>2, <1>8

-----------------------------------------------------------------------------
(* Bytes and scalars. *)

\* What a chunk of bytes is read as.
ReadMap ==
  [chunk \in Seq(Int) |->
     IF \E u \in Scalar : Utf8[u] = chunk
     THEN <<CHOOSE u \in Scalar : Utf8[u] = chunk>> ELSE chunk]

\* Flat is the flattening of a sequence.
LEMMA FlatIs ==
  ASSUME NEW W, NEW ss \in Seq(W)
  PROVE  Flat(ss) = FlattenSeq(ss)
<1>1. ss \o << >> = ss
  BY ConcatEmptySeq
<1>2. {FlattenSeq(s) : s \in {ss \o << >>}} = {FlattenSeq(ss)}
  BY <1>1
<1> QED BY <1>2 DEF Flat

\* A scalar is an integer.
LEMMA Scalars == Scalar = Unit /\ Maps(ReadMap, Seq(Int), Int)
<1>1. Scalar = Unit /\ \A u \in Unit : u \in Int
  BY FallbackAssumption, TrainerAssumption DEF Scalar
<1>2. ASSUME NEW chunk \in Seq(Int) PROVE ReadMap[chunk] \in Seq(Int)
  <2>1. CASE \E u \in Scalar : Utf8[u] = chunk
    <3> DEFINE u == CHOOSE v \in Scalar : Utf8[v] = chunk
    <3>1. u \in Scalar
      BY <2>1
    <3>2. ReadMap[chunk] = <<u>>
      BY <2>1 DEF ReadMap
    <3> HIDE DEF u
    <3>3. u \in Int
      BY <1>1, <3>1
    <3> QED BY <3>2, <3>3
  <2>2. CASE ~\E u \in Scalar : Utf8[u] = chunk
    <3>1. ReadMap[chunk] = chunk
      BY <2>2 DEF ReadMap
    <3> QED BY <3>1
  <2> QED BY <2>1, <2>2
<1> QED BY <1>1, <1>2 DEF Maps

Chunks(b) == PiecesAt(b, InOrder(ChunkStarts(b)))

\* Bytes are read chunk by chunk.
LEMMA Reads ==
  ASSUME NEW b \in Seq(Int)
  PROVE  /\ Chunks(b) \in Seq(Seq(Int)) /\ FlattenSeq(Chunks(b)) = b
         /\ FromBytes(b) = Mapped(ReadMap, Chunks(b)) /\ FromBytes(b) \in Seq(Int)
<1> DEFINE starts == InOrder(ChunkStarts(b))
           p == Chunks(b)
           Whole(chunk) == \E u \in Scalar : Utf8[u] = chunk
           Read(chunk) == IF Whole(chunk) THEN <<CHOOSE u \in Scalar : Utf8[u] = chunk>> ELSE chunk
<1>1. ChunkStarts(b) \in SUBSET (1..Len(b)) /\ (b = << >> \/ 1 \in ChunkStarts(b))
  <2>1. DOMAIN b = 1..Len(b) /\ Len(b) \in Nat /\ (b # << >> => 1 \in 1..Len(b))
    OBVIOUS
  <2> QED BY <2>1 DEF ChunkStarts
<1>2. p \in Seq(Seq(Int)) /\ FlattenSeq(p) = b
  BY <1>1, CutsFlatten DEF Chunks
<1>3. FromBytes(b) = Flat([k \in DOMAIN starts |-> Read(p[k])])
  <2>1. \A k \in DOMAIN starts :
          p[k] = SubSeq(b, starts[k], IF k = Len(starts) THEN Len(b) ELSE starts[k + 1] - 1)
    BY DEF PiecesAt, Chunks
  <2> DEFINE Contents(v, cuts) ==
               Flat([k \in DOMAIN cuts |->
                       Read(SubSeq(v, cuts[k],
                                   IF k = Len(cuts) THEN Len(v) ELSE cuts[k + 1] - 1))])
  <2>2. FromBytes(b) = Contents(b, starts)
    <3> HIDE DEF Contents, starts
    <3>1. {Contents(v, InOrder(ChunkStarts(v))) : v \in {b}} = {Contents(b, starts)}
      BY DEF starts
    <3>2. FromBytes(b) = CHOOSE content \in {Contents(v, InOrder(ChunkStarts(v))) : v \in {b}} : TRUE
      BY Zenon DEF FromBytes, Contents, Read, Whole
    <3> QED BY <3>1, <3>2
  <2>3. [k \in DOMAIN starts |->
           Read(SubSeq(b, starts[k], IF k = Len(starts) THEN Len(b) ELSE starts[k + 1] - 1))]
          = [k \in DOMAIN starts |-> Read(p[k])]
    <3> HIDE DEF p, starts, Read
    <3> QED BY <2>1
  <2> QED BY <2>2, <2>3, Zenon
<1>4. DOMAIN p = DOMAIN starts
  BY DEF PiecesAt, Chunks
<1> HIDE DEF starts, p
<1>5. \A chunk \in Seq(Int) : ReadMap[chunk] = Read(chunk)
  BY DEF ReadMap
<1>7. FromBytes(b) = Mapped(ReadMap, p)
  <2>1. \A k \in DOMAIN p : p[k] \in Seq(Int)
    BY <1>2
  <2>2. [k \in DOMAIN starts |-> Read(p[k])] = Image(ReadMap, p)
    BY <1>4, <1>5, <2>1 DEF Image
  <2>3. Image(ReadMap, p) \in Seq(Seq(Int))
    <3>1. Into(ReadMap, Seq(Int), Seq(Int))
      BY Scalars DEF Maps, Into
    <3> QED BY <1>2, <3>1, ImageCat
  <2>4. Flat(Image(ReadMap, p)) = FlattenSeq(Image(ReadMap, p))
    BY <2>3, FlatIs
  <2> QED BY <1>3, <2>2, <2>4 DEF Mapped, Image
<1>9. FromBytes(b) \in Seq(Int)
  BY <1>2, <1>7, Scalars, MapCat
<1> QED BY <1>2, <1>7, <1>9 DEF p

-----------------------------------------------------------------------------
(* What the call makes, and what it composes. *)

\* What a call has learned so far is not below the cutoff, and a trainer that
\* has learned something is refused a call.
CutoffInv ==
  /\ lastEvent \in Int
  /\ merges # << >> => Len(vocab) > Len(BaseVocab)
  /\ bbpe # NoFallback =>
       /\ \A r \in DOMAIN merges : merges[r].freq >= CutoffFreq
       /\ \A k \in DOMAIN fbMerges : fbMerges[k].freq >= CutoffFreq

\* What is learned within a call reached the cutoff.
LEMMA IterateCutoff ==
  ASSUME CallsInv, training_state = "open", CutoffInv, Iterate
  PROVE  CutoffInv'
<1>1. Iteration /\ call # Idle /\ bbpe' = bbpe /\ fbMerges' = fbMerges
  BY IterationHasCall DEF Iterate, Iteration, CallsInv, byteTrainer
<1>2. OpenInv /\ Inv /\ WordsInv /\ MergesInv /\ CallInv
  <2>1. OpenInv
    BY DEF CallsInv
  <2>2. Inv
    BY <1>1, <2>1 DEF OpenInv, TableInv
  <2> QED BY <2>1, <2>2 DEF Inv, Sound
<1>3. Len(vocab) \in Nat /\ Len(BaseVocab) \in Nat /\ Len(BaseVocab) <= Len(vocab)
  BY <1>2, TrainerAssumption DEF WordsInv
<1>4. CASE vocab' = vocab /\ merges' = merges
  <2>1. lastEvent' = lastEvent
    BY <1>4 DEF Iterate
  <2> QED BY <1>1, <1>4, <2>1 DEF CutoffInv
<1>5. CASE LearnUnit
  <2>1. vocab' = Append(vocab, merge.content[2]) /\ merges' = merges /\ phase = "merge"
    BY <1>5 DEF LearnUnit, Table!ApplyUnit
  <2>2. Len(vocab') = Len(vocab) + 1
    <3> DEFINE t == merge.content[2]
    <3>1. merge.tp \in UnitKeys
      BY <1>5 DEF LearnUnit, Table!ApplyUnit, UnitKeys
    <3>2. merge.content = KeyContent(merge.tp)
      BY <1>2, <2>1, MergeFreq DEF Inv, Sound
    <3>3. t \in Seq(Int)
      BY <3>1, <3>2, TrainerAssumption DEF KeyContent, UnitKeys
    <3> HIDE DEF t
    <3>4. vocab' = Append(vocab, t)
      BY <2>1 DEF t
    <3> QED BY <1>2, <3>3, <3>4 DEF WordsInv
  <2>3. lastEvent' = merge.freq /\ merge.freq \in Int
    <3>1. vocab' # vocab
      BY <1>3, <2>2
    <3>2. merge.freq \in Int
      BY <1>2, <2>1, MergeFreq, KeyTypes DEF Inv, Sound
    <3> QED BY <3>1, <3>2 DEF Iterate
  <2> QED BY <1>1, <1>3, <2>1, <2>2, <2>3 DEF CutoffInv
<1>6. CASE LearnPair
  <2> DEFINE m == [tp |-> merge.tp, target |-> NewId, freq |-> merge.freq]
             text == merge.content[1] \o merge.content[2]
  <2>1. phase = "merge" /\ ~BelowCutoff /\ merges' = Append(merges, m) /\ vocab' = Append(vocab, text)
    BY <1>6 DEF LearnPair
  <2>2. Len(vocab') = Len(vocab) + 1
    <3>1. text \in Seq(Int)
      BY <1>2, <1>6, LearnPairEntry
    <3> HIDE DEF text
    <3> QED BY <1>2, <2>1, <3>1 DEF WordsInv
  <2>3. lastEvent' = merge.freq /\ merge.freq \in Int
    <3>1. vocab' # vocab
      BY <1>3, <2>2
    <3>2. merge.freq \in Int
      BY <1>2, <2>1, MergeFreq DEF Inv, Sound
    <3> QED BY <3>1, <3>2 DEF Iterate
  <2>4. bbpe # NoFallback => merge.freq >= CutoffFreq
    <3>1. bbpe # NoFallback => call.op = "train"
      BY <1>1, <1>2 DEF OpenInv, TargetInv, ShareInv, TableInv
    <3> QED BY <2>1, <2>3, <3>1, TrainerAssumption DEF BelowCutoff
  <2>5. m.freq = merge.freq /\ merges \in Seq([tp : PairKeys, target : DOMAIN vocab, freq : Nat])
    BY <1>2 DEF MergesInv
  <2> HIDE DEF m
  <2>6. \A r \in DOMAIN merges' :
        (r \in DOMAIN merges /\ merges'[r] = merges[r]) \/ merges'[r] = m
    BY <2>1, <2>5
  <2>7. bbpe # NoFallback => \A r \in DOMAIN merges' : merges'[r].freq >= CutoffFreq
    BY <2>4, <2>5, <2>6 DEF CutoffInv
  <2> QED BY <1>1, <1>3, <2>2, <2>3, <2>7 DEF CutoffInv
<1> QED
  BY <1>1, <1>4, <1>5, <1>6
     DEF Iteration, TrainNext, TrainReached, PopStale, Select, Refill, Exhausted, StopAtCutoff,
         trainerVars

\* So it is whatever an open trainer does.
LEMMA CutoffStep ==
  ASSUME CallsInv, training_state = "open", CutoffInv, [FallbackNext]_allVars,
         training_state' = "open"
  PROVE  CutoffInv'
<1>0. OpenInv
  BY DEF CallsInv
<1>1. CASE Ordinary
  <2>1. UNCHANGED <<vocab, merges>> /\ bbpe' = bbpe /\ fbMerges' = fbMerges /\ lastEvent' = lastEvent
    BY <1>1 DEF Ordinary, TrainingCall, InitTraining, TrainUntil, Step, fallbackVars, byteTrainer
  <2> QED BY <2>1 DEF CutoffInv
<1>2. ASSUME NEW target \in Targets, NEW share \in Shares,
             StartPrimary(target, share) \/ SkipPrimary(target, share)
      PROVE  CutoffInv'
  <2>1. MayStart(target) /\ UNCHANGED <<vocab, merges>> /\ fbMerges' = fbMerges /\ lastEvent' = lastEvent
    BY <1>2 DEF StartPrimary, SkipPrimary, InitTraining, TrainUntil, byteTrainer
  <2>2. fbMerges = << >>
    BY <1>0, <2>1 DEF OpenInv, ShareInv, MayStart, NoFallback
  <2>3. merges = << >>
    <3>1. Len(BaseVocab) \in Nat
      BY TrainerAssumption
    <3> QED BY <2>1, <3>1 DEF MayStart, CutoffInv
  <2> QED BY <2>1, <2>2, <2>3 DEF CutoffInv
<1>3. CASE Iterate
  BY <1>3, IterateCutoff
<1>4. CASE TrainingFails \/ Compose
  BY <1>4 DEF TrainingFails, Compose
<1>5. CASE Freeze
  <2>1. UNCHANGED <<vocab, merges>> /\ fbMerges' = fbMerges /\ lastEvent' = lastEvent /\ bbpe # NoFallback
    BY <1>5 DEF Freeze, trainerVars, NoFallback
  <2> QED BY <2>1 DEF CutoffInv
<1>6. CASE FallbackLearns
  <2>1. /\ UNCHANGED <<vocab, merges>> /\ bbpe' = bbpe /\ lastEvent' = lastEvent
        /\ bbpe # NoFallback /\ Fb!Learn /\ Last(fbMerges').freq >= FallbackCutoff
    BY <1>6 DEF FallbackLearns, vars, trainerVars, NoFallback
  <2>2. PICK tp : LearnsBytes(tp)
    BY <1>0, <2>1, ByteLearns DEF OpenInv
  <2>3. FallbackCutoff \in Int /\ FallbackCutoff >= CutoffFreq
    <3>1. lastEvent \in Int /\ CutoffFreq \in Int
      BY TrainerAssumption DEF CutoffInv
    <3>2. \E x \in {lastEvent, CutoffFreq} : \A y \in {lastEvent, CutoffFreq} : x >= y
      BY <3>1
    <3> QED BY <3>1, <3>2 DEF FallbackCutoff, Max
  <2> DEFINE m == [tp |-> tp, target |-> Len(fbVocab) + 1, freq |-> PairSum(fbWords, tp)]
             M == ByteMerge \cup {m}
  <2>4. fbMerges' = Append(fbMerges, m)
    BY <2>2 DEF LearnsBytes
  <2>5. fbMerges \in Seq(M) /\ m \in M
    <3>1. fbMerges \in Seq(ByteMerge) /\ ByteMerge \subseteq M /\ m \in M
      BY <1>0 DEF OpenInv, ByteInv
    <3> HIDE DEF M
    <3> QED BY <3>1, SeqMonotonic
  <2> HIDE DEF m, M
  <2>6. Last(fbMerges') = m /\ \A k \in DOMAIN fbMerges' :
          (k \in DOMAIN fbMerges /\ fbMerges'[k] = fbMerges[k]) \/ fbMerges'[k] = m
    BY <2>4, <2>5 DEF Last
  <2>7. m.freq \in Int
    <3>1. \A k \in DOMAIN fbMerges' : fbMerges'[k] \in ByteMerge'
      <4>1. ByteInv'
        BY <1>0, <2>1, ByteLearnStep DEF OpenInv
      <4> DEFINE B == ByteMerge'
                 s == fbMerges'
      <4>2. s \in Seq(B)
        BY <4>1 DEF ByteInv
      <4> HIDE DEF B, s
      <4>3. \A k \in DOMAIN s : s[k] \in B
        BY <4>2
      <4> QED BY <4>3 DEF s, B
    <3>2. Len(fbMerges') \in DOMAIN fbMerges' /\ fbMerges'[Len(fbMerges')] = m
      BY <2>4, <2>5
    <3>3. m \in ByteMerge'
      BY <3>1, <3>2
    <3> QED BY <3>3 DEF ByteMerge
  <2>8. m.freq >= CutoffFreq
    BY <2>1, <2>3, <2>6, <2>7, TrainerAssumption
  <2>9. \A k \in DOMAIN fbMerges' : fbMerges'[k].freq >= CutoffFreq
    BY <2>1, <2>6, <2>8 DEF CutoffInv
  <2> QED BY <2>1, <2>9 DEF CutoffInv
<1>7. CASE Resume
  <2>1. UNCHANGED <<vocab, merges>> /\ fbMerges' = fbMerges /\ lastEvent' = lastEvent /\ bbpe # NoFallback
    BY <1>7 DEF Resume, FallbackDone, TrainUntil, byteTrainer, NoFallback
  <2> QED BY <2>1 DEF CutoffInv
<1>8. CASE UNCHANGED allVars
  BY <1>8 DEF CutoffInv, allVars, fallbackVars, vars, trainerVars, byteTrainer
<1> QED
  BY <1>1, <1>2, <1>3, <1>4, <1>5, <1>6, <1>7, <1>8 DEF FallbackNext, FallbackLoop

-----------------------------------------------------------------------------
(* Every state of the call. *)

\* The contents of the byte trainer's merges fit behind the vocabulary.
LEMMA ContentsFit ==
  ASSUME OpenInv, ReadyToCompose
  PROVE  /\ FallbackContents \in Seq(Seq(Int)) /\ Len(FallbackContents) = Len(fbMerges)
         /\ \A k \in 1..Len(fbMerges) : FallbackContents[k] = FromBytes(fbVocab[fbMerges[k].target])
         /\ ComposedVocab \in Seq(Seq(Int)) /\ Len(fbMerges) \in Nat /\ Len(vocab) \in Nat
         /\ Len(ComposedVocab) = Len(vocab) + Len(fbMerges) /\ Len(ComposedVocab) <= MaxVocab
         /\ \A i \in 1..Len(vocab) : ComposedVocab[i] = vocab[i]
         /\ \A k \in 1..Len(fbMerges) : ComposedVocab[Len(vocab) + k] = FallbackContents[k]
<1>1. ByteInv /\ ShareInv /\ TargetInv /\ WordsInv /\ bbpe # NoFallback
  BY DEF OpenInv, TableInv, Inv, Sound, ReadyToCompose, FallbackDone, NoFallback
<1>2. /\ Len(vocab) \in Nat /\ Len(fbMerges) \in Nat /\ vocab \in Seq(Seq(Int))
      /\ DOMAIN fbMerges = 1..Len(fbMerges) /\ MaxVocab \in Nat
      /\ bbpe.target \in Nat /\ bbpe.target <= MaxVocab /\ bbpe.cap \in Nat
      /\ Len(fbMerges) <= bbpe.cap
  BY <1>1, TrainerAssumption DEF WordsInv, ByteInv, ShareInv
<1> DEFINE g(k) == FromBytes(fbVocab[fbMerges[k].target])
           s == [k \in DOMAIN fbMerges |-> g(k)]
<1>3. ASSUME NEW k \in DOMAIN fbMerges PROVE g(k) \in Seq(Int)
  <2>1. fbVocab \in Seq(Seq(Int)) /\ fbMerges \in Seq(ByteMerge)
    BY <1>1 DEF ByteInv
  <2>2. fbMerges[k] \in ByteMerge
    BY <2>1
  <2>3. fbMerges[k].target \in DOMAIN fbVocab
    BY <2>2 DEF ByteMerge, ByteToken
  <2>4. fbVocab[fbMerges[k].target] \in Seq(Int)
    BY <2>1, <2>3
  <2> QED BY <2>4, Reads
<1>4. FallbackContents = s \o << >>
  BY DEF FallbackContents
<1> HIDE DEF g
<1>5. s \in Seq(Seq(Int)) /\ Len(s) = Len(fbMerges) /\ \A k \in 1..Len(fbMerges) : s[k] = g(k)
  BY <1>2, <1>3
<1> HIDE DEF s
<1>6. FallbackContents = s
  BY <1>4, <1>5, ConcatEmptySeq
<1>7. Len(vocab) + Len(fbMerges) <= MaxVocab
  <2>1. CASE bbpe.stage = "resume"
    <3>1. Len(vocab) <= bbpe.target - Len(fbMerges)
      BY <1>1, <2>1 DEF TargetInv, ResumeTarget
    <3> QED BY <1>2, <3>1
  <2>2. CASE FallbackDone
    <3>1. Len(vocab) <= bbpe.target - bbpe.cap
      BY <1>1, <2>2 DEF FallbackDone, TargetInv
    <3>2. \A v, n, target, cap, max \in Nat :
            v <= target - cap /\ n <= cap /\ target <= max => v + n <= max
      OBVIOUS
    <3> QED BY <1>2, <3>1, <3>2
  <2> QED BY <2>1, <2>2 DEF ReadyToCompose
<1> DEFINE W == Seq(Int)
<1>8. vocab \in Seq(W) /\ s \in Seq(W)
  BY <1>2, <1>5
<1> HIDE DEF W
<1>9. /\ vocab \o s \in Seq(W) /\ Len(vocab \o s) = Len(vocab) + Len(s)
      /\ \A i \in 1..Len(vocab) : (vocab \o s)[i] = vocab[i]
      /\ \A k \in 1..Len(s) : (vocab \o s)[Len(vocab) + k] = s[k]
  <2>1. /\ vocab \o s \in Seq(W) /\ Len(vocab \o s) = Len(vocab) + Len(s)
        /\ \A i \in 1..Len(vocab) + Len(s) :
             (vocab \o s)[i] = IF i <= Len(vocab) THEN vocab[i] ELSE s[i - Len(vocab)]
    BY <1>8, ConcatProperties
  <2>2. Len(s) \in Nat
    BY <1>2, <1>5
  <2>3. \A k \in 1..Len(s) : /\ Len(vocab) + k \in 1..Len(vocab) + Len(s)
                             /\ ~(Len(vocab) + k <= Len(vocab)) /\ (Len(vocab) + k) - Len(vocab) = k
    BY <1>2, <2>2
  <2>4. \A i \in 1..Len(vocab) : i \in 1..Len(vocab) + Len(s) /\ i <= Len(vocab)
    BY <1>2, <2>2
  <2> QED BY <2>1, <2>3, <2>4
<1> QED BY <1>2, <1>5, <1>6, <1>7, <1>9 DEF ComposedVocab, W, g

\* What an entry of the finished model's merges is.
FinalMerge == [tp : Id \X Id, target : 1..MaxVocab, freq : Nat]

\* If nothing is missing, the byte trainer's merges find their operands among
\* the earlier entries.
LEMMA ConvertedIs ==
  ASSUME OpenInv, ReadyToCompose, ~ComposeErr
  PROVE  /\ Converted \in Seq(FinalMerge) /\ Len(Converted) = Len(fbMerges)
         /\ \A k \in 1..Len(fbMerges) :
              /\ Converted[k].target = Len(vocab) + k /\ Converted[k].freq = fbMerges[k].freq
              /\ \A side \in {1, 2} :
                   Converted[k].tp[side] \in IdsBefore(k, OperandContent(k, side))
<1> DEFINE IdOf(k, side) == CHOOSE i \in IdsBefore(k, OperandContent(k, side)) : TRUE
           m(k) == [tp |-> <<IdOf(k, 1), IdOf(k, 2)>>, target |-> Len(vocab) + k,
                    freq |-> fbMerges[k].freq]
           s == [k \in DOMAIN fbMerges |-> m(k)]
<1>1. Converted = s \o << >>
  BY DEF Converted
<1>2. /\ ByteInv /\ Len(vocab) \in Nat /\ Len(fbMerges) \in Nat /\ MaxVocab \in Nat
      /\ Len(vocab) + Len(fbMerges) <= MaxVocab /\ DOMAIN fbMerges = 1..Len(fbMerges)
      /\ fbMerges \in Seq(ByteMerge)
  BY ContentsFit, TrainerAssumption DEF OpenInv, ByteInv
<1>3. ASSUME NEW k \in 1..Len(fbMerges), NEW side \in {1, 2}
      PROVE  IdOf(k, side) \in IdsBefore(k, OperandContent(k, side)) /\ IdOf(k, side) \in 1..MaxVocab
  <2> DEFINE I == IdsBefore(k, OperandContent(k, side))
  <2>1. I # {}
    <3>1. fbMerges # << >>
      BY <1>2
    <3> QED BY <1>2, <3>1 DEF ComposeErr
  <2>2. I \subseteq 1..MaxVocab
    <3>1. I \subseteq 1..Len(vocab) + k - 1
      BY DEF IdsBefore
    <3>2. Len(vocab) + k - 1 <= MaxVocab
      BY <1>2
    <3> HIDE DEF I
    <3> QED BY <1>2, <3>1, <3>2
  <2> HIDE DEF I
  <2>3. (CHOOSE i \in I : TRUE) \in I
    BY <2>1
  <2> QED BY <2>2, <2>3 DEF I
<1> HIDE DEF IdOf
<1>4. ASSUME NEW k \in 1..Len(fbMerges) PROVE m(k) \in FinalMerge
  <2>1. IdOf(k, 1) \in Id /\ IdOf(k, 2) \in Id
    BY <1>3 DEF Id
  <2>2. fbMerges[k].freq \in Nat
    <3>1. fbMerges[k] \in ByteMerge
      <4> HIDE DEF ByteMerge
      <4> QED BY <1>2
    <3> QED BY <3>1 DEF ByteMerge
  <2>3. Len(vocab) + k \in 1..MaxVocab
    BY <1>2
  <2> QED BY <2>1, <2>2, <2>3 DEF FinalMerge
<1>5. \A k \in 1..Len(fbMerges) :
        /\ m(k).target = Len(vocab) + k /\ m(k).freq = fbMerges[k].freq
        /\ m(k).tp[1] = IdOf(k, 1) /\ m(k).tp[2] = IdOf(k, 2)
  OBVIOUS
<1> HIDE DEF m
<1>6. s \in Seq(FinalMerge) /\ Len(s) = Len(fbMerges) /\ \A k \in 1..Len(fbMerges) : s[k] = m(k)
  BY <1>2, <1>4
<1> HIDE DEF s
<1>7. Converted = s
  BY <1>1, <1>6, ConcatEmptySeq
<1> QED BY <1>3, <1>5, <1>6, <1>7

\* What is checked of the merges, whatever the trainer's state.
MadeInv ==
  /\ TypeOK /\ UnitsBeforePairs /\ FinalMergeIsRarest
  /\ training_state = "finalized" => RespectsCutoff

\* A token has an entry before a target.
KnownIn(v, id, target) ==
  \E i \in 1..target - 1 : v[i] = IF id \in Unit THEN <<id>> ELSE v[id]

\* UnitsBeforePairs says no more and no less, now and in the next state.
LEMMA OperandsAreKnown ==
  /\ UnitsBeforePairs <=> \A r \in DOMAIN merges : \A side \in {1, 2} :
                              KnownIn(vocab, merges[r].tp[side], merges[r].target)
  /\ UnitsBeforePairs' <=> \A r \in DOMAIN merges' : \A side \in {1, 2} :
                               KnownIn(vocab', merges'[r].tp[side], merges'[r].target)
<1>1. UnitsBeforePairs <=> \A r \in DOMAIN merges : \A side \in {1, 2} :
                              KnownIn(vocab, merges[r].tp[side], merges[r].target)
  BY Zenon DEF UnitsBeforePairs, KnownBefore, TextOf, KnownIn
<1>2. UnitsBeforePairs' <=> \A r \in DOMAIN merges' : \A side \in {1, 2} :
                               KnownIn(vocab', merges'[r].tp[side], merges'[r].target)
  BY Zenon DEF UnitsBeforePairs, KnownBefore, TextOf, KnownIn
<1> QED BY <1>1, <1>2

\* Of an open trainer it is part of the invariant.
LEMMA OpenMade ==
  ASSUME OpenInv, training_state = "open" PROVE MadeInv
<1>1. Sound /\ adds = 0
  BY DEF OpenInv, TableInv, Inv
<1>2. WordsInv /\ MergesInv /\ CallInv
  BY <1>1 DEF Sound
<1>3. \A i \in DOMAIN words : words[i].idxs \in Seq(Id) /\ words[i].freq \in Int
  <2>1. words \in Inventory(Token) /\ Token \subseteq Id
    BY <1>2, Tokens DEF WordsInv
  <2>2. \A i \in DOMAIN words : words[i].idxs \in Seq(Token) /\ words[i].freq \in Int
    BY <2>1, InventoryType
  <2> QED BY <2>1, <2>2
<1>4. \A r \in DOMAIN merges : /\ merges[r].tp \in Id \X Id
                               /\ merges[r].target \in DOMAIN vocab
                               /\ merges[r].freq \in Int
  BY <1>2, MergeTypes, KeyTypes
<1>5. TypeOK
  BY <1>2, <1>3, <1>4 DEF TypeOK, WordsInv, CallInv
<1>6. UnitsBeforePairs /\ FinalMergeIsRarest
  BY <1>1, <1>2 DEF Sound, MergesInv
<1> QED BY <1>5, <1>6 DEF MadeInv

\* What is composed keeps the order of the merges, and every operand before them.
LEMMA ComposeMade ==
  ASSUME OpenInv, training_state = "open", CutoffInv, Compose, ~ComposeErr
  PROVE  MadeInv'
<1>1. /\ ReadyToCompose /\ vocab' = ComposedVocab /\ words' = words /\ call' = call
      /\ phase' = phase /\ merges' = Composed(merges, Converted)
  BY DEF Compose, tableVars
<1>2. MadeInv /\ bbpe # NoFallback /\ ByteInv /\ WordsInv /\ MergesInv
  BY <1>1, OpenMade DEF OpenInv, TableInv, Inv, Sound, ReadyToCompose, FallbackDone, NoFallback
<1> DEFINE n == Len(vocab)
           f == Converted
           R == Composed(merges, f)
<1>3. /\ n \in Nat /\ Len(fbMerges) \in Nat /\ MaxVocab \in Nat
      /\ n + Len(fbMerges) <= MaxVocab /\ DOMAIN vocab = 1..n
      /\ vocab' \in Seq(Seq(Int)) /\ DOMAIN vocab' = 1..n + Len(fbMerges)
      /\ \A i \in 1..n : vocab'[i] = vocab[i]
  BY <1>1, <1>2, ContentsFit, TrainerAssumption DEF WordsInv
<1>4. /\ f \in Seq(FinalMerge) /\ Len(f) = Len(fbMerges)
      /\ \A k \in 1..Len(fbMerges) :
           /\ f[k].target = n + k /\ f[k].freq = fbMerges[k].freq
           /\ \A side \in {1, 2} : f[k].tp[side] \in IdsBefore(k, OperandContent(k, side))
  BY <1>1, ConvertedIs
<1>5. ASSUME NEW x \in DOMAIN merges
      PROVE  /\ merges[x] \in FinalMerge /\ merges[x].target \in 1..n
             /\ merges[x].tp[1] \in Token /\ merges[x].tp[2] \in Token
  <2>1. /\ merges[x] \in [tp : PairKeys, target : DOMAIN vocab, freq : Nat]
        /\ PairKeys \subseteq Id \X Id
        /\ merges[x].tp[1] \in Token /\ merges[x].tp[2] \in Token
    <3> DEFINE M == [tp : PairKeys, target : DOMAIN vocab, freq : Nat]
    <3>1. merges \in Seq(M)
      BY <1>2 DEF MergesInv
    <3> HIDE DEF M
    <3>2. merges[x] \in M
      BY <3>1
    <3>3. merges[x].tp \in PairKeys
      BY <3>2 DEF M
    <3> QED BY <1>2, <3>2, <3>3, KeyTypes DEF M
  <2>2. DOMAIN vocab \subseteq 1..MaxVocab
    BY <1>3
  <2> QED BY <1>3, <2>1, <2>2 DEF FinalMerge
<1>6. merges \in Seq(FinalMerge)
  BY <1>2, <1>5 DEF MergesInv
<1>7. Descends(merges) /\ Descends(f)
  <2>1. Descends(merges)
    BY <1>2 DEF MadeInv, FinalMergeIsRarest, Descends
  <2>2. DOMAIN f = 1..Len(fbMerges) /\ DOMAIN fbMerges = 1..Len(fbMerges)
    BY <1>2, <1>4 DEF ByteInv
  <2>3. Descends(f)
    BY <1>2, <1>4, <2>2 DEF ByteInv, ByteSorted, Descends
  <2> QED BY <2>1, <2>3
<1> HIDE DEF f
<1>8. R \in Seq(FinalMerge) /\ Shuffled(R, merges, 1, f, 1) /\ Descends(R)
  <2>1. \A m \in FinalMerge : m.freq \in Int
    BY DEF FinalMerge
  <2> QED BY <1>4, <1>6, <1>7, <2>1, ComposedShuffles
<1>9. merges' = R
  BY <1>1 DEF f
<1> HIDE DEF R
<1>10. ASSUME NEW r \in DOMAIN R
       PROVE  \/ \E x \in DOMAIN merges : R[r] = merges[x]
              \/ \E y \in 1..Len(fbMerges) : R[r] = f[y]
  <2>1. \/ \E x \in 1..Len(merges) : R[r] = merges[x]
        \/ \E y \in 1..Len(f) : R[r] = f[y]
    BY <1>8, Zenon DEF Shuffled
  <2>2. DOMAIN merges = 1..Len(merges)
    BY <1>6
  <2> QED BY <1>4, <2>1, <2>2
<1>11. ASSUME NEW r \in DOMAIN R
       PROVE  /\ R[r].tp \in Id \X Id /\ R[r].freq \in Int
              /\ R[r].target \in 1..n + Len(fbMerges)
              /\ R[r].freq >= CutoffFreq
              /\ \A side \in {1, 2} :
                   KnownIn(vocab', R[r].tp[side], R[r].target)
  <2>1. ASSUME NEW x \in DOMAIN merges, R[r] = merges[x]
        PROVE  /\ R[r].target \in 1..n + Len(fbMerges) /\ R[r].freq >= CutoffFreq
               /\ \A side \in {1, 2} : KnownIn(vocab', R[r].tp[side], R[r].target)
    <3>1. R[r].target \in 1..n /\ R[r].freq >= CutoffFreq
      BY <1>2, <1>5, <2>1 DEF CutoffInv
    <3>2. ASSUME NEW side \in {1, 2}
          PROVE  KnownIn(vocab', R[r].tp[side], R[r].target)
      <4> DEFINE id == merges[x].tp[side]
                 t == merges[x].target
      <4>1. KnownBefore(TextOf(id), t) /\ id \in Token /\ t \in 1..n
        BY <1>2, <1>5 DEF MadeInv, UnitsBeforePairs
      <4>2. TextOf(id) = IF id \in Unit THEN <<id>> ELSE vocab'[id]
        <5>1. id \in Unit \/ id \in 1..n
          BY <1>3, <4>1 DEF Token
        <5> HIDE DEF id
        <5> QED BY <1>3, <5>1 DEF TextOf
      <4>3. R[r].tp[side] = id /\ R[r].target = t
        BY <2>1
      <4> HIDE DEF id, t
      <4>4. PICK i \in 1..t - 1 : vocab[i] = TextOf(id)
        BY <4>1 DEF KnownBefore
      <4>5. i \in 1..n
        BY <1>3, <4>1
      <4>6. KnownIn(vocab', id, t)
        BY <1>3, <4>2, <4>4, <4>5 DEF KnownIn
      <4> QED BY <4>3, <4>6
    <3> QED BY <1>3, <3>1, <3>2
  <2>2. ASSUME NEW y \in 1..Len(fbMerges), R[r] = f[y]
        PROVE  /\ R[r].target \in 1..n + Len(fbMerges) /\ R[r].freq >= CutoffFreq
               /\ \A side \in {1, 2} : KnownIn(vocab', R[r].tp[side], R[r].target)
    <3>1. R[r].target = n + y /\ R[r].target \in 1..n + Len(fbMerges)
      BY <1>3, <1>4, <2>2
    <3>2. R[r].freq >= CutoffFreq
      <4>1. DOMAIN fbMerges = 1..Len(fbMerges)
        BY <1>2 DEF ByteInv
      <4> QED BY <1>2, <1>4, <2>2, <4>1 DEF CutoffInv
    <3>3. ASSUME NEW side \in {1, 2}
          PROVE  KnownIn(vocab', R[r].tp[side], R[r].target)
      <4> DEFINE id == R[r].tp[side]
      <4>1. id \in 1..n + y - 1
        BY <1>4, <2>2 DEF IdsBefore
      <4>2. id \notin Unit
        <5>1. \A u \in Unit : u < 0
          BY TrainerAssumption
        <5>2. id \in Nat
          BY <1>3, <4>1
        <5> QED BY <5>1, <5>2
      <4>3. id \in 1..R[r].target - 1
        BY <3>1, <4>1
      <4> HIDE DEF id
      <4>4. KnownIn(vocab', id, R[r].target)
        BY <4>2, <4>3 DEF KnownIn
      <4> QED BY <4>4 DEF id
    <3> QED BY <3>1, <3>2, <3>3
  <2>3. R[r] \in FinalMerge
    BY <1>8
  <2> QED BY <1>10, <2>1, <2>2, <2>3 DEF FinalMerge
<1>12. TypeOK'
  BY <1>1, <1>2, <1>3, <1>9, <1>11 DEF MadeInv, TypeOK
<1>13. UnitsBeforePairs'
  BY <1>9, <1>11, OperandsAreKnown
<1>14. FinalMergeIsRarest'
  BY <1>8, <1>9 DEF FinalMergeIsRarest, Descends
<1>15. RespectsCutoff'
  <2>1. R # << >> => Last(R).freq >= CutoffFreq
    <3>1. R # << >> => Len(R) \in DOMAIN R
      BY <1>8
    <3> QED BY <1>11, <3>1 DEF Last
  <2> QED BY <1>9, <2>1 DEF RespectsCutoff
<1> QED BY <1>12, <1>13, <1>14, <1>15 DEF MadeInv

\* A trainer that is closed takes no step.
LEMMA ClosedStutters ==
  ASSUME ClosedInv, training_state # "open", [FallbackNext]_allVars
  PROVE  UNCHANGED allVars
<1>1. bbpe = NoFallback /\ call = Idle
  BY DEF ClosedInv
<1>2. ~Ordinary /\ ~\E target \in Targets, share \in Shares :
                     StartPrimary(target, share) \/ SkipPrimary(target, share)
  BY DEF Ordinary, StartPrimary, SkipPrimary, MayStart
<1>3. ~Iterate
  BY <1>1, IterationHasCall DEF Iterate
<1>4. ~(TrainingFails \/ Freeze \/ FallbackLearns \/ Resume \/ Compose)
  BY <1>1 DEF TrainingFails, Freeze, FallbackLearns, Resume, FallbackDone, Compose, ReadyToCompose,
     NoFallback
<1> QED BY <1>2, <1>3, <1>4 DEF FallbackNext, FallbackLoop

\* A trainer that is closed keeps what it was closed with.
ClosedMade ==
  /\ training_state = "open" => CutoffInv
  /\ training_state # "open" => MadeInv

\* Every step keeps it: composing establishes the order of the merges, and after
\* that nothing moves.
LEMMA MadeStep == CallsInv /\ ClosedMade /\ [FallbackNext]_allVars => ClosedMade'
<1> SUFFICES ASSUME CallsInv, ClosedMade, [FallbackNext]_allVars PROVE ClosedMade'
  OBVIOUS
<1>1. CASE training_state # "open"
  <2>1. UNCHANGED allVars
    BY <1>1, ClosedStutters DEF CallsInv
  <2>2. /\ words' = words /\ vocab' = vocab /\ merges' = merges /\ call' = call /\ phase' = phase
        /\ training_state' = training_state
    BY <2>1 DEF allVars, vars, trainerVars, tableVars, fallbackVars
  <2>3. MadeInv'
    <3>1. MadeInv
      BY <1>1 DEF ClosedMade
    <3>2. TypeOK' /\ FinalMergeIsRarest'
      BY <2>2, <3>1 DEF MadeInv, TypeOK, FinalMergeIsRarest
    <3>3. (training_state = "finalized" => RespectsCutoff)'
      BY <2>2, <3>1 DEF MadeInv, RespectsCutoff
    <3>4. UnitsBeforePairs'
      BY <2>2, <3>1, OperandsAreKnown DEF MadeInv
    <3> QED BY <3>2, <3>3, <3>4 DEF MadeInv
  <2> QED BY <1>1, <2>2, <2>3 DEF ClosedMade
<1>2. CASE training_state = "open" /\ training_state' = "open"
  BY <1>2, CutoffStep DEF ClosedMade
<1>3. CASE training_state = "open" /\ training_state' # "open"
  <2>1. OpenInv /\ CutoffInv
    BY <1>3 DEF CallsInv, ClosedMade
  <2>2. Compose \/ TrainingFails
    BY <1>3 DEF FallbackNext, FallbackLoop, Ordinary, StartPrimary, SkipPrimary, Iterate, Freeze,
       FallbackLearns, Resume, fallbackVars, allVars
  <2>3. CASE Compose /\ ~ComposeErr
    BY <1>3, <2>1, <2>3, ComposeMade DEF ClosedMade
  <2>4. CASE TrainingFails \/ (Compose /\ ComposeErr)
    <3>1. /\ words' = words /\ vocab' = vocab /\ merges' = merges
          /\ training_state' = "poisoned"
      BY <2>4 DEF TrainingFails, Exhausted, Compose
    <3>2. call' = Idle /\ phase' = "idle"
      BY <2>4, <1>3 DEF TrainingFails, Exhausted, Table!GiveUp, Compose, ReadyToCompose, tableVars,
         CallsInv, ClosedInv
    <3>3. Idle \in [op : {"none", "step", "train"}, target : 0..MaxVocab]
      BY TrainerAssumption DEF Idle
    <3>4. MadeInv
      BY <1>3, <2>1, OpenMade
    <3>5. TypeOK'
      BY <3>1, <3>2, <3>3, <3>4 DEF MadeInv, TypeOK
    <3>6. UnitsBeforePairs' /\ FinalMergeIsRarest'
      BY <3>1, <3>4, OperandsAreKnown DEF MadeInv, FinalMergeIsRarest
    <3>7. MadeInv'
      BY <3>1, <3>5, <3>6, Zenon DEF MadeInv
    <3>8. training_state' # "open"
      BY <3>1
    <3> QED BY <3>7, <3>8, Zenon DEF ClosedMade
  <2> QED BY <1>3, <2>2, <2>3, <2>4
<1> QED BY <1>1, <1>2, <1>3

\* In every state of a trainer with a fallback its words, vocabulary and merges
\* are what the code's types say, the operands of every merge have an entry
\* before it, and no merge is rarer than its final one; composed, none of them
\* is below the cutoff.
THEOREM FallbackMakes == PositiveInventories => (FallbackSpec => []MadeInv)
<1> SUFFICES ASSUME PositiveInventories PROVE FallbackSpec => []MadeInv
  OBVIOUS
<1>1. FallbackInit => ClosedMade
  BY DEF FallbackInit, Init, CutoffInv, ClosedMade
<1>2. CallsInv /\ ClosedMade /\ [FallbackNext]_allVars => ClosedMade'
  BY MadeStep
<1>3. CallsInv /\ ClosedMade => MadeInv
  BY OpenMade DEF CallsInv, ClosedMade
<1>4. FallbackSpec => []CallsInv
  BY CallsInvariant
<1> QED BY <1>1, <1>2, <1>3, <1>4, PTL DEF FallbackSpec

\* The operands of a merge have an entry of the vocabulary before its target,
\* across the two lists that compose_bbpe_fallback joins.
THEOREM FallbackOperandsAreKnown ==
  PositiveInventories => (FallbackSpec => []UnitsBeforePairs)
<1>1. MadeInv => UnitsBeforePairs
  BY DEF MadeInv
<1> QED BY <1>1, FallbackMakes, PTL

\* The final merge stays the rarest when the two lists become one: what the
\* builder of a model takes from it as the cutoff holds of every merge.
THEOREM FallbackFinalMergeIsRarest ==
  PositiveInventories => (FallbackSpec => []FinalMergeIsRarest)
<1>1. MadeInv => FinalMergeIsRarest
  BY DEF MadeInv
<1> QED BY <1>1, FallbackMakes, PTL

=============================================================================
