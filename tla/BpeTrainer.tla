----------------------------- MODULE BpeTrainer -----------------------------
(***************************************************************************)
(* BpeTrainer of src/bpe/trainer.rs: a word inventory, the vocabulary and  *)
(* merges learned so far, and the candidate table of PairStore, driven by  *)
(* the calls add_words, init_training, step and train_until. A call runs   *)
(* alone (&mut self), so that at most one is in progress; its loop is      *)
(* modelled iteration by iteration.                                        *)
(*                                                                         *)
(* Vocabulary ids are the positions of vocab (special tokens, bytes, then  *)
(* what is learned). A Unicode scalar stays CharIdx::Char in the words, a  *)
(* negative unit, before and after it gets a vocabulary entry.             *)
(***************************************************************************)
EXTENDS BpeWords

CONSTANTS
  Unit,            \* Unicode scalars that are not in the base vocabulary
  Inventories,     \* inventories, sequences of [idxs, freq], words equal to
                   \* a special token already skipped (_words_to_tokens)
  Added,           \* inventories add_words is called with later
  Special,         \* contents of the special tokens
  Bytes,           \* contents of the byte alphabet
  Window,          \* hot_pair_window_size, 0 for None
  TieBreak,        \* "SmallestPairId" or "LargestContent"
  CutoffFreq,      \* bigram_cutoff_freq, 0 for None
  Targets,         \* vocabulary sizes train_until is called with
  MaxVocab,        \* bound: step is not called beyond this vocabulary size
  MaxAdds,         \* bound: calls of add_words after the first
  None

BaseVocab == Special \o Bytes

\* Positions of the words an inventory may have.
WordId == UNION {DOMAIN inventory : inventory \in Inventories \cup Added}

ASSUME TrainerAssumption ==
  /\ \A u \in Unit : u \in Int /\ u < 0
  /\ BaseVocab \in Seq(Seq(Int))
  /\ MaxVocab \in Nat /\ Len(BaseVocab) <= MaxVocab
  /\ Window \in Nat
  /\ TieBreak \in {"SmallestPairId", "LargestContent"}
  /\ CutoffFreq \in Nat
  /\ \A n \in Targets : n \in Nat /\ n <= MaxVocab

\* None is no frequency, occurrence set, candidate or merge.
ASSUME NoneIsNoValue ==
  /\ None \notin Int
  /\ \A S \in SUBSET WordId : S # None
  /\ None \notin [freq : Int, tp : Int \X Int, content : Seq(Int) \X Seq(Int)]
  /\ None \notin [tp : Int \X Int, content : Seq(Int) \X Seq(Int), freq : Int,
                   occ : SUBSET WordId]

VARIABLES
  words,           \* the inventory
  vocab,           \* id -> content
  merges,          \* learned merges, in rank order
  call,            \* the call in progress
  ready,           \* the store was built from these words
  adds,            \* calls of add_words so far
  frozen,          \* frozen_initial_units: what BbpeFallback keeps out
  store, residents, threshold, heap, cutoff, merge, phase

trainerVars == <<words, vocab, merges, call, ready, adds>>

tableVars == <<store, residents, threshold, heap, cutoff, merge, phase>>

Id == Unit \cup 1..MaxVocab

\* I::from_u64(u64::MAX), the left half of the key of an initial unit.
Sentinel == MaxVocab + 1

TieLess(c, d) == IF TieBreak = "SmallestPairId" THEN SmallestPairId(c, d)
                                                ELSE LargestContent(c, d)

Table == INSTANCE PairStore WITH
  Pair <- Id \X Id,
  UnitKey <- {Sentinel} \X Unit,
  Content <- Seq(Int) \X Seq(Int)

vars == <<trainerVars, frozen, tableVars>>

Idle == [op |-> "none", target |-> 0]

-----------------------------------------------------------------------------
(* Counting. *)

\* resolve_vocab_word
TextOf(id) == IF id \in Unit THEN <<id>> ELSE vocab[id]

WeightedPairs(tp) ==
  SumFunction([i \in DOMAIN words |-> words[i].freq * PairCount(words[i].idxs, tp)])

WeightedUnits(u) ==
  SumFunction([i \in DOMAIN words |-> words[i].freq * UnitCount(words[i].idxs, u)])

\* Mutant of HasFrozen: the right half of a pair is not looked at.
FrozenLeft(tp) == tp[1] \in frozen

HasFrozen(tp) == tp[1] \in frozen \/ tp[2] \in frozen

AllPairs ==
  {tp \in UNION {PairsOf(words[i].idxs) : i \in DOMAIN words} : ~HasFrozen(tp)}

\* Mutant of Unmaterialized: the contents of the vocabulary are not looked at.
UnitsOfWords ==
  {u \in Unit \ frozen : \E i \in DOMAIN words : u \in Elements(words[i].idxs)}

\* Units that have no vocabulary entry under their own content.
Unmaterialized ==
  {u \in Unit \ frozen :
     /\ <<u>> \notin Elements(vocab)
     /\ \E i \in DOMAIN words : u \in Elements(words[i].idxs)}

\* collect_pre_merge_partial and PreMergeReducer over the whole inventory; how
\* it is split into ranges and threads does not change the sums.
Counted ==
  [tp \in AllPairs \cup {Sentinel} \X Unmaterialized |->
     IF tp[1] = Sentinel
     THEN [content |-> << << >>, <<tp[2]>> >>, freq |-> WeightedUnits(tp[2])]
     ELSE [content |-> <<TextOf(tp[1]), TextOf(tp[2])>>, freq |-> WeightedPairs(tp)]]

\* The words a scan of the inventory finds a pair in.
Occurrences == [tp \in Id \X Id |->
                  {i \in DOMAIN words : tp \in PairsOf(words[i].idxs)}]

-----------------------------------------------------------------------------
(* Merging. *)

\* Mutants of NewId: the counter is advanced too early or too late.
LastId == Len(vocab)
SkippingId == Len(vocab) + 2

\* _add_vocab_idx
NewId == Len(vocab) + 1

\* The rewriting of the words in occurs_in. A stale word id rewrites nothing.
Updates ==
  [i \in merge.occ |-> MergeWord(words[i].idxs, words[i].freq, merge.tp, NewId)]

\* merge_flat_changes: sums over the words, and as occurs_in of a pair only the
\* words that add to it.
MergeChanges(updates) ==
  [tp \in UNION {DOMAIN updates[i].changes : i \in merge.occ} |->
     [freq    |-> SumFunction([i \in merge.occ |-> Entry(updates[i].changes, tp)]),
      occ     |-> {i \in merge.occ : Entry(updates[i].changes, tp) > 0},
      content |-> LET text(id) == IF id = NewId
                                  THEN merge.content[1] \o merge.content[2]
                                  ELSE TextOf(id)
                  IN <<text(tp[1]), text(tp[2])>>]]

\* update_pre_merges drops the pairs of a frozen unit.
Retained(changes) ==
  IF frozen = {} THEN changes
  ELSE [tp \in {q \in DOMAIN changes : ~HasFrozen(q)} |-> changes[tp]]

\* The frequency the rewriting removed from the merged pair.
RemovedFreq(changes) ==
  IF merge.tp \in DOMAIN changes THEN -changes[merge.tp].freq ELSE 0

-----------------------------------------------------------------------------
(* Calls. *)

Init ==
  /\ words \in Inventories
  /\ vocab = BaseVocab
  /\ merges = << >>
  /\ call = Idle
  /\ ready = FALSE
  /\ adds = 0
  /\ frozen = {}
  /\ Table!StoreInit

\* add_words replaces the inventory and leaves everything else alone.
AddWords(inventory) ==
  /\ call = Idle
  /\ adds < MaxAdds
  /\ words' = inventory
  /\ ready' = FALSE
  /\ adds' = adds + 1
  /\ UNCHANGED <<vocab, merges, call, tableVars>>

\* _build_pre_merges
BuildTable ==
  \E counted \in {Counted}, occurrences \in {Occurrences} :
    Table!Build(counted, occurrences)

InitTraining ==
  /\ call = Idle
  /\ BuildTable
  /\ ready' = TRUE
  /\ UNCHANGED <<words, vocab, merges, call, adds>>

\* train_until returns at once unless the target is above the vocabulary.
TrainUntil(target) ==
  /\ call = Idle
  /\ target > Len(vocab)
  /\ BuildTable
  /\ call' = [op |-> "train", target |-> target]
  /\ ready' = TRUE
  /\ UNCHANGED <<words, vocab, merges, adds>>

\* Callers initialise before they step (as src/main.rs does).
Step ==
  /\ call = Idle
  /\ ready
  /\ Len(vocab) < MaxVocab
  /\ Table!Search
  /\ call' = [op |-> "step", target |-> 0]
  /\ UNCHANGED <<words, vocab, merges, ready, adds>>

\* The loop of train_until.
TrainNext ==
  /\ call.op = "train"
  /\ Len(vocab) < call.target
  /\ Table!Search
  /\ UNCHANGED trainerVars

TrainReached ==
  /\ call.op = "train"
  /\ phase = "idle"
  /\ Len(vocab) >= call.target
  /\ call' = Idle
  /\ UNCHANGED <<words, vocab, merges, ready, adds, tableVars>>

\* A candidate with a frozen unit is thrown away like one that is stale.
PopStale ==
  /\ phase = "search"
  /\ \E c \in {d \in heap : HasFrozen(d.tp) \/ ~Table!Current(d)} :
       Table!Popped(c) /\ heap' = heap \ {c}
  /\ UNCHANGED <<trainerVars, store, residents, threshold, cutoff, merge, phase>>

Select ==
  /\ \E c \in heap : ~HasFrozen(c.tp) /\ Table!Select(c, Occurrences)
  /\ UNCHANGED trainerVars

Refill == Table!Refill /\ UNCHANGED trainerVars

\* The call fails with Err(TrainStep).
Exhausted ==
  /\ Table!GiveUp
  /\ call' = Idle
  /\ UNCHANGED <<words, vocab, merges, ready, adds>>

\* Only automatic training has a cutoff.
BelowCutoff == call.op = "train" /\ merge.freq < CutoffFreq

\* Mutant of StopAtCutoff: the loop goes on after it declined a pair.
SkipAtCutoff ==
  /\ phase = "merge"
  /\ BelowCutoff
  /\ Table!Decline
  /\ UNCHANGED trainerVars

\* The next pair is below the cutoff: it is put back and training stops.
StopAtCutoff ==
  /\ phase = "merge"
  /\ BelowCutoff
  /\ Table!Decline
  /\ call' = Idle
  /\ UNCHANGED <<words, vocab, merges, ready, adds>>

AfterEvent == call' = IF call.op = "step" THEN Idle ELSE call

\* _step with an initial unit.
LearnUnit ==
  /\ Table!ApplyUnit
  /\ vocab' = Append(vocab, merge.content[2])
  /\ AfterEvent
  /\ UNCHANGED <<words, merges, ready, adds>>

\* _step with a pair. The assertion in the middle of it must hold.
LearnPair ==
  /\ phase = "merge"
  /\ merge.tp \in Id \X Id
  /\ ~BelowCutoff
  /\ \E updates \in {Updates} : \E changes \in {MergeChanges(updates)} :
       /\ RemovedFreq(changes) = merge.freq
       /\ words' = [i \in DOMAIN words |->
                      IF i \in merge.occ THEN [words[i] EXCEPT !.idxs = updates[i].idxs]
                                         ELSE words[i]]
       /\ Table!ApplyChanges(NewId, Retained(changes))
  /\ vocab' = Append(vocab, merge.content[1] \o merge.content[2])
  /\ merges' = Append(merges, [tp |-> merge.tp, target |-> NewId, freq |-> merge.freq])
  /\ AfterEvent
  /\ UNCHANGED <<ready, adds>>

Loop == \/ TrainNext
        \/ TrainReached
        \/ PopStale
        \/ Select
        \/ Refill
        \/ Exhausted
        \/ StopAtCutoff
        \/ LearnUnit
        \/ LearnPair

TrainingCall ==
  \/ InitTraining
  \/ \E target \in Targets : TrainUntil(target)
  \/ Step

Next ==
  /\ \/ \E inventory \in Added : AddWords(inventory)
     \/ TrainingCall
     \/ Loop
  /\ UNCHANGED frozen

\* A call that was made runs to its end.
Spec == Init /\ [][Next]_vars /\ WF_vars(Loop /\ UNCHANGED frozen)

-----------------------------------------------------------------------------
(* Properties. *)

TypeOK ==
  /\ \A i \in DOMAIN words : words[i].idxs \in Seq(Id) /\ words[i].freq \in Int
  /\ vocab \in Seq(Seq(Int))
  /\ \A r \in DOMAIN merges :
       /\ merges[r].tp \in Id \X Id
       /\ merges[r].target \in DOMAIN vocab
       /\ merges[r].freq \in Int
  /\ call \in [op : {"none", "step", "train"}, target : 0..MaxVocab]
  /\ call = Idle => phase = "idle"

\* The assertion in _step_with_observer: rewriting the words of the selected
\* pair's occurrence set removes exactly the frequency the table had for it.
\* It fails if an occurrence set misses a word or a frequency drifted.
SelectedFreqIsRemoved ==
  phase = "merge" /\ merge.tp \in Id \X Id =>
    RemovedFreq(MergeChanges(Updates)) = merge.freq

\* "Frequencies stay exact" (src/bpe/utils.rs): whatever was merged, admitted,
\* pruned or restored, the table agrees with a recount of the words, for every
\* pair and for every unit that is not in the vocabulary yet.
FrequenciesExact ==
  ready =>
    LET recount == Counted
        held(tp) == IF merge # None /\ merge.tp = tp THEN merge.freq
                    ELSE IF tp \in DOMAIN store THEN store[tp].freq ELSE 0
    IN \A tp \in DOMAIN recount \cup DOMAIN store :
         held(tp) = IF tp \in DOMAIN recount THEN recount[tp].freq ELSE 0

\* A pair's occurrence set may be lazy, but never misses a word: a handle, old
\* or just admitted or hydrated, covers every word its pair is in.
OccurrencesComplete ==
  ready =>
    \A tp \in DOMAIN store :
      store[tp].occ # None =>
        \A i \in DOMAIN words : tp \in PairsOf(words[i].idxs) => i \in store[tp].occ

\* apply_changes expects an admission threshold whenever it admits a pair: a
\* pair can only be merged after some hydration ranked a pair.
ThresholdIsSet ==
  Table!Bounded /\ phase = "merge" /\ merge.tp \in Id \X Id => threshold # None

\* No choice of the top pairs leaves out a cold winner: two live pairs
\* never tie, because no two of them are spelled alike.
ColdWinnerIsRanked == Table!ColdWinnerIsRanked

\* The occurrence sets a window keeps: at most 2K after a merge, and K more
\* while a cold winner's refill waits for the next prune.
WindowIsBounded == Table!Bounded => Cardinality(residents) <= 3 * Window

\* The content of a token that existed when id was assigned.
KnownBefore(content, id) == \E i \in 1..id - 1 : vocab[i] = content

\* "Initial units must be available before pair merges" (src/bpe/trainer.rs):
\* when a pair is learned, both of its operands have a vocabulary entry.
UnitsBeforePairs ==
  \A r \in DOMAIN merges : \A side \in {1, 2} :
    KnownBefore(TextOf(merges[r].tp[side]), merges[r].target)

\* validate_model compares the cutoff with the frequency of the final merge
\* only: no merge of the model is rarer than its final merge.
FinalMergeIsRarest ==
  \A r, q \in DOMAIN merges : r < q => merges[r].freq >= merges[q].freq

\* Training behaves as the textbook algorithm, in exact and in bounded mode
\* ("preserving exact global pair frequencies, winner selection, and
\* tie-breaking", README): every learned unit or pair is the best one the words
\* offer, and is replaced everywhere.
Abs == INSTANCE BpeAbstract WITH Inventories <- Inventories \cup Added
LearnsTheBest == Abs!AbsSpec

=============================================================================
