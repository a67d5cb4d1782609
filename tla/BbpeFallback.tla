---------------------------- MODULE BbpeFallback ----------------------------
(***************************************************************************)
(* train_until_with_bbpe_fallback of src/bpe/trainer.rs: a share of the    *)
(* vocabulary is learned by BpeTrainer, the Unicode scalars that got no    *)
(* token by then are frozen, a byte trainer learns merges over their UTF-8 *)
(* bytes, ordinary training takes the places it did not need, and the two  *)
(* merge lists become one. The trainer is then finalised, or poisoned if a *)
(* stage failed.                                                           *)
(*                                                                         *)
(* The byte trainer is a BpeTrainer in exact mode: it is modelled by what  *)
(* that promises (BpeAbstract, which BpeTrainer implements), one merge per *)
(* step, over variables of its own.                                        *)
(***************************************************************************)
EXTENDS BpeTrainer, Characters

CONSTANTS
  Shares           \* primary_vocab_ratio, as <<numerator, denominator>> below 1

VARIABLES
  training_state,  \* "open", "finalized" or "poisoned"
  bbpe,            \* the fallback call in progress
  lastEvent,       \* last_event_freq, 0 for None
  fbWords, fbVocab, fbMerges   \* the byte trainer

byteTrainer == <<fbWords, fbVocab, fbMerges>>

fallbackVars == <<training_state, bbpe, lastEvent, byteTrainer>>

allVars == <<vars, fallbackVars>>

ASSUME FallbackAssumption ==
  /\ Bytes \in Seq(Seq(Int))
  /\ DOMAIN Utf8 = Unit
  /\ \A u \in Unit : \A b \in Elements(Utf8[u]) : <<b>> \in Elements(Bytes)
  /\ \A s \in Shares : s[1] \in Nat /\ s[2] \in Nat /\ s[1] < s[2]

NoFallback == [stage |-> "none", target |-> 0, cap |-> 0]

Fb == INSTANCE BpeAbstract WITH
  Unit <- {}, Inventories <- {}, BaseVocab <- Bytes, frozen <- {},
  words <- fbWords, vocab <- fbVocab, merges <- fbMerges

-----------------------------------------------------------------------------
(* Contents. *)

Normal(content) == FromBytes(ToBytes(content))

AllScalars(content) == Elements(content) \cap (Lead \cup Continuation) = {}

\* is_valid_model_vocab_word
CanonicalWord(content) ==
  \/ AllScalars(content)
  \/ Elements(content) \subseteq Lead \cup Continuation /\ content = Normal(content)

-----------------------------------------------------------------------------
(* The call, stage by stage. *)

FallbackInit ==
  /\ Init
  /\ training_state = "open"
  /\ bbpe = NoFallback
  /\ lastEvent = 0
  /\ fbWords = << >> /\ fbVocab = Bytes /\ fbMerges = << >>

PrimarySlots(target, share) ==
  ((target - Len(BaseVocab)) * share[1]) \div share[2]

\* Any other call is refused without an effect, or is train_until.
MayStart(target) ==
  /\ bbpe = NoFallback
  /\ training_state = "open"
  /\ Len(vocab) = Len(BaseVocab)
  /\ target > Len(BaseVocab)

Entered(target, primary) ==
  bbpe' = [stage  |-> "primary",
           target |-> target,
           cap    |-> target - Len(BaseVocab) - primary]

StartPrimary(target, share) ==
  /\ MayStart(target)
  /\ PrimarySlots(target, share) > 0
  /\ TrainUntil(Len(BaseVocab) + PrimarySlots(target, share))
  /\ Entered(target, PrimarySlots(target, share))
  /\ UNCHANGED <<frozen, training_state, lastEvent, byteTrainer>>

\* With no primary slot only the table is built.
SkipPrimary(target, share) ==
  /\ MayStart(target)
  /\ PrimarySlots(target, share) = 0
  /\ InitTraining
  /\ Entered(target, 0)
  /\ UNCHANGED <<frozen, training_state, lastEvent, byteTrainer>>

\* freeze_unmaterialized_initial_units: every unit that is still in the table.
Freezable == {tp[2] : tp \in {q \in DOMAIN store : q[1] = Sentinel}}

ByteId(b) == CHOOSE i \in DOMAIN Bytes : Bytes[i] = <<b>>

Freeze ==
  /\ bbpe.stage = "primary"
  /\ call = Idle
  /\ frozen' = frozen \cup Freezable
  /\ fbWords' = [k \in 1..Cardinality(Freezable) |->
                   LET u == InOrder(Freezable)[k]
                   IN [idxs |-> [i \in DOMAIN Utf8[u] |-> ByteId(Utf8[u][i])],
                       freq |-> store[<<Sentinel, u>>].freq]]
  /\ bbpe' = [bbpe EXCEPT !.stage = "fallback"]
  /\ UNCHANGED <<trainerVars, tableVars, training_state, lastEvent, fbVocab, fbMerges>>

\* The last thing the primary stage learned is as rare as it gets; so is what
\* the fallback may learn.
FallbackCutoff == Max({lastEvent, CutoffFreq})

FallbackLearns ==
  /\ bbpe.stage = "fallback"
  /\ Len(fbMerges) < bbpe.cap
  /\ Fb!Learn
  /\ Last(fbMerges').freq >= FallbackCutoff
  /\ UNCHANGED <<vars, training_state, bbpe, lastEvent>>

FallbackDone ==
  /\ bbpe.stage = "fallback"
  /\ \/ Len(fbMerges) = bbpe.cap
     \/ \A e \in Fb!Events : e.freq < FallbackCutoff

\* Mutant of ResumeTarget: the slots of the fallback are given away again.
WholeTarget == bbpe.target

\* The places the fallback left go to ordinary training.
ResumeTarget == bbpe.target - Len(fbMerges)

\* Mutant of Resume: training goes on with the table as it was.
ResumeWithoutRebuild ==
  /\ FallbackDone
  /\ ResumeTarget > Len(vocab)
  /\ call' = [op |-> "train", target |-> ResumeTarget]
  /\ bbpe' = [bbpe EXCEPT !.stage = "resume"]
  /\ UNCHANGED <<words, vocab, merges, ready, adds, tableVars, frozen,
                 training_state, lastEvent, byteTrainer>>

Resume ==
  /\ FallbackDone
  /\ ResumeTarget > Len(vocab)
  /\ TrainUntil(ResumeTarget)
  /\ bbpe' = [bbpe EXCEPT !.stage = "resume"]
  /\ UNCHANGED <<frozen, training_state, lastEvent, byteTrainer>>

-----------------------------------------------------------------------------
(* compose_bbpe_fallback *)

FallbackContents ==
  [k \in DOMAIN fbMerges |-> FromBytes(fbVocab[fbMerges[k].target])] \o << >>

ComposedVocab == vocab \o FallbackContents

\* vocab_by_content, when the k-th fallback merge is converted.
IdsBefore(k, content) ==
  {i \in 1..Len(vocab) + k - 1 : Normal(ComposedVocab[i]) = content}

OperandContent(k, side) == FromBytes(fbVocab[fbMerges[k].tp[side]])

\* A duplicate or a missing dependency; nothing to check without a fallback.
ComposeErr ==
  /\ fbMerges # << >>
  /\ \/ \E i, j \in DOMAIN vocab : i # j /\ Normal(vocab[i]) = Normal(vocab[j])
     \/ \E k \in DOMAIN fbMerges :
          \/ \E side \in {1, 2} : IdsBefore(k, OperandContent(k, side)) = {}
          \/ IdsBefore(k, FallbackContents[k]) # {}

\* Mutant of Converted: the operands keep the ids of the byte trainer.
ConvertedTargetsOnly ==
  [k \in DOMAIN fbMerges |->
     [tp |-> fbMerges[k].tp, target |-> Len(vocab) + k, freq |-> fbMerges[k].freq]] \o << >>

Converted ==
  LET IdOf(k, side) == CHOOSE i \in IdsBefore(k, OperandContent(k, side)) : TRUE
  IN [k \in DOMAIN fbMerges |->
        [tp     |-> <<IdOf(k, 1), IdOf(k, 2)>>,
         target |-> Len(vocab) + k,
         freq   |-> fbMerges[k].freq]] \o << >>  \* a tuple: evaluated once

\* Mutant of Composed: the fallback's merges follow all the others.
Appended(p, f) == p \o f

\* The stream whose next merge is more frequent goes first, p on a tie.
Composed(p, f) ==
  LET from[at \in (1..Len(p) + 1) \X (1..Len(f) + 1)] ==
        LET i == at[1]
            j == at[2]
        IN IF j > Len(f) THEN SubSeq(p, i, Len(p))
           ELSE IF i > Len(p) THEN SubSeq(f, j, Len(f))
           ELSE IF p[i].freq >= f[j].freq THEN <<p[i]>> \o from[<<i + 1, j>>]
           ELSE <<f[j]>> \o from[<<i, j + 1>>]
  IN from[<<1, 1>>]

ReadyToCompose ==
  /\ call = Idle
  /\ \/ bbpe.stage = "resume"
     \/ FallbackDone /\ ResumeTarget <= Len(vocab)

\* The call ends, finalised; or poisoned if something cannot be composed (the
\* entries it then leaves in vocab are of no use to anyone, and left out).
Compose ==
  /\ ReadyToCompose
  /\ IF ComposeErr
     THEN training_state' = "poisoned" /\ UNCHANGED <<vocab, merges>>
     ELSE /\ training_state' = "finalized"
          /\ vocab' = ComposedVocab
          /\ \E converted \in {Converted} : merges' = Composed(merges, converted)
  /\ bbpe' = NoFallback
  /\ UNCHANGED <<words, call, ready, adds, frozen, tableVars, lastEvent, byteTrainer>>

\* Ordinary training ran out of candidates before its target.
TrainingFails ==
  /\ bbpe # NoFallback
  /\ Exhausted
  /\ training_state' = "poisoned"
  /\ bbpe' = NoFallback
  /\ UNCHANGED <<frozen, lastEvent, byteTrainer>>

-----------------------------------------------------------------------------
(* The specification. ensure_training_open guards the ordinary calls. *)

\* Mutant of Ordinary: nobody asks whether training is still open.
OrdinaryWhenClosed ==
  /\ bbpe = NoFallback
  /\ TrainingCall
  /\ UNCHANGED <<frozen, fallbackVars>>

Ordinary ==
  /\ bbpe = NoFallback
  /\ training_state = "open"
  /\ TrainingCall
  /\ UNCHANGED <<frozen, fallbackVars>>

\* An iteration of ordinary training, inside or outside a fallback call.
Iterate ==
  /\ \/ TrainNext \/ TrainReached \/ PopStale \/ Select \/ Refill
     \/ bbpe = NoFallback /\ Exhausted
     \/ StopAtCutoff \/ LearnUnit \/ LearnPair
  /\ lastEvent' = IF vocab' = vocab THEN lastEvent ELSE merge.freq
  /\ UNCHANGED <<frozen, training_state, bbpe, byteTrainer>>

FallbackLoop ==
  \/ Iterate \/ TrainingFails \/ Freeze \/ FallbackLearns \/ Resume \/ Compose

FallbackNext ==
  \/ Ordinary
  \/ \E target \in Targets, share \in Shares :
       StartPrimary(target, share) \/ SkipPrimary(target, share)
  \/ FallbackLoop

\* A call that was made runs to its end.
FallbackSpec ==
  FallbackInit /\ [][FallbackNext]_allVars /\ WF_allVars(FallbackLoop)

-----------------------------------------------------------------------------
(* validate_model, on the state of the trainer. *)

\* is_valid_model_merge: scalars give scalars, bytes give bytes or one scalar.
HomogeneousMerge(l, r, output) ==
  \/ AllScalars(l) /\ AllScalars(r)
  \/ /\ ~AllScalars(l) /\ ~AllScalars(r)
     /\ ~AllScalars(output) \/ Len(output) = 1

Operand(r, side) == TextOf(merges[r].tp[side])

\* canonical_merged_content
Output(r) == FromBytes(ToBytes(Operand(r, 1)) \o ToBytes(Operand(r, 2)))

MergeTargets == {merges[r].target : r \in DOMAIN merges}

ValidVocab ==
  /\ \A i, j \in DOMAIN vocab : Normal(vocab[i]) = Normal(vocab[j]) => i = j
  /\ \A i \in DOMAIN vocab : CanonicalWord(vocab[i])

ValidMerges ==
  /\ Cardinality(MergeTargets) = Len(merges)
  /\ \A r \in DOMAIN merges :
       /\ CanonicalWord(Operand(r, 1)) /\ CanonicalWord(Operand(r, 2))
       /\ vocab[merges[r].target] = Output(r)
       /\ HomogeneousMerge(Operand(r, 1), Operand(r, 2), Output(r))

\* The replay: a merge joins initial tokens and outputs of earlier merges.
Replays ==
  LET available(r) == {vocab[i] : i \in DOMAIN vocab \ MergeTargets}
                        \cup {Output(q) : q \in 1..r - 1}
  IN \A r \in DOMAIN merges :
       /\ {Operand(r, 1), Operand(r, 2)} \subseteq available(r)
       /\ Output(r) \notin available(r)

RespectsCutoff == merges = << >> \/ Last(merges).freq >= CutoffFreq

Validates ==
  /\ training_state # "poisoned"
  /\ ValidVocab /\ ValidMerges /\ Replays /\ RespectsCutoff

-----------------------------------------------------------------------------
(* finish: the encoder that is built from the validated model. A byte below
   the lead bytes is the scalar of its own that it is in the vocabulary. *)

AsciiScalar(b) == 1000 + b

ScalarsOf(content) ==
  [i \in DOMAIN content |->
     IF content[i] \in Unit \cup Lead \cup Continuation THEN content[i]
     ELSE AsciiScalar(content[i])] \o << >>

Ascii == UNION {Elements(content) : content \in Elements(BaseVocab)} \ (Lead \cup Continuation)

EncoderUtf8 ==
  [s \in Unit \cup {AsciiScalar(b) : b \in Ascii} |->
     IF s \in Unit THEN Utf8[s] ELSE <<s - 1000>>]

\* The token a content has in the vocabulary.
TokenOf(content) == CHOOSE i \in DOMAIN vocab : vocab[i] = content

FinishedModel ==
  [unicode |-> TRUE,
   vocab   |-> [i \in DOMAIN vocab |-> ScalarsOf(vocab[i])],
   merges  |-> [r \in DOMAIN merges |->
                  [pair   |-> <<TokenOf(Operand(r, 1)), TokenOf(Operand(r, 2))>>,
                   target |-> merges[r].target]],
   special |-> DOMAIN Special,
   split   |-> TRUE]

\* The encoder as it is constructed, and as it answers.
New == INSTANCE Encoder WITH
  Caller <- {}, Utf8 <- EncoderUtf8, Models <- {}, Inputs <- {}, MinByteSplit <- 1,
  MaxCalls <- 0, model <- FinishedModel, built <- << >>, cache <- << >>, call <- << >>,
  made <- 0

Finished == INSTANCE Encoder WITH
  Caller <- {}, Utf8 <- EncoderUtf8, Models <- {}, Inputs <- {}, MinByteSplit <- 1,
  MaxCalls <- 0, model <- FinishedModel, built <- New!Built, cache <- << >>, call <- << >>,
  made <- 0

-----------------------------------------------------------------------------
(* Properties. *)

Quiet == bbpe = NoFallback /\ call = Idle

\* No sequence of primary training, freezing, fallback, resumed training and
\* composition gives a model that validate_model refuses: what was composed
\* replays in rank order, no token is there twice, and its last merge is not
\* below the cutoff. A composition never fails half-way.
ComposedValidates ==
  /\ training_state = "open" => ValidVocab /\ ValidMerges /\ Replays
  /\ training_state = "finalized" => Validates
  /\ ReadyToCompose => ~ComposeErr

\* The text of a word is that of its tokens.
OriginalText(i) ==
  ScalarsOf(FlattenSeq([k \in DOMAIN words[i].idxs |-> TextOf(words[i].idxs[k])]))

\* How the byte trainer left the bytes of a scalar.
ByteSegments(u) ==
  IF u \in frozen
  THEN LET w == fbWords[Cardinality({v \in frozen : v <= u})].idxs
       IN [k \in DOMAIN w |-> FromBytes(fbVocab[w[k]])]
  ELSE [k \in DOMAIN Utf8[u] |-> <<Utf8[u][k]>>]

TrainedTokens(i) ==
  FlattenSeq([k \in DOMAIN words[i].idxs |->
    LET id == words[i].idxs[k]
    IN IF id \notin Unit THEN <<id>>
       ELSE IF <<id>> \in Elements(vocab) THEN <<TokenOf(<<id>>)>>
       ELSE [n \in DOMAIN ByteSegments(id) |-> TokenOf(ByteSegments(id)[n])]])

\* An encoder made from the trainer splits the words it was trained on as
\* training left them: the order of the composed merges undoes none of them,
\* neither across the two streams nor across two scalars in bytes.
EncodesAsTrained ==
  Quiet /\ training_state # "poisoned" =>
    \A i \in DOMAIN words :
      /\ Finished!InVocab(OriginalText(i))
      /\ Finished!Greedy(OriginalText(i)) = TrainedTokens(i)

\* "The configured pair-frequency cutoff may leave the final vocabulary below
\* vocab_size": nothing else does.
FillsTarget ==
  [][training_state = "open" /\ training_state' = "finalized" =>
       \/ Len(vocab') = bbpe.target
       \/ /\ Len(vocab') < bbpe.target
          /\ \A e \in Abs!Events : e.freq < CutoffFreq]_allVars

\* A finalised or poisoned trainer refuses to train: vocabulary, merges and
\* table stay as they are, whatever is called (ensure_training_open).
ClosedForGood ==
  [][training_state # "open" =>
       UNCHANGED <<vocab, merges, store, training_state>>]_allVars

\* Every event of ordinary training, resumed after the freeze or not, learns
\* the best the words offer without the frozen scalars.
LearnsTheBestLeft ==
  [][call # Idle /\ vocab' # vocab => Abs!Learn]_allVars

\* The call returns, whatever its stages find.
FallbackReturns == bbpe # NoFallback \/ call # Idle ~> Quiet

=============================================================================
