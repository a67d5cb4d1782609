------------------------------ MODULE Encoder ------------------------------
(***************************************************************************)
(* BpeEncoder (src/bpe/encoder.rs): a model is validated, and threads that *)
(* share the cache of encoded words call encode_word, encode_words and     *)
(* encode_string on it. A word is merged either alone, with a queue of the *)
(* ranks that may apply (_encode_word), or together with other words, rank *)
(* by rank (_encode_words).                                                *)
(*                                                                         *)
(* A text is a sequence of Unicode scalars. A token's content is a         *)
(* sequence of scalars or bytes: bytes only for the byte unit, both for    *)
(* the Unicode unit (Character::Unicode, Character::Byte). Token ids are   *)
(* positions in the vocabulary. A model is                                 *)
(*   [unicode, vocab, merges, special, split]                              *)
(* with merges a sequence of [pair, target], special a set of token ids    *)
(* and split the option split_on_vocab_bigrams.                            *)
(***************************************************************************)
EXTENDS BpeWords, SequencesExt

CONSTANTS
  Caller,          \* threads that share the encoder
  Utf8,            \* the bytes of every scalar
  Models,          \* models the encoder is built from
  Inputs,          \* sequences of pieces [special, text] calls are made with
  MinByteSplit,    \* MIN_BYTE_BIGRAM_SPLIT_BYTES
  MaxCalls         \* bound on the number of calls

Scalar == DOMAIN Utf8
Lead == {Utf8[s][1] : s \in Scalar}

\* A scalar is its bytes, of which the first tells that a scalar starts.
ASSUME Utf8Assumption ==
  /\ \A s \in Scalar : Utf8[s] \in Seq(Nat) /\ Utf8[s] # << >>
  /\ \A s \in Scalar : Elements(Utf8[s]) \cap Scalar = {}
  /\ \A s \in Scalar : \A i \in 2..Len(Utf8[s]) : Utf8[s][i] \notin Lead

\* A model as Model::from reads it, before it is validated. The contents of a
\* byte model are bytes.
ASSUME ModelAssumption ==
  \A m \in Models :
    /\ m.unicode \in BOOLEAN /\ m.split \in BOOLEAN
    /\ m.vocab \in Seq(Seq(Nat \cup Scalar))
    /\ m.merges \in Seq([pair : Nat \X Nat, target : Nat])
    /\ m.special \subseteq DOMAIN m.vocab
    /\ ~m.unicode => \A k \in DOMAIN m.vocab : Elements(m.vocab[k]) \cap Scalar = {}

\* Strings are made of Unicode scalars.
ASSUME InputAssumption == Inputs \subseteq Seq([special : BOOLEAN, text : Seq(Scalar)])

VARIABLES
  model,           \* the model the encoder was built from
  built,           \* what the constructor derived from it
  cache,           \* BpeEncoder.cache: text -> ids
  call,            \* what each caller is doing
  made             \* calls made so far

vars == <<model, built, cache, call, made>>

BytesOf(content) ==
  FlattenSeq([i \in DOMAIN content |->
                IF content[i] \in Scalar THEN Utf8[content[i]] ELSE <<content[i]>>])

-----------------------------------------------------------------------------
(* The model contract. *)

AllScalars(w) == w # << >> /\ Elements(w) \subseteq Scalar
AllBytes(w) == w # << >> /\ Elements(w) \cap Scalar = {}

\* from_vec_u8 reads the bytes i..j of w as a scalar: the chunk of a lead byte
\* takes every continuation byte that follows it, an ASCII byte takes none.
Decodes(w, i, j) ==
  /\ \E s \in Scalar : Utf8[s] = SubSeq(w, i, j)
  /\ i = j \/ j = Len(w) \/ w[j + 1] \in Lead

Canonical(w) ==
  \/ Elements(w) \subseteq Scalar
  \/ AllBytes(w) /\ \A i, j \in DOMAIN w : ~Decodes(w, i, j)

ValidMerge(l, r, t) ==
  \/ AllScalars(l) /\ AllScalars(r) /\ t = l \o r
  \/ /\ AllBytes(l) /\ AllBytes(r)
     /\ \/ t = l \o r /\ Canonical(t)
        \/ \E s \in Scalar : t = <<s>> /\ Utf8[s] = l \o r

\* validate_unit_model_contract: the byte unit only asks that the ids exist.
Accepted(m) ==
  /\ \A r \in DOMAIN m.merges :
       Elements(m.merges[r].pair) \cup {m.merges[r].target} \subseteq DOMAIN m.vocab
  /\ m.unicode =>
       /\ \A k \in DOMAIN m.vocab : Canonical(m.vocab[k])
       /\ \A r \in DOMAIN m.merges :
            ValidMerge(m.vocab[m.merges[r].pair[1]], m.vocab[m.merges[r].pair[2]],
                       m.vocab[m.merges[r].target])

-----------------------------------------------------------------------------
(* What the constructor derives from the model. *)

Ranks == DOMAIN model.merges
PairOf(r) == model.merges[r].pair
TargetOf(r) == model.merges[r].target
ContentOf(r) == <<model.vocab[PairOf(r)[1]], model.vocab[PairOf(r)[2]]>>

\* pre_merge_map: of two merges of one pair, the last one is kept.
RanksOf(tp) == {r \in Ranks : PairOf(r) = tp}
HasMerge(tp) == RanksOf(tp) # {}
RankOf(tp) == Max(RanksOf(tp))

\* Scalars that are rebuilt from their bytes (merge_target_requires_split).
SplitTargets ==
  {model.vocab[TargetOf(r)] : r \in
     {q \in Ranks : /\ model.unicode
                    /\ AllBytes(ContentOf(q)[1]) /\ AllBytes(ContentOf(q)[2])
                    /\ Len(model.vocab[TargetOf(q)]) = 1
                    /\ AllScalars(model.vocab[TargetOf(q)])}}

SingleIds == {k \in DOMAIN model.vocab :
                Len(model.vocab[k]) = 1 /\ model.vocab[k] \notin SplitTargets}

VocabBytes ==
  [u \in {model.vocab[k][1] : k \in SingleIds} |->
     Max({k \in SingleIds : model.vocab[k][1] = u})]

\* Every merge spells the units its operands span.
Literal ==
  \A r \in Ranks :
    BytesOf(ContentOf(r)[1]) \o BytesOf(ContentOf(r)[2]) = BytesOf(model.vocab[TargetOf(r)])

CanSplit == model.split /\ Literal

\* Mutant of CanBatch: a merge may use the target of a later one.
CanBatchInAnyOrder ==
  \A q, r \in Ranks : q # r => PairOf(q) # PairOf(r) /\ TargetOf(q) # TargetOf(r)

CanBatch ==
  /\ \A q, r \in Ranks : q # r => PairOf(q) # PairOf(r) /\ TargetOf(q) # TargetOf(r)
  /\ \A q, r \in Ranks : TargetOf(q) \in Elements(PairOf(r)) => q < r

\* Special tokens that no merge produces do not add bigrams.
Excluded == model.special \ {TargetOf(r) : r \in Ranks}

ScalarsOf(content) == SelectSeq(content, LAMBDA u : u \in Scalar)

Bigrams ==
  UNION {PairsOf(IF model.unicode THEN ScalarsOf(model.vocab[k]) ELSE model.vocab[k]) :
           k \in DOMAIN model.vocab \ Excluded}

\* The fields of the encoder: vocab_bytes, can_batch_encode and, in the
\* pre-tokenizer, the bigram index, disabled when words are not to be cut.
Built ==
  [vocab_bytes |-> VocabBytes, can_batch |-> CanBatch,
   can_split |-> CanSplit, bigrams |-> Bigrams]

-----------------------------------------------------------------------------
(* From a text to its segments, and from a segment to its initial ids. *)

CutBefore(text, i) ==
  /\ built.can_split
  /\ IF model.unicode
     THEN <<text[i - 1], text[i]>> \notin built.bigrams
     ELSE /\ Len(BytesOf(text)) >= MinByteSplit
          /\ <<Last(Utf8[text[i - 1]]), Head(Utf8[text[i]])>> \notin built.bigrams

\* What the loop of emit_vocab_bigram_segments has emitted, and goes on with,
\* at each scalar of the text.
Emitted(text) ==
  LET upto[n \in 0..Len(text)] ==
        IF n = 0 THEN << >>
        ELSE LET s == upto[n - 1]
             IN IF n = 1 \/ CutBefore(text, n) THEN Append(s, <<text[n]>>)
                ELSE Append(Front(s), Append(Last(s), text[n]))
  IN upto

Uncut(text) == \A i \in 2..Len(text) : ~CutBefore(text, i)

\* Mutant of Segments: what follows the last cut is not emitted.
SegmentsWithoutTail(text) ==
  IF Uncut(text) THEN <<text>> ELSE Front(Emitted(text)[Len(text)])

Segments(text) == IF Uncut(text) THEN <<text>> ELSE Emitted(text)[Len(text)]

\* encode_string splits the words between special tokens, the other calls
\* take each word as it is.
PiecesOf(op, input) ==
  IF op # "string" THEN input
  ELSE FlattenSeq([i \in DOMAIN input |->
         IF input[i].special THEN <<input[i]>>
         ELSE LET s == Segments(input[i].text)
              IN [k \in DOMAIN s |-> [special |-> FALSE, text |-> s[k]]]])

\* A scalar without a token of its own becomes its bytes.
UnitsOf(text) ==
  FlattenSeq([i \in DOMAIN text |->
                IF model.unicode /\ text[i] \in DOMAIN built.vocab_bytes
                THEN <<text[i]>> ELSE Utf8[text[i]]])

InVocab(text) == Elements(UnitsOf(text)) \subseteq DOMAIN built.vocab_bytes

Pretoken(text) ==
  LET units == UnitsOf(text)
  IN [i \in DOMAIN units |-> built.vocab_bytes[units[i]]] \o << >>

SpecialIds(text) == {k \in model.special : BytesOf(model.vocab[k]) = BytesOf(text)}

-----------------------------------------------------------------------------
(* Calls. pc is "idle", "pieces" (going through the pieces), "merging" (one
   word), "batch" (all missing words), "missing" (between missing words and
   while storing them), "ok" or "error". *)

Idle ==
  [pc |-> "idle", op |-> "word", input |-> << >>,
   pieces |-> << >>,    \* the words and special tokens of the input, in order
   todo |-> << >>,      \* those to go through
   encoded |-> << >>,   \* the ids of the pieces that are done
   missing |-> << >>,   \* encode_words: words that were not in the cache
   fresh |-> << >>,     \* and the ids of those that are encoded by now
   work |-> << >>,      \* the ids of the words being merged
   queue |-> {},        \* _encode_word: ranks to try
   occurs |-> << >>,    \* _encode_words: the words each rank may apply to
   rank |-> 0,          \* and the rank of this round
   result |-> << >>]

Become(c, s) == call' = [call EXCEPT ![c] = s]
Put(f, k, v) == [x \in DOMAIN f \cup {k} |-> IF x = k THEN v ELSE f[x]]
Cached(text, ids) == cache' = Put(cache, text, ids)

Init ==
  /\ model \in {m \in Models : Accepted(m)}
  /\ built = Built
  /\ cache = << >>
  /\ call = [c \in Caller |-> Idle]
  /\ made = 0

Call(c, op, input) ==
  /\ call[c].pc \in {"idle", "ok", "error"}
  /\ made < MaxCalls
  /\ op = "word" => Len(input) = 1
  /\ \A p \in Elements(input) : p.special => op = "string" /\ SpecialIds(p.text) # {}
  /\ \E pieces \in {PiecesOf(op, input)} :
       Become(c, [Idle EXCEPT !.pc = "pieces", !.op = op, !.input = input,
                              !.pieces = pieces, !.todo = pieces])
  /\ made' = made + 1
  /\ UNCHANGED <<model, built, cache>>

Failed(c) == [Idle EXCEPT !.pc = "error", !.op = call[c].op, !.input = call[c].input]

AtPiece(c) == call[c].pc = "pieces" /\ call[c].todo # << >>

\* The piece was met before in this call.
Known(c) ==
  /\ AtPiece(c)
  /\ LET p == Head(call[c].todo)
     IN p \in DOMAIN call[c].encoded \/ p.text \in Elements(call[c].missing)
  /\ Become(c, [call[c] EXCEPT !.todo = Tail(@)])
  /\ UNCHANGED <<model, built, cache, made>>

New(c) ==
  /\ AtPiece(c)
  /\ Head(call[c].todo) \notin DOMAIN call[c].encoded
  /\ Head(call[c].todo).text \notin Elements(call[c].missing)

SpecialToken(c) ==
  /\ New(c)
  /\ LET p == Head(call[c].todo)
     IN /\ p.special
        /\ Become(c, [call[c] EXCEPT !.todo = Tail(@),
                        !.encoded = Put(@, p, <<Max(SpecialIds(p.text))>>)])
  /\ UNCHANGED <<model, built, cache, made>>

Hit(c) ==
  /\ New(c)
  /\ LET p == Head(call[c].todo)
     IN /\ ~p.special
        /\ p.text \in DOMAIN cache
        /\ Become(c, [call[c] EXCEPT !.todo = Tail(@),
                                     !.encoded = Put(@, p, cache[p.text])])
  /\ UNCHANGED <<model, built, cache, made>>

Missed(c) ==
  /\ New(c)
  /\ ~Head(call[c].todo).special
  /\ Head(call[c].todo).text \notin DOMAIN cache

\* encode_words looks all words up first.
Defer(c) ==
  /\ Missed(c)
  /\ call[c].op = "words"
  /\ Become(c, [call[c] EXCEPT !.todo = Tail(@),
                               !.missing = Append(@, Head(call[c].todo).text)])
  /\ UNCHANGED <<model, built, cache, made>>

-----------------------------------------------------------------------------
(* One word: _encode_word. *)

Start(c, text) ==
  /\ \/ /\ InVocab(text)
        /\ \E ids \in {Pretoken(text)} :
             Become(c, [call[c] EXCEPT !.pc = "merging", !.work = <<ids>>,
                          !.queue = {RankOf(tp) : tp \in {q \in PairsOf(ids) : HasMerge(q)}}])
     \/ ~InVocab(text) /\ Become(c, Failed(c))
  /\ UNCHANGED <<model, built, cache, made>>

StartPiece(c) ==
  Missed(c) /\ call[c].op # "words" /\ Start(c, Head(call[c].todo).text)

StartMissing(c) ==
  /\ call[c].pc = "missing"
  /\ Len(call[c].fresh) < Len(call[c].missing)
  /\ Start(c, call[c].missing[Len(call[c].fresh) + 1])

\* Mutant of Requeued: a pair that became rarer leaves the queue, although it
\* may be left elsewhere in the word.
RequeuedUnlessRarer(queue, changes) ==
  LET known == {tp \in DOMAIN changes : HasMerge(tp)}
  IN (queue \cup {RankOf(tp) : tp \in {q \in known : changes[q] > 0}})
       \ {RankOf(tp) : tp \in {q \in known : changes[q] < 0}}

\* Pairs that became rarer keep their place: only a pair with a positive change
\* has a non-empty occurs_in, and the branch that removes one is never taken.
Requeued(queue, changes) ==
  queue \cup {RankOf(tp) : tp \in {q \in DOMAIN changes : HasMerge(q) /\ changes[q] > 0}}

\* Mutant of PopMerge: the queue is peeked at.
PeekMerge(c) ==
  /\ call[c].pc = "merging"
  /\ call[c].queue # {}
  /\ \E r \in {Min(call[c].queue)} :
       \E m \in {MergeWord(call[c].work[1], 1, PairOf(r), TargetOf(r))} :
         Become(c, [call[c] EXCEPT !.work = <<m.idxs>>, !.queue = Requeued(@, m.changes)])
  /\ UNCHANGED <<model, built, cache, made>>

PopMerge(c) ==
  /\ call[c].pc = "merging"
  /\ call[c].queue # {}
  /\ \E r \in {Min(call[c].queue)} :
       \E m \in {MergeWord(call[c].work[1], 1, PairOf(r), TargetOf(r))} :
         Become(c, [call[c] EXCEPT !.work = <<m.idxs>>,
                                   !.queue = Requeued(@ \ {r}, m.changes)])
  /\ UNCHANGED <<model, built, cache, made>>

\* encode_word_cached stores the word, encode_words goes on to the next one.
FinishWord(c) ==
  /\ call[c].pc = "merging"
  /\ call[c].queue = {}
  /\ LET ids == call[c].work[1]
     IN IF call[c].op = "words"
        THEN /\ Become(c, [call[c] EXCEPT !.pc = "missing", !.work = << >>,
                                          !.fresh = Append(@, ids)])
             /\ UNCHANGED cache
        ELSE LET p == Head(call[c].todo)
             IN /\ Become(c, [call[c] EXCEPT !.pc = "pieces", !.work = << >>,
                                !.todo = Tail(@), !.encoded = Put(@, p, ids)])
                /\ Cached(p.text, ids)
  /\ UNCHANGED <<model, built, made>>

-----------------------------------------------------------------------------
(* All missing words: _encode_words. *)

EncodeMissing(c) ==
  /\ call[c].pc = "pieces" /\ call[c].todo = << >> /\ call[c].missing # << >>
  /\ LET texts == call[c].missing
     IN \/ ~built.can_batch /\ Become(c, [call[c] EXCEPT !.pc = "missing"])
        \/ /\ built.can_batch
           /\ \E t \in Elements(texts) : ~InVocab(t)
           /\ Become(c, Failed(c))
        \/ /\ built.can_batch
           /\ \A t \in Elements(texts) : InVocab(t)
           /\ \E work \in {[i \in DOMAIN texts |-> Pretoken(texts[i])]} :
                Become(c, [call[c] EXCEPT !.pc = "batch", !.work = work, !.rank = 1,
                  !.occurs = [r \in Ranks |-> {i \in DOMAIN work : PairOf(r) \in PairsOf(work[i])}]])
  /\ UNCHANGED <<model, built, cache, made>>

\* _update_merge_map: the changes of a pair are summed over the words, and only
\* a positive sum adds the words that gained the pair.
Found(occurs, r, changes) ==
  LET Gain(i, q) == Entry(changes[i], PairOf(q))
      Gains(q) == SumFunction([i \in DOMAIN changes |-> Gain(i, q)])
  IN [q \in Ranks |->
        IF q > r /\ Gains(q) > 0
        THEN occurs[q] \cup {i \in DOMAIN changes : Gain(i, q) > 0}
        ELSE occurs[q]]

MergeRank(c) ==
  /\ call[c].pc = "batch"
  /\ call[c].rank \in Ranks
  /\ LET r == call[c].rank
     IN \E merged \in {[i \in call[c].occurs[r] |->
                           MergeWord(call[c].work[i], 1, PairOf(r), TargetOf(r))]} :
          Become(c, [call[c] EXCEPT !.rank = @ + 1,
            !.work = [i \in DOMAIN @ |-> IF i \in DOMAIN merged THEN merged[i].idxs ELSE @[i]],
            !.occurs = Found(@, r, [i \in DOMAIN merged |-> merged[i].changes])])
  /\ UNCHANGED <<model, built, cache, made>>

FinishBatch(c) ==
  /\ call[c].pc = "batch"
  /\ call[c].rank \notin Ranks
  /\ Become(c, [call[c] EXCEPT !.pc = "missing", !.fresh = call[c].work, !.work = << >>,
                               !.occurs = << >>, !.rank = 0])
  /\ UNCHANGED <<model, built, cache, made>>

\* Mutant of Stored: the ids are paired with the words of the call in order,
\* those that were in the cache included.
StoredInOrder(c) ==
  LET k == Len(call[c].missing)
  IN call[c].input[Len(call[c].input) - k + 1].text

\* The next word whose ids go to the cache.
Stored(c) == Head(call[c].missing)

\* Mutant of Store: the words advance, the ids do not.
StoreSameIds(c) ==
  /\ call[c].pc = "missing"
  /\ call[c].missing # << >>
  /\ Len(call[c].fresh) = Len(call[c].missing)
  /\ Cached(Stored(c), Head(call[c].fresh))
  /\ Become(c, [call[c] EXCEPT !.missing = Tail(@),
       !.encoded = Put(@, [special |-> FALSE, text |-> Head(call[c].missing)],
                       Head(call[c].fresh))])
  /\ UNCHANGED <<model, built, made>>

\* The words are stored one by one, and only after all of them are encoded.
Store(c) ==
  /\ call[c].pc = "missing"
  /\ call[c].missing # << >>
  /\ Len(call[c].fresh) = Len(call[c].missing)
  /\ Cached(Stored(c), Head(call[c].fresh))
  /\ Become(c, [call[c] EXCEPT !.missing = Tail(@), !.fresh = Tail(@),
       !.encoded = Put(@, [special |-> FALSE, text |-> Head(call[c].missing)],
                       Head(call[c].fresh))])
  /\ UNCHANGED <<model, built, made>>

-----------------------------------------------------------------------------
(* The end of a call: one sequence of ids for every word, or for the string. *)

Assembled(c) ==
  LET ids == [i \in DOMAIN call[c].pieces |-> call[c].encoded[call[c].pieces[i]]]
  IN IF call[c].op = "string" THEN <<FlattenSeq(ids)>> ELSE ids

Return(c) ==
  /\ call[c].pc \in {"pieces", "missing"}
  /\ call[c].todo = << >> /\ call[c].missing = << >>
  /\ \E ids \in {Assembled(c)} :
       Become(c, [Idle EXCEPT !.pc = "ok", !.op = call[c].op, !.input = call[c].input,
                              !.result = ids])
  /\ UNCHANGED <<model, built, cache, made>>

\* The cache (moka) drops entries when it likes.
Evict(text) ==
  /\ cache' = [t \in DOMAIN cache \ {text} |-> cache[t]]
  /\ UNCHANGED <<model, built, call, made>>

Work(c) ==
  \/ Known(c) \/ SpecialToken(c) \/ Hit(c) \/ Defer(c)
  \/ StartPiece(c) \/ StartMissing(c) \/ PopMerge(c) \/ FinishWord(c)
  \/ EncodeMissing(c) \/ MergeRank(c) \/ FinishBatch(c) \/ Store(c)
  \/ Return(c)

Next ==
  \/ \E c \in Caller : Work(c)
  \/ \E c \in Caller, op \in {"word", "words", "string"}, i \in Inputs : Call(c, op, i)
  \/ \E text \in DOMAIN cache : Evict(text)

\* A thread that runs is scheduled, and waits for nobody.
Spec == Init /\ [][Next]_vars /\ \A c \in Caller : WF_vars(Work(c))

-----------------------------------------------------------------------------
(* What encoding promises: of the merges that apply to a word, the one of
   lowest rank is applied everywhere, until none applies. *)

MergeStep(w) ==
  LET ranks == {RankOf(tp) : tp \in {q \in PairsOf(w) : HasMerge(q)}}
  IN IF ranks = {} THEN w
     ELSE Replaced(w, PairOf(Min(ranks)), TargetOf(Min(ranks)))

\* Every step makes a word shorter, so that there are fewer steps than units.
Encoding(start) ==
  LET merged[n \in 0..Len(start)] ==
        IF n = 0 THEN start
        ELSE LET w == merged[n - 1] \o << >>  \* a tuple, so that TLC evaluates it once
             IN MergeStep(w)
  IN merged[Len(start)]

Greedy(text) == Encoding(Pretoken(text))

IdsOf(piece) ==
  IF piece.special THEN <<Max(SpecialIds(piece.text))>> ELSE Greedy(piece.text)

\* What call c should return.
Promised(c) ==
  LET ids == [i \in DOMAIN call[c].input |-> IdsOf(call[c].input[i])]
  IN IF call[c].op = "string" THEN <<FlattenSeq(ids)>> ELSE ids

-----------------------------------------------------------------------------
(* Properties. *)

Ids == Seq(DOMAIN model.vocab)

\* Type invariant of the calls and the cache.
EncoderTypeOK ==
  /\ \A t \in DOMAIN cache : cache[t] \in Ids
  /\ \A c \in Caller :
       /\ call[c].pc \in {"idle", "pieces", "merging", "batch", "missing", "ok", "error"}
       /\ call[c].queue \subseteq Ranks
       /\ \A i \in DOMAIN call[c].work : call[c].work[i] \in Ids
       /\ Len(call[c].fresh) <= Len(call[c].missing)
       /\ call[c].pc = "batch" => Len(call[c].work) = Len(call[c].missing)

\* A call returns the ids that merging each of its words by rank gives, and it
\* fails only if a word has a unit without a token: whichever words share the
\* batch, come from the cache or were evicted meanwhile, and wherever a string
\* is cut (encode_word, encode_words, encode_string).
ResultsAreGreedy ==
  \A c \in Caller :
    /\ call[c].pc = "ok" => call[c].result = Promised(c)
    /\ call[c].pc = "error" =>
         \E p \in Elements(call[c].input) : ~p.special /\ ~InVocab(p.text)

\* The cache holds a word's own ids, whoever stored it and however it was
\* encoded (encode_word_cached, encode_words_impl).
CacheIsExact ==
  \A t \in DOMAIN cache : InVocab(t) /\ cache[t] = Greedy(t)

\* No pair that a merge applies to is forgotten: its rank is queued, or the
\* word is among those the batch will look at for it.
NothingIsLost ==
  \A c \in Caller :
    /\ call[c].pc = "merging" =>
         \A tp \in PairsOf(call[c].work[1]) : HasMerge(tp) => RankOf(tp) \in call[c].queue
    /\ call[c].pc = "batch" =>
         \A r \in Ranks, i \in DOMAIN call[c].work :
           r >= call[c].rank /\ PairOf(r) \in PairsOf(call[c].work[i])
             => i \in call[c].occurs[r]

\* Decoding what a call returned gives the bytes it was called with, if the
\* merges are literal (encode_string, then decode).
DecodesToInput ==
  \A c \in Caller :
    call[c].pc = "ok" /\ Literal =>
      LET ids == FlattenSeq(call[c].result)
      IN FlattenSeq([i \in DOMAIN ids |-> BytesOf(model.vocab[ids[i]])])
           = FlattenSeq([i \in DOMAIN call[c].input |-> BytesOf(call[c].input[i].text)])

\* Every call returns.
CallsReturn ==
  \A c \in Caller :
    call[c].pc \notin {"idle", "ok", "error"} ~> call[c].pc \in {"ok", "error"}

-----------------------------------------------------------------------------
(* What the documentation says. *)

\* README.md:43: partitioning words by the bigrams of the vocabulary "does not
\* change token ids": a string of one word gets the ids of the word.
SplitKeepsIds ==
  \A c \in Caller :
    call[c].pc = "ok" /\ call[c].op = "string" => call[c].result = Promised(c)

\* encoder.rs:89-90: a batch may visit each rank once if merges come after the
\* merges they use and define their pairs and targets uniquely. Encoding words
\* together then gives what encoding each alone gives.
BatchKeepsIds ==
  \A c \in Caller :
    call[c].pc = "ok" /\ call[c].op = "words" => call[c].result = Promised(c)

=============================================================================
