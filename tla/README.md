# Verification of unitoken

TLA+ models of unitoken (`src/`, the Rust crate and its Python binding), the TLC
configurations that check them, and TLAPS proofs about the table, the words, the
trainer, the encoder, the BBPE fallback, the prefetching source, the chunks of a
file and the model files. Paths below are relative to the repository; line numbers are in `PROJECT.json`, which maps
every definition to the code it models.

Contents: [the system](#the-system), [the plan](#the-plan),
[the modules](#the-modules), [the runs](#the-runs),
[what the runs refute](#what-the-runs-refute), [the proofs](#the-proofs),
[what is not modelled](#what-is-not-modelled).

## The system

unitoken trains byte-level and Unicode BPE tokenizers and encodes text with
them. Text flows through it in one direction:

    text -> pre-tokenizer -> counters -> word inventory -> trainer -> model
    model + text -> encoder -> ids -> decoder -> text

| component | state | operations | what makes it correct |
|---|---|---|---|
| Pre-tokenizer, chunking (`pretokenizer.rs`, `bigram.rs`) | patterns, frozen bigram sets; none that changes | split text into words and specials, find chunk boundaries in a file, count a file in parallel, select bigrams | chunks cover the file once, cut only where no word or special is cut; counting by chunk equals counting the file |
| Counters (`counter.rs`) | counts of words or bigrams | `add_text`, `add_batch`, `add_source`, `merge`, `take_counts`, `save`, `load` | each record counted once; an overflow is an error |
| Prefetching source (`py.rs`) | the batch being filled, the one in the channel, the one being counted | `add_source` with a worker thread | same outcome as without the thread; both threads end |
| Candidate table (`bpe/pair.rs`, `PairStore`) | exact frequency of every pair and unit, occurrence sets of some, the residents, an admission threshold | `insert_initial`, `add_pair`, `hydrate`, `apply_changes`, `prune`, `take_merge`, `restore_pair` | residents are exactly the pairs with an occurrence set; a pair without one can be given one at any time |
| Frontier (`bpe/trainer.rs`, heap functions) | a heap of candidates with stale ones in it, a cutoff | push, pop, rebuild | the candidate handed out is the best of the whole table |
| Word rewriting (`bpe/utils.rs`) | none | `merge_word`, `_merge` | the left-to-right replacement, and exactly the change of every pair's count |
| Trainer (`bpe/trainer.rs`) | inventory, vocabulary, merges, the table and its frontier, training state | `add_words`, `init_training`, `step`, `train_until`, BBPE fallback, `validate_model` | what it learns is what textbook BPE learns; the model validates; calls return |
| Encoder (`bpe/encoder.rs`) | a cache of encoded words | encode a word, a batch, a string, a file; decode | one word, a batch and the cache give the same ids; `decode` inverts `encode` |
| Model files (`spec/`) | none | format, parse | parsing inverts formatting |
| Command line (`main.rs`) | files | pretokenize, train, encode | a run that is interrupted is not mistaken for one that ended |
| Binding (`py.rs`, `python/`) | none of its own | conversions around the above | |

How they interact: the trainer owns a `PairStore` and a heap and calls both on
every event; the words it rewrites produce the frequency changes the table
applies, and the table decides which pairs are pushed to the heap and which
occurrence sets are kept. Everything in the trainer happens in calls on
`&mut self`; the threads of Rayon inside a call only compute sums. Real
interleavings exist in the prefetching source (two threads and a channel), in
the encoder's cache, and between processes that share files.

What is hard in this code is seldom concurrency. It is state that is kept
lazily or twice: heap entries older than the table, occurrence sets that are
supersets, pairs that have no occurrence set, residents listed next to the
handles they describe, a cutoff that stands for everything that is not in the
heap, and a winner taken out of the table that may have to go back. Each of
these is right only together with the others, over sequences of merges that no
test writes down. The hazards in `PROJECT.json` name the lines.

## The plan

1. `PairStore`, `PairStoreSpec`: table and frontier under arbitrary counts and
   changes. *Done, with proofs.*
2. `BpeWords`, `BpeTrainer`, `BpeAbstract`: the same operations driven by real
   words; refinement of the textbook algorithm. *Done.*
3. `SourcePrefetch`, `Encoder`: batches, the worker thread and counter overflow;
   the encoding of words, batches and strings by threads that share the cache.
   *Done.*
4. `BbpeFallback`, composed with `BpeTrainer` and `Encoder`: freezing, the
   fallback trainer, resumed training, the composition of the merge streams, the
   finalised and poisoned states, `validate_model`. *Done.*
5. `Chunks`: chunk boundaries, counting and encoding by chunk, bigram selection.
   *Done.*
6. `ModelFiles`: the files of the command line and of the binding, their formats,
   with crashes between two writes. *Done.*
7. A table that is only a function from keys to frequencies, and `PairStoreSpec`
   shown to implement it. *Open.*

Theorems worth proving, in this order: type correctness, the frontier,
the winner, residency of the table (*done*); that a run of `ModelFiles` trains on
stored counts only, and that a closed trainer stays closed (*done*); what the scan
of `merge_word` computes, that the trainer's table is exact, and that training
implements `BpeAbstract` (*done*); the prefetching source's batches and its error
precedence (*done*); the encoder's queue, batch and cache, decoding and cutting
(*done*); that what is saved loads and nothing mixed does (*done*); that the chunks
are the file, with its documents and its words, and that bigram selection is fair
(*done*); ordinary training inside a fallback call, and that its target is filled
(*done*); that what it composes validates, and the refinement of 7 (*open*).

## The modules

**PairStore** has the state of `PairStore` and of the frontier in `BpeTrainer`:
`store` (pairs and units with content, frequency and, where they hold a handle,
the occurrence set), `residents`, `threshold` (`admission_threshold`), `heap`
and `cutoff` (`merge_heap`, `merge_heap_cutoff`), `merge` (the `Merge` between
`_get_largest_merge` and its consumer) and `phase`. `Window = 0` is exact mode.
Each operation of the code is one action:

| action | code |
|---|---|
| `Build` | `_build_pre_merges`: reset, count, rank, first hydration |
| `Search`, `PopStale`, `Select`, `Refill`, `GiveUp` | the loop of `_get_largest_merge`, one iteration each; `Select` includes the hydration of a cold winner and `take_merge` |
| `ApplyChanges` | `update_pre_merges`: `apply_changes`, the pushes, the prune |
| `ApplyUnit` | `_step` with an initial unit |
| `Decline` | `restore_pair` and the push after it in `train_until` |

The table keeps a pair at frequency zero, as the code does. The heap is a set:
a duplicate of a popped candidate is stale, or equal to it. Where candidates
tie under the tie-break, any choice of the last places of a ranking is allowed;
the code orders them by hash or key, which nothing should depend on. The
conditions under which the code panics (a threshold that is not set, a cold
winner that is not ranked, the removed frequency) are guards, and an invariant
of the runs says that the guard never stops anything.

**PairStoreSpec** drives these actions with any counts and any changes.
**PairStoreProofs** proves theorems about it.

**BpeWords** has words as sequences of units, pair counts, `merge_word` as the
scan it is (`ScanStep`), the tie-breaks, and the replacement `Replaced` it is
compared with. Vocabulary ids are positive; a Unicode scalar that is still
`CharIdx::Char` is negative, which is how `CharIdx` orders them.

**BpeTrainer** instantiates `PairStore` over the words: `Counted` and
`Occurrences` are what counting and scanning the inventory give, `MergeChanges`
what rewriting the words of the winner's occurrence set gives. Its actions are
the calls (`AddWords`, `InitTraining`, `TrainUntil`, `Step`) and the iterations
of the loops inside them; `call` says which call runs. Counting and merging in
parallel gives sums that do not depend on the split, and is one definition
with the sequential version. Ids are positions in the vocabulary, starting at
1. `step` before `init_training` on new words is left out (`ready`): both users
of `step` in the repository initialise first. `frozen` is empty except in a
fallback call.

**BpeAbstract** is BPE training without a table: the best of everything the
words offer is learned and replaced everywhere.

**Characters** has contents as bytes and back: `ToBytes`, and `FromBytes` with the
chunks of `_try_combine` (a lead byte takes the continuation bytes after it; a
chunk that is no scalar stays bytes).

**BbpeFallback** extends BpeTrainer with `train_until_with_bbpe_fallback`. `bbpe`
holds the stage of the call, its target and the slots of the fallback:

| stage | action | code |
|---|---|---|
| - | `StartPrimary`, `SkipPrimary` | the checks at the entry, then `train_until` with the primary share of the target, or only the table when that share is empty |
| primary | `Freeze` | `freeze_unmaterialized_initial_units`, and the byte trainer over their bytes |
| fallback | `FallbackLearns`, `FallbackDone` | `train_bbpe_fallback`, event by event |
| fallback | `Resume` | `train_until` for the places that are left, with frozen scalars |
| resume | `Compose` | `compose_bbpe_fallback`, then finalised, or poisoned |
| any | `TrainingFails` | ordinary training ran out: poisoned |

The byte trainer is a `BpeTrainer` in exact mode and is modelled by what
`BpeAbstract` promises, which `trainer_exact` shows it keeps. Ordinary training
inside the call is the actions of BpeTrainer (`Iterate`). `Validates` is
`validate_model`; `FinishedModel` is the model of the encoder that `finish`
builds, and `Encoder` is instantiated with it.

**SourcePrefetch** has the caller (`Pull`, `PullLast`, `Leave`, `CountHere`,
`SendFails`, `Return`) and the worker (`Receive`, `Count`, `Finish`) of
`add_source`. A send on a channel of capacity 0 and its receive are one step.
A record is its size, its words, and what happens to it: it may make the
iterator raise, the pre-tokenizer fail, or the worker panic. Merging a batch
into the counter may stop at any word that overflows. What the call should do is
told without batches in flight: `EndOf(i)` is where the batch that starts at
record i ends, and `From[i][c]` what counting batch after batch from there, on
the counts `c`, may end in.

**Encoder** has `BpeEncoder`: a `model` that passes `validate_unit_model_contract`,
what the constructor derives from it (`built`: `vocab_bytes`, `can_batch_encode`,
the bigram index and whether it may cut words), the `cache` all threads share,
and for every thread the `call` it is in. Reading the cache, encoding and
inserting are separate steps, as in the code, which holds no lock:

| action | code |
|---|---|
| `Call` | `encode_word`, `encode_words`, `encode_string`; a string is cut into words, at special tokens and at bigrams the vocabulary does not have |
| `Known`, `Hit`, `SpecialToken`, `Defer` | the next piece is a repeat, in the cache, a special token, or put aside by `encode_words` |
| `StartPiece`, `StartMissing`, `PopMerge`, `FinishWord` | `_encode_word` with its queue of ranks, one merge per step |
| `EncodeMissing`, `MergeRank`, `FinishBatch` | `_encode_words`, one rank per step |
| `Store`, `Return` | the insertion of each missing word, and the result in the order of the input |
| `Evict` | the cache (moka, external) drops an entry |

A text is a sequence of scalars, `Utf8` gives their bytes, and a byte model
works on the bytes. Words are merged with `MergeWord` of `BpeWords`, as the code
shares `merge_word` with the trainer. `Greedy` is what encoding a word should
give: the merge of lowest rank everywhere, until none applies.

**Chunks** cuts a file and puts the results of the chunks together. One module
serves the three users of the boundaries: word counts, bigram counts and
`encode_file` (where the pieces stand for their ids).

| action | code |
|---|---|
| `Search` | `_file_contains`, one window per step, with the bytes kept of the last |
| `AlignToToken` | `_align_eot_boundaries`, one window per step |
| `AlignToText` | `_align_line_boundary`, `_align_utf8_boundary` |
| `Cut` | the set of boundaries, and the chunks between them |
| `ReadChunk(k)` | read, decode lossily, pretokenize; in any order |
| `Join(p, q)` | the reduction, for results of neighbouring chunks |
| `Finish` | the counts, the ids in order, or `select_unicode_bigrams` |

Decoding is by maximal parts of a scalar, as `from_utf8_lossy` does. Words are
those of `DEFAULT_PAT` over three kinds of characters: letters, blanks, others.
A job has no empty special token (`JobsAssumption`): one would match everywhere.
`LinesKeepWords` asks that no special token has a newline in it, for a cut after
that newline would divide the token.

**ModelFiles** is a process at a time over three files, and what it does with
them. `run.pc` names the next step of `bpe_train`, or of `save` in the binding:

| action | code |
|---|---|
| `StartTrain`, `ReuseWords`, `CountWords`, `StoreWords` | `_pretokenize`: the words file is used if it is there, and else created and written |
| `Learn` | training, given by `Trained`, and the choice of the format |
| `Save` | `save` of the binding, which validates first |
| `CreateVocab`, `CreateMerges`, `Validate`, `WriteVocab`, `WriteMerges`, `Finish` | `_bpe_save_train` in its order; the binding opens the merges after the vocabulary is written |
| `Crash` | the process is killed; what was written stays |
| `ReplaceInput` | the user puts another corpus at the path |
| `Load` | `BpeBuilder` on both files |

A vocabulary is whole or torn (torn JSON is an error whatever it holds); the
merges are cut at any string that `writeln!` writes. Printing and parsing are
`Printed`, `Unprinted` and `Fields`, character by character where the format
treats a character apart: the space, the open box it is printed as, braces,
blanks, and bytes that are no scalar. `ValidModel` is what `validate_model` accepts,
and `TrainedAssumption` says that a model given as valid is.

Operators marked as a mutant are plausible bugs of the definition after them
and are used by no specification; each property is checked against one.

## The runs

| run | configuration | what it asks |
|---|---|---|
| `store_hot` | `MCPairStoreHot.cfg` | do frontier, winner, residency, refill and termination hold for any counts and changes? |
| `trainer_exact` | `MCTrainerExact.cfg` | does the winner remove what was counted for it, and is the textbook algorithm implemented in exact mode? |
| `trainer_hot` | `MCTrainerHot.cfg` | the same with a window of one pair, a cutoff and a replaced inventory; are frequencies, occurrence sets, window and threshold right? |
| `fallback` | `MCBbpeFallback.cfg` | does the composed model validate, fill its target and encode as training split; does a closed trainer stay closed, and does the call return? |
| `prefetch` | `MCSourcePrefetch.cfg` | is the outcome of `add_source` that of counting batch by batch, and do both threads end? |
| `encoder` | `MCEncoder.cfg` | do one word, a batch, a string and the cache give the same ids, the greedy ones, and does decoding give the text back? |
| `chunks` | `MCChunks.cfg` | does a file in chunks give what the file gives in one piece, and is bigram selection fair? |
| `model_files` | `MCModelFiles.cfg` | does a saved model load as it was, does an interrupted run leave nothing that is taken for a model or for counts? |
| `encoder_split`, `encoder_batch`, `signed_frequencies`, `model_files_wide` | `MCEncoderFragments.cfg`, `MCEncoderMalformed.cfg`, `MCTrainerSigned.cfg`, `MCModelFilesWide.cfg` | see [below](#what-the-runs-refute) |

Bounds, and why they are enough:

- `store_hot`: the four pairs of two ids (so that admission has pairs with and
  without the new id), one initial unit, counts 1 and 2, frequencies 0 to 2,
  changes by one, `Window = 1`. While one pair is merged the other three compete
  for one place, and together they are the `2K + 1` residents that force a prune:
  the mutant of `ResidencyAgrees` changes what a prune releases. A gain of one
  reaches a threshold of 1 and not one of 2; ties and zero frequencies occur, and
  a pair that was merged may come back. Larger steps and counts of zero are left
  to the proofs, which bound neither. Occurrence sets are empty here: the table
  only needs to know who has one.
- `trainer_exact`: two words over two bytes, of up to 5 and 2 units, with
  frequency 1 or 2: runs such as `aaaaa`, pairs shared by words, ties, stale
  occurrence sets; three merges after the two bytes, automatically (`train_until`
  to two targets) and by `step`, and automatic training resumed in between.
- `trainer_hot`: three words chosen to share a pair and to offer many pairs of
  one frequency, `Window = 1`, cutoff 2, five merges: cold winners, refills,
  admissions, prunes and declined pairs all occur (the mutants show that they
  matter). One call of `add_words` (`MaxAdds`) replaces the inventory after any
  prefix of training.
- `fallback`: three scalars beside one ASCII byte, a special token and four bytes;
  two share their first two bytes, the third has another lead byte and the last
  byte of the first, so that merges of the fallback are shared, compete, and
  complete a scalar. `Window = 1` and cutoff 2; shares of nothing, a third and
  two thirds of the target, targets the inventory fills and targets it does not.
  With this alphabet a byte outside ASCII is either a lead or a continuation
  byte. The run also trains without a fallback, so that initial units compete
  with pairs in bounded mode.
- `prefetch`: up to four records of six kinds, batches of two records or three
  bytes, two words that overflow after 3, a fresh counter and a used one. Four
  records give three batches: one counted, one offered, one being filled.
- `encoder`: two threads and two calls (`MaxCalls`), so that calls overlap and a
  call meets what an earlier one left in the cache; a third adds a mixture of
  the same. Byte models over two bytes with chains of merges, merges that
  compete for a unit, merges listed before the ones they use, a target with two
  merges and a pair merged twice (so that batching is allowed in some and not in
  others); Unicode models with a scalar that is rebuilt from its bytes, split on
  bigrams or not. Texts overlap with the pairs (`aaab`, `ababa`), repeat words
  and mix words with special tokens; one text has a word that can be encoded and
  one that cannot, whichever model it meets, so that `encode_words` also fails
  after a hit and after words it had merged already. `MinByteSplit = 3` stands for 32, so that
  there are words on both sides of it.
- `chunks`: `Window = 3` stands for 4096 and the end-of-text token has two bytes,
  so that a token lies in one window, across two, in the last and at either end
  of a chunk; files of up to four pieces with two or three chunks, or a chunk
  size of two bytes. A second special token overlaps with the first. Bigrams of
  two scalars with every `topK` up to 2 and `minFreq` up to 2; truncated scalars
  and stray continuation bytes for `utf8` and `line`.
- `model_files`: byte and Unicode models in both formats, from the command line and
  from Python, on three corpora, one of which gives a model that does not
  validate. Tokens hold a letter, a space, a newline, a brace, the open box
  (alone and next to a space), bytes of an unfinished scalar, a scalar completed
  by a merge, and a special token. The number of runs, crashes and loads is not
  bounded: the files have finitely many contents.
- Numbers: `MaxVocab` bounds calls of `step`; frequencies are mathematical
  integers except in the counters, where `MaxFreq` stands for `i64::MAX`. The
  trainer adds without a check; an inventory whose weighted pair counts exceed
  64 bits is out of scope.

Fairness: a call on `&mut self` runs on one thread to its end, hence weak
fairness of the loop (`WF_vars(Loop)`, and of each branch of the search loop in
`PairStoreSpec`, and `FallbackLoop` for the stages of a fallback call); nothing
says that a caller calls again. In `SourcePrefetch`
each thread has weak fairness of its own: threads that can run are scheduled,
and the iterator is assumed to answer. In `Encoder` each thread's call has weak
fairness: a call waits for nobody, since the cache is never locked across steps.

Deadlock is checked except where the system stops: `prefetch` (one call), the
encoder's runs (`MaxCalls`) and `fallback` (a closed trainer). A trainer that
reached `MaxVocab` can still be initialised. A finished job of `Chunks` stutters
(`Done`), so that deadlock freedom says that every job gets done.

What holds, in short: in exact and in bounded mode the trainer learns what the
textbook algorithm learns (`LearnsTheBest`), although in bounded mode most
candidates are not in the heap and most pairs have no occurrence set; the
assertions of `_step`, `hydrate`, `apply_changes` and `debug_assert_residency`
never fail for positive frequencies; after a merge at most `2K` pairs are
resident, and `3K` while a refill waits for the next prune; merges get rarer in
rank order, so that checking the last one against the cutoff is enough. A call
of the encoder gives the same ids whatever else runs, and the cache never holds
another word's ids, for models whose merges spell what they join; a queue from
which nothing is ever removed loses no merge.

A composed model always validates: the duplicates and missing dependencies that
`compose_bbpe_fallback` checks for never occur when a `BpeTrainer` produced both
streams, and only running out of candidates poisons a trainer. Sorting two
streams by frequency keeps every dependency in front of its consumer, because
each stream is sorted and no merge of one uses an output of the other; an encoder
made from the result splits the training words as training did. A file cut at
its end-of-text tokens gives what it gives in one piece, provided no other
special token takes part of that token; a file cut after newlines keeps every
word that is not blank, provided no special token has a newline in it. What a run of the command line leaves behind when it is
killed either does not load or loads as a prefix of one model's merges with that
model's vocabulary, and a torn words file is never trained on (each later run
panics until it is deleted).

## What the runs refute

- `signed_frequencies`. Frequencies are signed, and a test of the trainer
  (`test_hot_pair_window_matches_exact_with_signed_frequencies`) uses a negative
  one. A word of negative frequency never enters an occurrence set through a
  change (`utils.rs:219` asks for a positive one), so that its pair is merged
  without it and the assertion at `trainer.rs:1190` fails. Two words suffice:
  `abc` at 5 and `abcd` at -2.
- `encoder_split`. `README.md:42-43` and `encoder.rs:217` say that cutting words
  at bigrams the vocabulary does not have keeps the token ids. The Unicode
  bigram index leaves out byte units, and a Unicode model may merge the last
  byte of one scalar with the first of the next: with such a merge
  `encode_string` returns other ids than `encode_word`.
- `encoder_batch`. The comment at `encoder.rs:89` lists what `_encode_words`
  needs, and a test expects the ids of `encode_word` for a merge (a, b) -> z
  that does not spell what it joins. A pair whose changes cancel over the batch
  is skipped (`utils.rs:327`) although one word gained it. With (a, b) -> z and
  (z, a) -> w, `aba` and `zab` in one batch lose the second merge of `aba`.
- `model_files_wide`. The unitoken format escapes what is below `!` and 0x7f
  (`unitoken.rs:148`), but prints every other scalar as it is, Unicode blanks
  included. The two operands of a merge are separated by a space and read with
  `split_whitespace` (`unitoken.rs:77`): a model with a merge of an ideographic
  space is saved and does not load. README.md:36-38 saves a trained model and
  loads it; `test_unicode_trainer_saves_only_loadable_merge_dependencies` says
  that what is saved is loadable. The runs of `model_files` are without such
  tokens.

## The proofs

| module | about | rests on |
|---|---|---|
| `PairStoreProofs` | the table and the frontier, under any counts and changes | library theorems |
| `BpeWordsProofs` | least elements, induction on numbers, finite sets and sequences, sums over functions; then what rewriting a word, and an inventory of words, computes | library theorems |
| `BpeTrainerProofs` | the trainer: invariant, assertions, refinement of `BpeAbstract` | the two above |
| `SourcePrefetchProofs` | `add_source` with and without the worker | `BpeWordsProofs` |
| `EncoderProofs` | the encoder: cache, queue and batch, decoding, cutting at bigrams | `BpeWordsProofs` |
| `ChunksProofs` | cutting a file, and what is made of its chunks | `BpeWordsProofs` |
| `ModelFilesProofs` | the words file of the command line, and the model files in every format | `BpeWordsProofs` |
| `BbpeFallbackProofs` | the fallback call: closed trainers, training without the frozen scalars, the target | `BpeTrainerProofs` |

### The table

`PairStoreProofs` proves for every set of ids, pairs, units and contents, every
window, every tie-break that is a strict weak order, and any counts and changes:

| theorem | property |
|---|---|
| `TypeCorrect` | `StoreTypeOK` |
| `FrontierIsCorrect` | `FrontierCovers` and `FrontierAboveCutoff` |
| `WinnerIsExact` | `WinnerIsGlobal` |
| `NoneIsHonest` | `NoneMeansExhausted` |
| `ColdWinnerIsInRefill` | `ColdWinnerIsRanked` if no two pairs ever tie |
| `ResidencyIsCorrect` | `ResidencyAgrees` |
| `WindowBoundsResidents` | at most `3 * Window` residents if no two pairs ever tie |

Assumptions: `KeyAssumption` (pairs and units are different keys),
`WindowAssumption` (a natural number), `NoneAssumption` (`None` is no value),
`TieAssumption` (strict weak order), `FreqAssumption` (integers). `TableAssumptions`
in `BpeTrainerProofs` proves all of them of the table inside the trainer, both
tie-breaks included.

The argument. That the winner is the best of the table is not inductive: it
needs to know what the heap leaves out. `FrontierInv` adds to it that exact mode
has no cutoff, that every live candidate is in the heap under its current
frequency or not above the cutoff, and that nothing in the heap is below the
cutoff. A popped candidate that is current then beats the heap because it was
popped and the rest through the cutoff (`PoppedIsBest`, which needs that "not
below" is transitive: `LessSplits`). A push keeps it because a skipped candidate
is below the cutoff (`PushKeepsFrontier`); a rebuild because a selection's last
candidate separates what it kept from what it left (`RebuildCovers`). `None`
is honest because an empty heap without a cutoff covers only an empty table,
and a rebuild that ends empty had nothing to rank. Residency is inductive with
type correctness; it holds through hydration, admission and pruning because
each changes handles and residents by the same set of pairs.

Two theorems need that pairs do not tie: among pairs that do, a selection may leave
the winner out, or admit more than the window.

### Words

`BpeWordsProofs` proves, for words of any length over any units:

| theorem | what it says |
|---|---|
| `MergeWordReplaces` | the scan of `merge_word` writes what replacing the pair from left to right gives |
| `ChangesAreExact` | the changes it reports are, for every pair, the difference of the counts before and after, runs such as `aaaa` included |
| `MergedInventory` | over an inventory and any complete occurrence set, the rewriting removes the pair, leaves tokens in place of tokens, changes every other sum by what was reported, and makes no pair more frequent than the merged one was |

`Scan` and `Replaced` are recursive functions over one word, so each fact about them
is an induction on positions. The library's induction theorems take an operator
and are of no use to the provers; the first part of `BpeWordsProofs` states induction over a *set* of
numbers instead (`NatInd`: a set that has 0 and with every number its successor
has all of them; `Least`; `SubsetInd` for finite sets), which the provers
instantiate like any first-order fact. That a recursive function exists at all is
an induction too. `Replaced` is first shown to satisfy its recursion
(`Rewrites`), then compared with the scan by an invariant of the loop: the output
so far and the replacement of the rest make up the replacement of the word, and
the recorded changes are those of the prefix. The last pair that `merge_word`
carries (`last_tp`) is what makes the seam between the two exact.

The last part is about segments of words and what they spell. It works with an
algebra of four operators (`Cons`, `Cat` and the replacement with its start) whose
laws are proved once from sequences (`ConsAlgebra`), so that inductions on the length
of a word (`SeqInd`) are first-order.

### The trainer

`BpeTrainerProofs` proves for any alphabet, window, tie-break, cutoff, targets and
sequence of calls, for inventories of positive frequencies:

| theorem | property |
|---|---|
| `Invariant` | the inductive invariant `Inv` |
| `TypeCorrect` | `TypeOK` |
| `FrequenciesAreExact` | `FrequenciesExact` |
| `HandlesAreComplete` | `OccurrencesComplete` |
| `AssertionHolds` | `SelectedFreqIsRemoved` |
| `ThresholdIsThere` | `ThresholdIsSet` |
| `UnitsComeFirst` | `UnitsBeforePairs` |
| `FinalIsRarest` | `FinalMergeIsRarest`, if the inventory is not replaced |
| `TrainingLearnsTheBest` | `LearnsTheBest`: initial states of `BpeAbstract`, and every step one of its steps or a stutter |
| `TableIsDriven` | every step is one that `PairStoreSpec` allows, or leaves the table alone |
| `NoTwinsInTable`, `TiesAreSplit` | two live pairs are never spelled alike; no two of them tie, under either tie-break |
| `ColdWinnerIsInRefill`, `WindowBoundsResidents` | `ColdWinnerIsRanked`, `WindowIsBounded` |

Hypotheses, and why the code justifies them:

- `PositiveInventories`: words are of scalars and of base tokens that have a
  content, with frequencies above zero. Counters only hold positive counts. For a
  negative one `AssertionHolds` is false (`signed_frequencies`).
- `TrainerAssumption`, the constants' own: scalars are negative, the base
  vocabulary is a sequence of contents, the window is a natural number.
- `MaxAdds = 0` for `FinalIsRarest`: after `add_words` other words may well be more
  frequent.
- `SplitsTies` for `TiesAreSplit` and the last two (`SpelledInventories` for
  `NoTwinsInTable`): the tie-break is by ids, or the words are cut into single bytes
  or scalars, no two spelled alike, as `_words_to_tokens` cuts them. Two ids may have
  one content all the same: after `add_words`, `a|bc` and `ab|c` may both be learned.
  Only one of them can then be in words.
- `IsFiniteSet(Unit)`, so that the number of residents is one.

The argument. None of the properties is inductive, and they need each other.
`SelectedFreqIsRemoved` needs that the winner's occurrence set is complete
(`OccInv`) and its frequency the true one (`FreqInv`); the frequencies stay true
because `MergedInventory` makes the changes of a complete set exact; sets stay
complete because a word that gains a pair is in `occ` of its change, and a pair
without a set gets one from a scan. A pair that is admitted without a scan must
therefore be new: it has the new id, which no word had (`Tokens`), so that its
change covers all its words. `HandleInv` says that in bounded mode only live pairs
hold a handle and in exact mode all do, which is what makes hydration
unnecessary there; `ThresholdInv` that a threshold can only be missing while no
pair is live. `KeysInv` and `WordsInv` keep keys, contents and words within the
tokens that exist, `FrontierInv` and `ResidencyAgrees` come from the table, whose
lemmas are used on each step (`Same...` lemmas say that the trainer's instance of
the table and the proved one are the same operators). `RarestInv` carries
`FinalMergeIsRarest`: no pair of the words is more frequent than any merge so far,
which `MergedInventory` keeps.

`NoTwins` is proved from what words are like, for it is not kept by a merge as it
stands. `WordsApart` says that segments of words (of one or of two) that are spelled
alike are cut alike. It holds of words cut into single letters. A merge keeps it:
the segment of a rewritten word is the rewriting of a segment of the word
(`ReplacedSegment`), spelled as that one is, since the new token is spelled like its
pair (`ReplacedSpells`); so two that are spelled alike rewrite segments that are cut
alike, and are cut alike themselves. A live pair is a segment of some word, so two
with the same contents are one. With that the order of candidates is total on live
pairs, which the table's `ColdWinner` and `WindowStep` need.

`LearnsTheBest` follows: a selected candidate is the best of the table
(`WinnerIsGlobal`), the table is the words (`FreqInv`), so it is the best event
of the words; and rewriting the words of its occurrence set is rewriting all.

### The prefetching source

`SourcePrefetchProofs` proves for any source, words, limits, counts and both values
of `prefetch`, under `BatchAssumption` and `RecordAssumption` (sizes and counts are
natural numbers): `PrefetchInvariant`, `LookaheadBound` (`LookaheadIsBounded`) and
`SequentialOutcome` (`OutcomeIsSequential`).

The argument is about what may still become of the call. `MayGoOn(c, i)`: whatever
sequential counting from record i on the counts `c` may end in is an outcome of
the call. It holds at the start for record 1 and the counts before, by
definition; counting a batch keeps it for the record behind the batch, since
`From` unfolds once per batch (`FromIs`, an induction on the records that are
left); and when nothing is left to count, what the counter holds is an outcome.
`CountsInv` says for which record it holds at present: the one that is offered, the
one behind what the worker counts, or the first that was not handed over.
`CallerInv` ties the caller's batches to those that `EndOf` cuts: filled greedily,
a batch is handed over exactly when it cannot take the next record. A worker that
failed has ended in an outcome, whatever the caller runs into meanwhile; that
`JoinResult` asks the worker first is what the last step needs.

### The encoder

`EncoderProofs` is about any number of threads and calls, any inputs, any models and
any `Utf8`, under `Utf8Assumption` (a scalar's bytes are not empty, and continuation
bytes are no lead bytes), `ModelAssumption` (a model has the types that reading one
gives, and a byte model has bytes for contents) and `InputAssumption`. Every theorem
has one more hypothesis, `JoiningModels`: a merge of an accepted byte model makes a
token of two bytes or more that is none of its operands. Trained models do; for
Unicode models the contract that `validate_unit_model_contract` checks implies what
is needed, so that nothing is asked of them. For byte models this contract checks
the ids alone, and the run `encoder_batch` shows that without the hypothesis
`BatchKeepsIds` is false.

| theorem | property |
|---|---|
| `EncoderInvariance` | the inductive invariant `EncoderInv` |
| `EncoderTypes` | `EncoderTypeOK` |
| `CacheExact` | `CacheIsExact` |
| `RanksKept` | `NothingIsLost` |
| `BatchIsGreedy` | `BatchKeepsIds` |
| `DecodingInverts` | `DecodesToInput` |
| `ResultsGreedy` | `ResultsAreGreedy`, if no Unicode model is split on bigrams (`ScalarsAreUncut`) |

`ResultsAreGreedy` alone is not inductive: it says nothing of a call in progress.
`EncoderInv` says of every call, at each `pc`, what it has done. While pieces are
gathered (`Gathered`), each is still to come, has its ids, or is among the missing
words. While one word is merged (`MergingOK`), the word that is left has the
encoding of the text (`Encoding` is what the reference makes of any word it comes
through, `EncodingIs`), and every rank that applies is queued; a queued rank that
no longer applies changes nothing. In a batch (`BatchOK`), the pairs of the ranks
that are done occur in no word, the targets of the others occur in none yet, and
the words each may apply to are known.

That the last part survives a rank is where `JoiningModels` and `can_batch` are
used. A merge only makes pairs with its target, which is in no word before. So no
change of such a pair is negative, the changes of different words cannot cancel,
and a pair that `_update_merge_map` drops was gained by no word (`Finds`); and a
merge never makes a pair of a lower rank, since it uses no later target. In a
queue the same holds because the lowest rank is taken: `RankMerge` and
`QueuedMerge` rest on `MergeWordReplaces` and `ChangesAreExact` of
`BpeWordsProofs`. The text of a step's word is the same at the start and at the
end, so that what goes to the cache does not depend on which call stores it, and
`Evict` disturbs nothing.

`DecodingInverts` maps a sequence unit by unit to bytes (`Mapped`). Units have the
bytes of the scalars (`UnitsAre`), the first tokens those of the units
(`UnitTokenIs`), and a literal merge keeps the bytes of a word (`MergeDecodes`, by
`ReplacedMaps`), so that merging to the end keeps them (`EncodingDecodes`). Pieces of
a string are its text (`SegmentsAre`, `PartsKeepBytes`).

`ResultsGreedy` adds that cutting keeps the ids. A byte model is cut only if its
merges are literal, and where the two bytes that meet are no bigram. Two words
that meet like this are `Separated`: a merge that joined them would have the bigram
in its target's content, which is in the index, even if the target is a special
token (`MergesJoinBigrams`). A merge inside one of them keeps its bytes, and with
them its ends, so that they stay separated to the end and are encoded as if each
stood alone (`EncodingCat`). `CutsKeep` then goes over the text scalar by scalar. The
index of a Unicode model has pairs of scalars only, which is why the argument, and
`SplitKeepsIds` in the run `encoder_split`, fail there.

### The files of a model

`ModelFilesProofs` proves `InterruptedCountsAreUnused` (`TrainsOnStoredCounts`) for any
corpora, models, formats and setups, under `ModelFilesAssumption` and
`CharactersAssumption`. The property only speaks of runs that hold counts; its
strengthening `WordsFileInv` says at each step what the run knows of the words
file: nothing before it counted, that the file is torn and its own while it
stores, that the file is whole afterwards. `RunGoesOn` serves every step that
leaves the file alone.

It also proves `NothingIsMixed` (`NoMixtureLoads`) and `SavesCanBeLoaded`
(`SavedModelLoads`), with two more hypotheses. `TrainedAssumption`: a valid model has
what `validate_model` checks. `Printable`: no merge of a valid model has an operand
that is printed with a blank in it (`ClearIn`; always so in the gpt2 format, and in
the unitoken format but for the Unicode blanks above 0x7f). Without it the theorems
are false, as `model_files_wide` shows.

The invariant is `ModelInv`: the words file, what the run works with (`RunInv`), what
has been written (`FilesInv`) and what was loaded (`LoadedInv`). `FilesInv` is what a
crash leaves: wherever a whole vocabulary stands, it is that of a model that could be
saved, and the merges file holds the pieces that `writeln!` wrote before some other
pieces of the same model (`WrittenOf`), from none of them to all. That an old
vocabulary never meets new merges is the order of the two `File::create`, the
validation and the writes. The rest is what the formats do:

- A unit is parsed as what it was printed for, and it has a blank only where
  `Printable` says (`PrintedFacts`, `ShownFacts`); bytes and the scalars they form
  are printed apart from each other, so that reading keeps them (`ReadingKeepsBytes`).
- What was written of the merges are whole lines, or whole lines and some strings of
  the next (`Splits`: `WholeOnly` and `WithPart`). A line, with or without its end,
  has two fields, and fewer strings of it have one, which is an error
  (`PartialFields`, `TextLines`, `WrittenLoads`).
- The builder looks up both operands and their join in the vocabulary. For the first
  lines of a valid model it finds them, under the ids they had: every content has
  one id (`IdOfContent`, `LoadsFirst`).

### The chunks of a file

`ChunksProofs` is about any jobs, any file, valid UTF-8 or not, any `Utf8` that satisfies
`ChunksAssumption` (no scalar's bytes begin with another's, none begins with a
continuation byte, a newline is one byte), any letters, bigram sets, windows and
special tokens:

| theorem | property |
|---|---|
| `CutsKeepTheFile` | `ChunksAreTheFile` |
| `DocumentsAreKept` | `DocumentsStayWhole` |
| `LinesAreKept` | `LinesKeepWords` |
| `TiesAreKept` | `SelectionIsFair` |

Decoding, splitting at special tokens and cutting into words all read a sequence from
left to right: they look at what is left, write something and go on some steps
further. Each is a recursive function on positions; `Reads` and `ReadsAs` treat them
alike, and every fact about them is one induction on the length of what is left
(`SeqInd`).

Where the cuts are is `CutInv`. `BoundariesInv` says that a boundary that was aligned is
where the token stands, or where the bytes may be divided (`Divides`); `SearchInv` that
the bytes searched so far do not have the token, with the bytes kept of each window for
one that lies across two; `CutsInv` that the chunks are the pieces between the sorted
boundaries. `Divides` names the four reasons for which no scalar is cut: an end of
the file, a byte that begins a scalar, a newline before it, or four continuation
bytes before it, which is more than any scalar has (`DividesCleanly`). Lossy
decoding of two parts that are divided so (`Clean`) is the decoding of the whole,
also where bytes are invalid: a maximal part of a scalar ends there either way. That
gives `CutsKeepTheFile`.

What is made of the chunks is `PartsInv`: a part is what its chunks list, in their
order, counted or joined. Adding bags forgets the order, so that any order of the
reduction gives the same. The other theorems compare this with what the file lists.

- `DocumentsAreKept`. Leftmost matching may find a special token across a cut. The
  precondition (`TokenIsSpecial`) counts: as many end-of-text tokens were split off as
  occur. Since occurrences and marks of a text are those of what is before a position
  and of the rest (`MetParts`), and marks are never more than occurrences, equality in
  the whole is equality at each position: at the cut a special token begins, and
  nothing read before it reached over it. Splitting therefore starts afresh there.
- `LinesAreKept`. The newline at the end of a line ends the words and the special tokens
  that begin in it: words that are not blank because only a space may stand at their
  front (`LineWord`), tokens because they have no newline (`TokenInLine`). Runs of
  blanks reach over the end of a line in the file and not in a chunk, and may be cut
  otherwise; they are not counted, and in front of a word all but the last blank make
  no difference to it (`BlanksLead`), so that the words of lines and of what follows
  are those of both (`LineWords`). Without
  the precondition the theorem is false: with a special token of `x`, newline, `y`,
  the file `axnyb` (n a newline) has the words `a` and `b`, and cut after the newline
  `ax` and `yb`.
- `TiesAreKept`. The ranking puts the bigrams with fewer than `topK` more frequent ones
  in front of all others, in whatever order ties are ranked; the one at `topK` has the
  cutoff's frequency, and those kept are all that are not below it.

### The fallback call

`BbpeFallbackProofs` is about any words, alphabet, `Utf8`, window, tie-break, cutoff,
targets and shares, under the assumptions of `BpeTrainer`, `Characters` and
`BbpeFallback` (the bytes of every scalar have tokens, a share is below 1) and, but for
the first theorem, `PositiveInventories`:

| theorem | property |
|---|---|
| `ClosedTrainerIsClosed` | `ClosedForGood` |
| `CallsInvariant` | the inductive invariant `CallsInv` |
| `BestIsLearned` | `LearnsTheBestLeft` |
| `TargetIsFilled` | `FillsTarget` |
| `FallbackMakes` | `TypeOK`, `UnitsBeforePairs`, `FinalMergeIsRarest`, and `RespectsCutoff` once it is composed |
| `FallbackOperandsAreKnown` | `UnitsBeforePairs` |
| `FallbackFinalMergeIsRarest` | `FinalMergeIsRarest` |

Only calls are guarded by `ensure_training_open`, the iterations of a call are not.
`ClosedInv` says why they need no guard: a trainer is closed at the very end of a
call, and outside of a call the search for a winner is at rest.

While a trainer is open, `CallsInv` has four parts. `TableInv`: outside the stage of the
byte trainer the invariant `Inv` of the trainer holds, whose frequencies are those
without the frozen scalars (`KeyFreq`, `KeptOut`). `Freeze` breaks it, for the table still
has what was frozen; what is left is `Sound`, and it is enough for `BuildTable`, which
counts anew (`BuildStep`): without the rebuild of `Resume`, `BestIsLearned` fails.
`ByteInv`: the words of the byte trainer are made of its tokens, and nothing they
offer is more frequent than what it learned (by `MergedInventory`, as in the trainer).
`ShareInv`: a byte trainer is new until the call needs it and keeps to its share
(`ShareOfPlaces`). `TargetInv`: the target of the training call is what the stage has to
leave to the next, and a stage that ended below it found nothing that reaches the
cutoff (`NothingLeft`: the pair it declined was the best there was). `FillsTarget` is then a sum: the places of the primary stage, of the byte
trainer and of the resumed stage are the target. That a frozen scalar is in the table
with what it counts in the words (`UnitsInv`, `Frozen`) makes the byte words an
inventory of positive frequencies.

`FallbackMakes` follows the trainer over the composition. `Composed` is a recursive
function on two positions; `ComposedShuffles` shows, by induction on what is left of both
lists, that it has every merge of each once and in its order (`Shuffled`), and that it
descends if both do. The bytes of a merge's content are read chunk by chunk
(`Reads`), so that what is appended to the vocabulary has its type (`ContentsFit`), and if
nothing is missing, `Converted` finds every operand before the merge's own entry
(`ConvertedIs`). What ordinary training learned inside a call is not below the cutoff
(`CutoffInv`), nor is the byte trainer's part (`ByteInv`). Only the step into `Compose`
needs all of this: an open trainer has it from `CallsInv` (`OpenMade`), and a closed one
no longer moves (`ClosedStutters`), which is why the invariant is `ClosedMade`.

### Model-checked only

Liveness (`SearchEnds`, `CallsReturn`, `AddSourceReturns`, `FallbackReturns`, that a
job of `Chunks` ends): the provers have no ENABLED and no fairness. What the fallback
composes (`ComposedValidates`, `EncodesAsTrained`). Of the encoder,
only that a Unicode model whose strings are cut returns what it should where no
merge joins two scalars' bytes (`ResultsAreGreedy` of the Unicode models of the
run `encoder` with `split`).

## What is not modelled

Left out because nothing in them changes state or orders steps: conversions of
the binding, argument parsing, plotting, statistics, metrics, benchmarks and
scripts; regular expressions other than `DEFAULT_PAT`, whose contractions and
digits are other characters here. The slab that stores occurrence sets is a field
of the table's entry. The observer of `_step_with_observer` is used by
benchmarks only. The certificate of `BpeTrainerConfig` that bounds the cutoff from
below is a check of the arguments.

Left out of otherwise modelled components: `merge`, `save`, `load` and
`take_counts` of the counters; a cache the caller filled (`with_cache`), which the
encoder trusts; a merge whose target is an operand of its own pair; the width of
ids; sums beyond 64 bits in the trainer and in `get_words_from_file`, which add
without a check.

Known from reading, and true of the models as well, but not stated as properties
because the repository does not promise otherwise:

- Cutting at lines or at scalars may change the counts of blank runs, and cuts
  words where no newline lies within 4096 bytes; `encoder.rs:783` speaks of chunks
  aligned to the end-of-text token, and `auto` falls back to lines without one.
- The words file of the command line is named after the input only: a run on
  another input of that name, or with other special tokens, uses the old counts.
  `TrainsOnStoredCounts` says that it trains on what is stored, not on the input.
- Special tokens are inferred on loading as the entries before the first of one
  unit; a special token of one unit is not recognised. `SavedModelLoads` is about
  models whose special tokens can be inferred.
- `save` of the binding writes the vocabulary before it opens the merges file: after
  a crash between the two, a new vocabulary stands next to old merges and may
  load. `NoMixtureLoads` is about the command line, which empties both first.
- Runs of several processes over the same files are not protected from each other.
- `prune_hot_occurrences` ranks the resident pairs only, so that the window is not
  always the exact top `K` of the table; `WinnerIsGlobal` shows that nothing but the
  number of hydration scans depends on it. `add_words` replaces the inventory.
