----------------------------- MODULE ModelFiles -----------------------------
(***************************************************************************)
(* From a corpus to the files of a model and back: the train and encode    *)
(* commands of src/main.rs, and the saving and loading of the Python       *)
(* package (src/py.rs, python/uni_tokenizer), which write the same two     *)
(* files in another order. The formats are those of src/spec; a model is   *)
(* loaded by BpeBuilder of src/bpe/encoder.rs. A process may be killed at  *)
(* any step, and what it had written stays. Runs follow one another: no    *)
(* file is locked, and nothing is promised to runs at the same time.       *)
(*                                                                         *)
(* A model is [vocab, merges, specials, valid]: the contents by id, the    *)
(* contents of the operands and the target id of each merge, how many      *)
(* special tokens come first, and what validate_model says. A file of      *)
(* merges is a sequence of printed characters; an escape such as {xe4} or  *)
(* {u000a} counts as one, for the braces of a token are escaped as well.   *)
(***************************************************************************)
EXTENDS Characters

CONSTANTS
  Blank,           \* scalars that end a word for split_whitespace, Space and
                   \* Newline among them
  Space, Newline,
  Escaped,         \* blanks below '!' but the space, and other controls
  OpenBox,         \* the scalar a space is printed as
  Braces,
  Corpora,
  Setups,          \* [tool, unit, format]: who saves, "cli" or "python", models
                   \* of which unit and in which format
  Trained,         \* Trained[unit][corpus] is the model that training gives
  None

ASSUME ModelFilesAssumption ==
  /\ {Space, Newline} \subseteq Blank /\ Newline \in Escaped /\ Space \notin Escaped
  /\ Escaped \cup Blank \cup Braces \cup {OpenBox} \subseteq Scalar
  /\ OpenBox \notin Blank
  /\ \A s \in Setups : DOMAIN Trained[s.unit] = Corpora

\* A content is bytes, or what its bytes are read as.
IsContent(unit, content) ==
  IF unit = "byte" THEN content \in Seq(Byte)
  ELSE content \in Seq(Char) /\ FromBytes(ToBytes(content)) = content

\* canonical_merged_content
Joined(unit, l, r) ==
  IF unit = "byte" THEN l \o r ELSE FromBytes(ToBytes(l) \o ToBytes(r))

\* validate_model: every content once, and each merge joins two of the initial
\* tokens and the targets before it to another. (With an empty operand it would
\* be no other.)
ValidModel(unit, model) ==
  LET vocab == model.vocab
      merges == model.merges
      Before(r) ==
        {vocab[k] : k \in DOMAIN vocab \ {merges[q].target : q \in r..Len(merges)}}
  IN /\ vocab \in Seq(Seq(Char))
     /\ \A k \in DOMAIN vocab : IsContent(unit, vocab[k])
     /\ \A k, l \in DOMAIN vocab : vocab[k] = vocab[l] => k = l
     /\ merges \in Seq([left : Seq(Char), right : Seq(Char), target : DOMAIN vocab])
     /\ \A r \in DOMAIN merges :
          /\ {merges[r].left, merges[r].right} \subseteq Before(r) \ {<< >>}
          /\ vocab[merges[r].target] = Joined(unit, merges[r].left, merges[r].right)
          /\ \A q \in 1..r - 1 : merges[q].target # merges[r].target

ASSUME TrainedAssumption ==
  \A s \in Setups : \A c \in Corpora :
    Trained[s.unit][c].valid => ValidModel(s.unit, Trained[s.unit][c])

VARIABLES
  input,           \* the corpus at the input path
  setup,           \* what the user works with
  wordsFile,       \* _words.json: None or [corpus, whole]
  vocabFile,       \* None or [entries, whole]: printed contents in id order
  mergesFile,      \* None or the printed characters
  run,             \* the process
  saved,           \* the model that the last completed save wrote
  loaded           \* what the last load gave: None, an error, or an encoder

files == <<wordsFile, vocabFile, mergesFile>>
vars == <<input, setup, files, run, saved, loaded>>

-----------------------------------------------------------------------------
(* Printing and parsing contents. *)

Raw(s) == <<"raw", s>>

\* Mutant of Printed: an open box is printed as it is, like a space.
PrintedWithOpenBox(u) ==
  IF u \notin Scalar THEN <<"x", u>>
  ELSE IF u = Space THEN Raw(OpenBox)
  ELSE IF u \in Braces \cup Escaped THEN <<"u", u>>
  ELSE Raw(u)

\* _display_char
Printed(u) ==
  IF u \notin Scalar THEN <<"x", u>>
  ELSE IF u = Space THEN Raw(OpenBox)
  ELSE IF u \in {OpenBox} \cup Braces \cup Escaped THEN <<"u", u>>
  ELSE Raw(u)

\* _parse_str
Unprinted(p) == IF p = Raw(OpenBox) THEN Space ELSE p[2]

\* word_display. The table of the GPT-2 format has a character for every byte,
\* none of them a blank.
Display(content) ==
  IF setup.format = "gpt2" THEN [i \in DOMAIN content |-> <<"gpt2", content[i]>>]
  ELSE LET units == IF setup.unit = "byte" THEN FromBytes(content) ELSE content
       IN [i \in DOMAIN units |-> Printed(units[i])]

\* word_parse, then CharSplit::to_vec_u8: the builder keeps bytes.
ParsedBytes(printed) ==
  IF setup.format = "gpt2" THEN [i \in DOMAIN printed |-> printed[i][2]]
  ELSE ToBytes([i \in DOMAIN printed |-> Unprinted(printed[i])])

\* C::from_vec_u8
ContentOf(bytes) == IF setup.unit = "byte" THEN bytes ELSE FromBytes(bytes)

-----------------------------------------------------------------------------
(* The two files. *)

\* encode_vocab
VocabEntries(model) ==
  [k \in DOMAIN model.vocab |-> Display(model.vocab[k])]

Arrow == <<"freq", 0>>   \* " => " and the frequency, which the builder drops

\* What writeln! writes for one merge, string by string.
MergePieces(merge) ==
  << Display(merge.left), <<Raw(Space)>>, Display(merge.right),
     <<Arrow>>, <<Raw(Newline)>> >>

AllPieces(model) ==
  FlattenSeq([r \in DOMAIN model.merges |-> MergePieces(model.merges[r])])

\* The maximal runs of s without a separator: lines, and words of a line.
Fields(s, Separators) ==
  LET inside == {i \in DOMAIN s : s[i] \notin Separators}
      starts == InOrder({i \in inside : i - 1 \notin inside})
      ends == InOrder({i \in inside : i + 1 \notin inside})
  IN [k \in DOMAIN starts |-> SubSeq(s, starts[k], ends[k])]

Blanks == {Raw(s) : s \in Blank}

\* decode_merges_raw: the words of each line that is not blank.
RawMerges(text) ==
  LET lines == Fields(text, {Raw(Newline)})
      kept == InOrder({i \in DOMAIN lines : Fields(lines[i], Blanks) # << >>})
  IN [k \in DOMAIN kept |-> Fields(lines[kept[k]], Blanks \cup {Arrow})]

-----------------------------------------------------------------------------
(* BpeBuilder. *)

Failure == [vocab |-> None, merges |-> None, specials |-> None]

\* The id of a content: of two that are the same, the last.
IdIn(vocab, content) == Max({k \in DOMAIN vocab : vocab[k] = content})

\* get_special_tokens_from_vocab: the contents before the first of one unit.
Inferred(vocab) ==
  Max({n \in 0..Len(vocab) : \A k \in 1..n : Len(vocab[k]) > 1})

\* load_merges_file, load_vocab_file and build. A line of merges has two words.
Loads(vocabText, mergesText) ==
  LET words == RawMerges(mergesText)
      raw == [i \in DOMAIN words |-> <<ParsedBytes(words[i][1]), ParsedBytes(words[i][2])>>]
      vocab == [k \in DOMAIN vocabText.entries |->
                  ContentOf(ParsedBytes(vocabText.entries[k]))]
      Contents(m) == [left |-> ContentOf(m[1]), right |-> ContentOf(m[2]),
                      both |-> ContentOf(m[1] \o m[2])]
      Known(c) == {c.left, c.right, c.both} \subseteq Elements(vocab)
  IN IF ~vocabText.whole \/ \E i \in DOMAIN words : Len(words[i]) # 2 THEN Failure
     ELSE IF \E r \in DOMAIN raw : ~Known(Contents(raw[r])) THEN Failure
     ELSE [vocab |-> vocab,
           merges |-> [r \in DOMAIN raw |->
             LET c == Contents(raw[r])
             IN [left |-> c.left, right |-> c.right, target |-> IdIn(vocab, c.both)]],
           specials |-> Inferred(vocab)]

-----------------------------------------------------------------------------
(* The runs. *)

Idle == [pc |-> "idle", counts |-> None, model |-> None, pieces |-> << >>]

Init ==
  /\ input \in Corpora
  /\ setup \in Setups
  /\ wordsFile = None /\ vocabFile = None /\ mergesFile = None
  /\ run = Idle
  /\ saved = None
  /\ loaded = None

Step(from, next) == run.pc = from /\ run' = next

\* The user puts another corpus where the input was.
ReplaceInput(c) ==
  /\ run.pc = "idle"
  /\ input' = c
  /\ UNCHANGED <<setup, files, run, saved, loaded>>

StartTrain ==
  /\ setup.tool = "cli"
  /\ Step("idle", [Idle EXCEPT !.pc = "counting"])
  /\ UNCHANGED <<input, setup, files, saved, loaded>>

\* Mutant of ReuseWords: what there is of the file is used.
ReuseTornWords ==
  /\ wordsFile # None
  /\ Step("counting", [run EXCEPT !.pc = "training", !.counts = wordsFile.corpus])
  /\ UNCHANGED <<input, setup, files, saved, loaded>>

\* _pretokenize takes the words file if there is one, whatever was counted; a
\* file that is not whole is no JSON, and the run panics.
ReuseWords ==
  /\ wordsFile # None
  /\ Step("counting", IF wordsFile.whole
                      THEN [run EXCEPT !.pc = "training", !.counts = wordsFile.corpus]
                      ELSE Idle)
  /\ UNCHANGED <<input, setup, files, saved, loaded>>

CountWords ==
  /\ wordsFile = None
  /\ Step("counting", [run EXCEPT !.pc = "storing", !.counts = input])
  /\ wordsFile' = [corpus |-> input, whole |-> FALSE]
  /\ UNCHANGED <<input, setup, vocabFile, mergesFile, saved, loaded>>

StoreWords ==
  /\ Step("storing", [run EXCEPT !.pc = "training"])
  /\ wordsFile' = [wordsFile EXCEPT !.whole = TRUE]
  /\ UNCHANGED <<input, setup, vocabFile, mergesFile, saved, loaded>>

\* There is no GPT-2 format of Unicode models.
Supported == setup.format = "unitoken" \/ setup.unit = "byte"

\* Training, and then the choice of the format.
Learn ==
  /\ Step("training",
          IF Supported
          THEN [run EXCEPT !.pc = "create vocab", !.model = Trained[setup.unit][run.counts]]
          ELSE Idle)
  /\ UNCHANGED <<input, setup, files, saved, loaded>>

\* Python validates before it opens a file.
Save(c) ==
  /\ setup.tool = "python"
  /\ Supported
  /\ Trained[setup.unit][c].valid
  /\ Step("idle", [Idle EXCEPT !.pc = "create vocab", !.counts = c,
                               !.model = Trained[setup.unit][c]])
  /\ UNCHANGED <<input, setup, files, saved, loaded>>

CreateVocab ==
  /\ Step("create vocab",
          [run EXCEPT !.pc = IF setup.tool = "cli" THEN "create merges" ELSE "vocab"])
  /\ vocabFile' = [entries |-> << >>, whole |-> FALSE]
  /\ saved' = None
  /\ loaded' = None
  /\ UNCHANGED <<input, setup, wordsFile, mergesFile>>

\* Mutant of CreateMerges: the file is opened, and keeps what was in it.
OpenMerges ==
  /\ Step("create merges",
          IF setup.tool = "cli" THEN [run EXCEPT !.pc = "validate"]
          ELSE [run EXCEPT !.pc = "merges", !.pieces = AllPieces(run.model)])
  /\ mergesFile' = IF mergesFile = None THEN << >> ELSE mergesFile
  /\ UNCHANGED <<input, setup, wordsFile, vocabFile, saved, loaded>>

CreateMerges ==
  /\ Step("create merges",
          IF setup.tool = "cli" THEN [run EXCEPT !.pc = "validate"]
          ELSE [run EXCEPT !.pc = "merges", !.pieces = AllPieces(run.model)])
  /\ mergesFile' = << >>
  /\ UNCHANGED <<input, setup, wordsFile, vocabFile, saved, loaded>>

\* The command line validates when both files are empty already.
Validate ==
  /\ Step("validate", IF run.model.valid THEN [run EXCEPT !.pc = "vocab"] ELSE Idle)
  /\ UNCHANGED <<input, setup, files, saved, loaded>>

WriteVocab ==
  /\ Step("vocab",
          IF setup.tool = "cli"
          THEN [run EXCEPT !.pc = "merges", !.pieces = AllPieces(run.model)]
          ELSE [run EXCEPT !.pc = "create merges"])
  /\ vocabFile' = [entries |-> VocabEntries(run.model), whole |-> TRUE]
  /\ UNCHANGED <<input, setup, wordsFile, mergesFile, saved, loaded>>

WriteMerges ==
  /\ run.pieces # << >>
  /\ Step("merges", [run EXCEPT !.pieces = Tail(@)])
  /\ mergesFile' = mergesFile \o Head(run.pieces)
  /\ UNCHANGED <<input, setup, wordsFile, vocabFile, saved, loaded>>

Finish ==
  /\ run.pieces = << >>
  /\ Step("merges", Idle)
  /\ saved' = run.model
  /\ UNCHANGED <<input, setup, files, loaded>>

\* The process is killed.
Crash ==
  /\ run.pc # "idle"
  /\ run' = Idle
  /\ UNCHANGED <<input, setup, files, saved, loaded>>

\* The encode command and BpeEncoder.load; the unit and the format are given
\* again, the special tokens are not.
Load ==
  /\ run.pc = "idle"
  /\ vocabFile # None /\ mergesFile # None
  /\ loaded' = Loads(vocabFile, mergesFile)
  /\ UNCHANGED <<input, setup, files, run, saved>>

Next ==
  \/ \E c \in Corpora : ReplaceInput(c) \/ Save(c)
  \/ StartTrain \/ ReuseWords \/ CountWords \/ StoreWords \/ Learn
  \/ CreateVocab \/ CreateMerges \/ Validate \/ WriteVocab \/ WriteMerges \/ Finish
  \/ Crash \/ Load

Spec == Init /\ [][Next]_vars

-----------------------------------------------------------------------------
(* Properties. *)

\* The special tokens can be told from the vocabulary: they are longer than one
\* unit, and what follows them is not.
Inferable(model) == Inferred(model.vocab) = model.specials

AsSaved(model) ==
  [vocab |-> model.vocab, merges |-> model.merges, specials |-> model.specials]

\* A model whose save was completed loads, and is the model that was saved:
\* its tokens, its merges in their order with their targets, and its special
\* tokens, in both formats, whatever an earlier run left behind (encode_vocab,
\* encode_merges, decode_merges_raw, BpeBuilder::build).
SavedModelLoads ==
  saved # None /\ loaded # None /\ Inferable(saved) => loaded = AsSaved(saved)

\* Whenever the train command was killed, what loads is one model's vocabulary
\* with the first of that model's merges: never tokens of one training run with
\* merges of another (_bpe_save_train).
NoMixtureLoads ==
  setup.tool = "cli" /\ loaded \notin {None, Failure} =>
    \E c \in Corpora :
      LET model == AsSaved(Trained[setup.unit][c])
      IN loaded.vocab = model.vocab /\ IsPrefix(loaded.merges, model.merges)

\* A run trains on counts that are complete and that every later run will find
\* in the words file, as long as the file is left alone; an interrupted count
\* is never trained on (_pretokenize).
TrainsOnStoredCounts ==
  setup.tool = "cli" /\ run.counts # None /\ run.pc # "storing" =>
    wordsFile = [corpus |-> run.counts, whole |-> TRUE]

=============================================================================
