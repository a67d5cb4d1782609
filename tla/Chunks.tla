------------------------------- MODULE Chunks -------------------------------
(***************************************************************************)
(* A file is cut into chunks, the chunks are pretokenized in parallel and  *)
(* their results are put together (src/pretokenizer.rs): word counts       *)
(* (get_words_from_file_with_options), Unicode bigrams                     *)
(* (build_unicode_bigram_selection_from_file_with_options), or, for        *)
(* encode_file_impl in src/bpe/encoder.rs, the pieces whose ids are joined *)
(* in the order of the file.                                               *)
(*                                                                         *)
(* A scalar is a name with the bytes Utf8 gives it; a file is a sequence   *)
(* of bytes and a text one of scalars. A job is                            *)
(*   [op, file, hint, boundary, special, topK, minFreq]                    *)
(* with op "words", "ids" or "bigrams", hint [by, n] (a number of chunks   *)
(* or a size), boundary "auto", "eot", "line" or "utf8", and special the   *)
(* list of special tokens, as texts. Offsets count bytes from 0, as the    *)
(* code does.                                                              *)
(***************************************************************************)
EXTENDS BpeWords, SequencesExt, Bags

CONSTANTS
  Utf8,            \* the bytes of every scalar
  Script,          \* scalars of scripts written without spaces
  Letters,         \* scalars \p{L} matches, those of Script among them
  Space, Newline,  \* the blanks: the pattern treats the space apart
  Replacement,     \* U+FFFD, which lossy decoding puts for invalid bytes
  EndOfText,       \* PreTokenizer.end_of_text, a text
  Kept,            \* PreTokenizer.unicode_bigrams, or None
  Mixed,           \* unicode_bigram_mixed_boundary, "keep" or "split"
  None,
  Window,          \* mini_chunk_size, 4096 in the code
  Jobs

Scalars == DOMAIN Utf8
Continuation == UNION {Elements(Tail(Utf8[s])) : s \in Scalars}

IsText(t) == t \in Seq(Scalars) \ {<< >>}

\* No scalar's bytes begin with those of another, and a newline is one byte.
ASSUME ChunksAssumption ==
  /\ Window \in Nat \ {0}
  /\ {Space, Newline} \cup Letters \subseteq Scalars /\ Script \subseteq Letters
  /\ {Space, Newline} \cap Letters = {} /\ Space # Newline
  /\ IsText(EndOfText)
  /\ \A s \in Scalars :
       /\ Utf8[s] \in Seq(Elements(Utf8[s])) /\ Len(Utf8[s]) \in 1..4
       /\ Head(Utf8[s]) \notin Continuation
       /\ \A t \in Scalars : s # t => ~IsPrefix(Utf8[s], Utf8[t])
  /\ Len(Utf8[Newline]) = 1

\* (An empty special token would be found everywhere.)
ASSUME JobsAssumption ==
  \A j \in Jobs :
    /\ j.op \in {"words", "ids", "bigrams"}
    /\ j.boundary \in {"auto", "eot", "line", "utf8"}
    /\ j.file \in Seq(Elements(j.file))
    /\ j.hint.by \in {"count", "size"} /\ j.hint.n \in Nat
    /\ j.special \in Seq(Seq(Scalars)) /\ \A t \in DOMAIN j.special : IsText(j.special[t])
    /\ j.topK \in Nat /\ j.minFreq \in Int

VARIABLES
  job,
  phase,           \* "searching", "aligning", "reading", "done"
  offset,          \* how far the file was searched for the end-of-text token,
                   \* or where the search for the current boundary stands
  overlap,         \* the last bytes of the windows searched before
  boundaries,
  at,              \* the boundary being aligned
  byToken,         \* the boundaries are aligned to the end-of-text token
  chunks,          \* the chunks [from, to] of the file
  parts,           \* results [first, last, value] of runs of chunks
  result

vars == <<job, phase, offset, overlap, boundaries, at, byToken, chunks, parts, result>>

Bytes(text) == FlattenSeq([i \in DOMAIN text |-> Utf8[text[i]]])

\* File::read of up to n bytes at an offset.
Read(file, from, n) == SubSeq(file, from + 1, Min({from + n, Len(file)}))

\* Where needle occurs in a sequence of bytes or scalars.
Occurrences(needle, s) ==
  {p \in 0..Len(s) - Len(needle) : SubSeq(s, p + 1, p + Len(needle)) = needle}

-----------------------------------------------------------------------------
(* Decoding and pretokenizing. *)

\* How many bytes at position i begin some scalar.
Matching(bytes, i) ==
  Max({k \in 0..Len(bytes) - i + 1 :
         k = 0 \/ \E s \in Scalars : IsPrefix(SubSeq(bytes, i, i + k - 1), Utf8[s])})

\* String::from_utf8_lossy: a maximal part of a scalar, or a byte no scalar
\* begins with, is replaced.
Lossy(bytes) ==
  LET from[i \in 1..Len(bytes) + 1] ==
        IF i = Len(bytes) + 1 THEN << >>
        ELSE LET k == Matching(bytes, i)
                 found == {s \in Scalars : Utf8[s] = SubSeq(bytes, i, i + k - 1)}
             IN <<IF found = {} THEN Replacement ELSE CHOOSE s \in found : TRUE>>
                  \o from[i + Max({k, 1})]
  IN from[1]

Kind(s) ==
  IF s \in Letters THEN "letter" ELSE IF s \in {Space, Newline} THEN "blank" ELSE "other"

\* DEFAULT_PAT at position i: a run of one kind, with a space before it; a run
\* of blanks leaves its last one to the word after it.
WordEnd(text, i) ==
  LET head == IF /\ text[i] = Space
                 /\ i < Len(text)
                 /\ Kind(text[i + 1]) # "blank" THEN i + 1 ELSE i
      run == Max({j \in head..Len(text) :
                    \A k \in head..j : Kind(text[k]) = Kind(text[head])})
  IN IF Kind(text[head]) # "blank" \/ run \in {Len(text), head} THEN run ELSE run - 1

\* should_split_unicode_bigram_mixed_boundary
CutsBigram(l, r) ==
  /\ Kept # None
  /\ <<l, r>> \notin Kept
  /\ \/ l \in Script /\ r \in Script
     \/ Mixed = "split" /\ (l \in Script) # (r \in Script)

\* for_each_unicode_bigram_segment
SegmentsOf(word) ==
  LET starts == InOrder({1} \cup {i \in 2..Len(word) : CutsBigram(word[i - 1], word[i])})
  IN [k \in DOMAIN starts |->
        SubSeq(word, starts[k], IF k = Len(starts) THEN Len(word) ELSE starts[k + 1] - 1)]

WordsOf(text) ==
  LET from[i \in 1..Len(text) + 1] ==
        IF i = Len(text) + 1 THEN << >>
        ELSE LET end == WordEnd(text, i)
             IN SegmentsOf(SubSeq(text, i, end)) \o from[end + 1]
  IN from[1]

\* The special tokens that match at position i.
MatchesAt(text, special, i) ==
  {t \in DOMAIN special : i - 1 \in Occurrences(special[t], text)}

\* split_special_tokens: [special, text] in the order of the text. Of the
\* tokens that match at the leftmost position, the first of the list counts;
\* what is before it is ordinary text.
SplitSpecial(text, special) ==
  LET Starts(i) == {j \in i..Len(text) : MatchesAt(text, special, j) # {}}
      from[i \in 1..Len(text) + 1] ==
        LET next == Min(Starts(i) \cup {Len(text) + 1})
            token == special[Min(MatchesAt(text, special, i))]
        IN IF i = Len(text) + 1 THEN << >>
           ELSE IF next = i THEN <<[special |-> TRUE, text |-> token]>> \o from[i + Len(token)]
           ELSE <<[special |-> FALSE, text |-> SubSeq(text, i, next - 1)]>> \o from[next]
  IN from[1]

\* for_each_piece
PiecesOf(text, special) ==
  LET split == SplitSpecial(text, special)
      Words(w) == [k \in DOMAIN w |-> [special |-> FALSE, text |-> w[k]]]
  IN FlattenSeq([i \in DOMAIN split |->
       IF split[i].special THEN <<split[i]>> ELSE Words(WordsOf(split[i].text))])

\* count_unicode_bigrams, as a sequence of bigrams.
BigramsOf(text) ==
  FlattenSeq([i \in 1..Len(text) - 1 |->
    IF Elements(PairAt(text, i)) \subseteq Script THEN <<PairAt(text, i)>> ELSE << >>])

\* The texts of the pieces that are not special.
Ordinary(pieces) ==
  FlattenSeq([i \in DOMAIN pieces |->
    IF pieces[i].special THEN << >> ELSE <<pieces[i].text>>])

\* What is counted in a text, or the pieces.
Listed(j, text) ==
  CASE j.op = "words" -> Ordinary(PiecesOf(text, j.special))
    [] j.op = "ids" -> PiecesOf(text, j.special)
    [] j.op = "bigrams" ->
         LET regular == Ordinary(SplitSpecial(text, j.special))
         IN FlattenSeq([i \in DOMAIN regular |-> BigramsOf(regular[i])])

\* What is made of some bytes of the file: counts as a bag, or the pieces.
ValueOf(j, bytes) ==
  IF j.op = "ids" THEN Listed(j, Lossy(bytes)) ELSE ToBag(Listed(j, Lossy(bytes)))

-----------------------------------------------------------------------------
(* Cutting the file. *)

\* ChunkOptions::chunk_count
ChunkCount(hint, size) ==
  IF hint.by = "count" THEN Max({hint.n, 1})
  ELSE IF hint.n = 0 \/ size = 0 THEN 1 ELSE (size + hint.n - 1) \div hint.n

ChunkSize(hint, size) ==
  IF hint.by = "count" THEN size \div ChunkCount(hint, size) ELSE hint.n

Evenly(j) ==
  LET size == Len(j.file)
      n == ChunkCount(j.hint, size)
  IN [i \in 1..n + 1 |-> IF i = n + 1 THEN size ELSE ChunkSize(j.hint, size) * (i - 1)]

Whole(j) == <<0, Len(j.file)>>

Init ==
  /\ job \in Jobs
  /\ LET one == ChunkCount(job.hint, Len(job.file)) <= 1 \/ job.file = << >>
     IN /\ boundaries = IF one THEN Whole(job) ELSE Evenly(job)
        /\ phase = IF ~one /\ job.boundary \in {"auto", "eot"}
                   THEN "searching" ELSE "aligning"
  /\ at = 2
  /\ offset = 0
  /\ overlap = << >>
  /\ byToken = FALSE
  /\ chunks = << >>
  /\ parts = {}
  /\ result = None

\* Where the token is searched: the window, after what was kept of the others.
Searched == overlap \o Read(job.file, offset, Window)

\* Mutant of LastBytes: nothing is kept.
NoLastBytes(s) == << >>

\* As many bytes as a token that is cut by the end of the window may have there.
LastBytes(s) ==
  LET n == Min({Len(Bytes(EndOfText)) - 1, Len(s)})
  IN SubSeq(s, Len(s) - n + 1, Len(s))

\* _file_contains, window by window. Without the token, "eot" leaves the file
\* in one piece and "auto" cuts it at lines.
Search ==
  /\ phase = "searching"
  /\ \/ /\ Read(job.file, offset, Window) # << >>
        /\ IF Occurrences(Bytes(EndOfText), Searched) # {}
           THEN phase' = "aligning" /\ byToken' = TRUE /\ offset' = boundaries[2]
           ELSE offset' = offset + Window /\ UNCHANGED <<phase, byToken>>
        /\ overlap' = LastBytes(Searched)
        /\ UNCHANGED boundaries
     \/ /\ Read(job.file, offset, Window) = << >>
        /\ phase' = "aligning"
        /\ offset' = boundaries[2]
        /\ boundaries' = IF job.boundary = "eot" THEN Whole(job) ELSE boundaries
        /\ UNCHANGED <<overlap, byToken>>
  /\ UNCHANGED <<job, at, chunks, parts, result>>

Interior == at < Len(boundaries)

\* The boundary is settled; the search for the next one starts there.
Settle(position) ==
  /\ boundaries' = [boundaries EXCEPT ![at] = position]
  /\ at' = at + 1
  /\ offset' = boundaries[at + 1]

\* _align_eot_boundaries: the boundary moves to the next token that lies in one
\* window, or to the end of the file when a window is not full.
AlignToToken ==
  /\ phase = "aligning" /\ Interior /\ byToken
  /\ LET window == Read(job.file, offset, Window)
         found == Occurrences(Bytes(EndOfText), window)
     IN \/ Len(window) < Window /\ Settle(Len(job.file))
        \/ Len(window) = Window /\ found # {} /\ Settle(offset + Min(found))
        \/ /\ Len(window) = Window /\ found = {}
           /\ offset' = offset + Window
           /\ UNCHANGED <<boundaries, at>>
  /\ UNCHANGED <<job, phase, overlap, byToken, chunks, parts, result>>

Byte(position) == job.file[position + 1]

Bounded(position) == 0 < position /\ position < Len(job.file)

\* Mutant of Utf8Aligned: the boundary stays where the size puts it.
Unaligned(position) == position

\* _align_utf8_boundary: past the continuation bytes, of which four are read.
Utf8Aligned(position) ==
  LET ahead == Read(job.file, position, 4)
      starts == {k \in DOMAIN ahead : ahead[k] \notin Continuation}
  IN IF ~Bounded(position) THEN position
     ELSE IF starts # {} THEN position + Min(starts) - 1
     ELSE Min({position + Len(ahead), Len(job.file)})

\* _align_line_boundary: after the next newline of one window, if there is one.
LineAligned(position) ==
  LET ahead == Read(job.file, position, Window)
      lines == {k \in DOMAIN ahead : ahead[k] = Utf8[Newline][1]}
  IN IF ~Bounded(position) \/ Byte(position - 1) = Utf8[Newline][1] THEN position
     ELSE IF lines # {} THEN Min({position + Min(lines), Len(job.file)})
     ELSE Utf8Aligned(position)

AlignToText ==
  /\ phase = "aligning" /\ Interior /\ ~byToken
  /\ Settle(IF job.boundary = "utf8" THEN Utf8Aligned(boundaries[at])
                                     ELSE LineAligned(boundaries[at]))
  /\ UNCHANGED <<job, phase, overlap, byToken, chunks, parts, result>>

\* The boundaries, but for those that met, are where chunks begin and end. An
\* empty file is one empty chunk.
Cut ==
  /\ phase = "aligning" /\ ~Interior
  /\ LET cuts == IF job.file = << >> THEN boundaries
                 ELSE InOrder(Elements(boundaries))
     IN chunks' = [k \in 1..Len(cuts) - 1 |-> [from |-> cuts[k], to |-> cuts[k + 1]]]
  /\ phase' = "reading"
  /\ UNCHANGED <<job, offset, overlap, boundaries, at, byToken, parts, result>>

-----------------------------------------------------------------------------
(* Reading the chunks, in parallel. Results of neighbouring runs of chunks are
   joined in any order, always the earlier with the later. *)

ValueOfChunk(k) == ValueOf(job, Read(job.file, chunks[k].from, chunks[k].to - chunks[k].from))

ReadChunk(k) ==
  /\ phase = "reading"
  /\ \A p \in parts : k \notin p.first..p.last
  /\ parts' = parts \cup {[first |-> k, last |-> k, value |-> ValueOfChunk(k)]}
  /\ UNCHANGED <<job, phase, offset, overlap, boundaries, at, byToken, chunks, result>>

\* Mutant of Joined: what both sides counted is taken from one of them.
JoinedByOverwriting(a, b) == IF job.op = "ids" THEN a \o b ELSE a @@ b

\* Counts are added, the smaller map into the larger; ids go one after the other.
Joined(a, b) == IF job.op = "ids" THEN a \o b ELSE a (+) b

Join(p, q) ==
  /\ phase = "reading"
  /\ q.first = p.last + 1
  /\ parts' = (parts \ {p, q}) \cup
       {[first |-> p.first, last |-> q.last, value |-> Joined(p.value, q.value)]}
  /\ UNCHANGED <<job, phase, offset, overlap, boundaries, at, byToken, chunks, result>>

\* The greatest frequency of a set of bigrams, None if there is none.
Highest(counts, bigrams) == IF bigrams = {} THEN None ELSE Max({counts[b] : b \in bigrams})

\* The most frequent first. (The code breaks ties by the scalars, which decides
\* about no frequency.)
Ranked(counts, bigrams) ==
  CHOOSE s \in SetToSeqs(bigrams) :
    \A i, j \in DOMAIN s : i < j => counts[s[i]] >= counts[s[j]]

\* Mutant of Selection: the bigrams tied with the last one are dropped.
SelectionWithoutTies(counts, topK, minFreq) ==
  LET often == {b \in DOMAIN counts : counts[b] >= minFreq}
      ranked == Ranked(counts, often)
      n == Min({topK, Len(ranked)})
  IN [bigrams |-> {ranked[i] : i \in 1..n},
      cutoff |-> IF n = 0 THEN None ELSE counts[ranked[n]],
      excluded |-> Highest(counts, DOMAIN counts \ {ranked[i] : i \in 1..n})]

\* select_unicode_bigrams: the topK most frequent of the bigrams that are
\* frequent enough, and all that tie with the last of them.
Selection(counts, topK, minFreq) ==
  LET often == {b \in DOMAIN counts : counts[b] >= minFreq}
      rare == DOMAIN counts \ often
      ranked == Ranked(counts, often)
      cutoff == counts[ranked[Min({topK, Len(ranked)})]]
      kept == {b \in often : counts[b] >= cutoff}
      left == often \ kept
  IN IF topK = 0
     THEN [bigrams |-> {}, cutoff |-> None, excluded |-> Highest(counts, DOMAIN counts)]
     ELSE IF often = {}
     THEN [bigrams |-> {}, cutoff |-> None, excluded |-> Highest(counts, rare)]
     ELSE [bigrams |-> kept, cutoff |-> cutoff,
           excluded |-> IF left = {} THEN Highest(counts, rare) ELSE Highest(counts, left)]

Finish ==
  /\ phase = "reading"
  /\ \E p \in parts :
       /\ p.first = 1 /\ p.last = Len(chunks)
       /\ result' = IF job.op = "bigrams" THEN Selection(p.value, job.topK, job.minFreq)
                                          ELSE p.value
  /\ phase' = "done"
  /\ UNCHANGED <<job, offset, overlap, boundaries, at, byToken, chunks, parts>>

Done == phase = "done" /\ UNCHANGED vars

Next ==
  \/ Search \/ AlignToToken \/ AlignToText \/ Cut
  \/ \E k \in DOMAIN chunks : ReadChunk(k)
  \/ \E p, q \in parts : Join(p, q)
  \/ Finish \/ Done

Spec == Init /\ [][Next]_vars

-----------------------------------------------------------------------------
(* Properties. Deadlock freedom says that every job gets done. *)

ValueOfFile == ValueOf(job, job.file)

ReadCuts == {chunks[k].from : k \in 2..Len(chunks)}

\* The chunks are the file, once and in order, and none of them breaks a
\* scalar: decoded one by one they give what the file gives, valid UTF-8 or not
\* (_find_chunk_boundaries_with_options, get_words_from_segment).
ChunksAreTheFile ==
  phase = "reading" /\ parts = {} =>
    FlattenSeq([k \in DOMAIN chunks |->
                  Lossy(Read(job.file, chunks[k].from, chunks[k].to - chunks[k].from))])
      = Lossy(job.file)

\* Where the end-of-text token occurs in the file, the special tokens that were
\* found there are that token: none begins inside another, or is left to the
\* pattern.
TokenIsSpecial ==
  LET text == Lossy(job.file)
      split == SplitSpecial(text, job.special)
      marks == {i \in DOMAIN split : split[i].special /\ split[i].text = EndOfText}
  IN Cardinality(marks) = Cardinality(Occurrences(EndOfText, text))

CutAtTokensOnly ==
  \/ job.boundary = "eot"
  \/ job.boundary = "auto" /\ Occurrences(Bytes(EndOfText), job.file) # {}

\* A file cut at its end-of-text tokens gives what it gives in one piece: the
\* word counts, the ids, or the bigrams and their cutoff, however often it is
\* cut, wherever the windows end and in whatever order the results are joined
\* (get_words_from_file_with_options, encode_file_impl). "eot" cuts nowhere
\* else, "auto" only if the file has no such token.
DocumentsStayWhole ==
  phase = "done" /\ TokenIsSpecial /\ CutAtTokensOnly =>
    result = IF job.op = "bigrams" THEN Selection(ValueOfFile, job.topK, job.minFreq)
                                   ELSE ValueOfFile

\* A file cut after newlines keeps every word that is not blank, and how often
\* it occurs: only runs of blanks may be divided differently
\* (_align_line_boundary). A special token with a newline in it could be cut in
\* two, so there is none.
LinesKeepWords ==
  phase = "done" /\ job.op = "words" /\
  (\A t \in DOMAIN job.special : Newline \notin Elements(job.special[t])) /\
  (\A p \in ReadCuts : Byte(p - 1) = Utf8[Newline][1]) =>
    LET Solid(bag) == {w \in DOMAIN bag : \E i \in DOMAIN w : Kind(w[i]) # "blank"}
    IN /\ Solid(result) = Solid(ValueOfFile)
       /\ \A w \in Solid(result) : result[w] = ValueOfFile[w]

\* The selected bigrams are those with fewer than topK more frequent ones, so
\* that no bigram is preferred to another of the same frequency; the cutoff is
\* the least frequency that was selected, and every bigram that was left out is
\* below it and no more frequent than the one reported
\* (UnicodeBigramSelection, on which the trainer's certificate relies).
SelectionIsFair ==
  phase = "done" /\ job.op = "bigrams" =>
    \E p \in parts :
      LET counts == p.value
          more(b) == Cardinality({c \in DOMAIN counts : counts[c] > counts[b]})
          kept == {b \in DOMAIN counts : counts[b] >= job.minFreq /\ more(b) < job.topK}
          left == DOMAIN counts \ kept
      IN result = [bigrams |-> kept,
                   cutoff |-> IF kept = {} THEN None ELSE Min({counts[b] : b \in kept}),
                   excluded |-> IF left = {} THEN None ELSE Max({counts[b] : b \in left})]

=============================================================================
