------------------------------ MODULE BpeWords ------------------------------
(***************************************************************************)
(* Words as sequences of units, and what the trainer computes over them:   *)
(* pair counts, the rewriting of one word by one merge with its local      *)
(* frequency changes (merge_word in src/bpe/utils.rs), and the two         *)
(* tie-breaks. A unit is an integer: a vocabulary id is positive, a        *)
(* Unicode scalar that is still CharIdx::Char is negative, which is how    *)
(* CharIdx orders them.                                                    *)
(***************************************************************************)
EXTENDS Integers, Sequences, FiniteSets, Functions

Entry(f, k) == IF k \in DOMAIN f THEN f[k] ELSE 0

Elements(s) == {s[i] : i \in DOMAIN s}

PairAt(w, i) == <<w[i], w[i + 1]>>

PairsOf(w) == {PairAt(w, i) : i \in 1..Len(w) - 1}

\* Overlapping occurrences count, as they do when the trainer counts a word.
PairCount(w, tp) == Cardinality({i \in 1..Len(w) - 1 : PairAt(w, i) = tp})

UnitCount(w, u) == Cardinality({i \in DOMAIN w : w[i] = u})

\* The elements of a finite set of integers, the least first. (The empty
\* sequence only makes TLC evaluate them once.)
InOrder(S) ==
  [k \in 1..Cardinality(S) |->
     CHOOSE x \in S : Cardinality({y \in S : y < x}) = k - 1] \o << >>

-----------------------------------------------------------------------------
(* The rewriting of a word, as a left-to-right replacement ... *)

\* Every occurrence of tp that no earlier replacement consumed gives way to
\* target; from[i] is what becomes of the word from position i on.
Replaced(w, tp, target) ==
  LET from[i \in 1..Len(w) + 1] ==
        IF i > Len(w) THEN << >>
        ELSE IF i < Len(w) /\ PairAt(w, i) = tp
             THEN <<target>> \o from[i + 2]
             ELSE <<w[i]>> \o from[i + 1]
  IN from[1]

-----------------------------------------------------------------------------
(* ... and as merge_word does it, in one scan that also records how the word
   changes the frequencies of the pairs around each merge. *)

\* add_local_change for each pair that left the word and each that entered it.
AddLocalChanges(changes, freq, left, entered) ==
  [k \in DOMAIN changes \cup Elements(left) \cup Elements(entered) |->
     Entry(changes, k) + freq * (UnitCount(entered, k) - UnitCount(left, k))]

\* The neighbours of the pair at position i: the pair that ends the output so
\* far (last_tp, empty before there is one), and the one with the next unit.
OldNeighbours(w, tp, s) ==
  (IF s.last = << >> THEN << >> ELSE <<s.last>>)
    \o (IF s.i + 2 > Len(w) THEN << >> ELSE <<<<tp[2], w[s.i + 2]>>>>)

\* Mutant of NewNeighbours: the pair to the left of a merge is not updated.
RightNeighbour(w, target, s) ==
  IF s.i + 2 > Len(w) THEN << >> ELSE <<<<target, w[s.i + 2]>>>>

NewNeighbours(w, target, s) ==
  (IF s.last = << >> THEN << >> ELSE <<<<s.last[1], target>>>>)
    \o (IF s.i + 2 > Len(w) THEN << >> ELSE <<<<target, w[s.i + 2]>>>>)

\* One iteration of merge_word at position s.i.
ScanStep(w, freq, tp, target, s) ==
  IF PairAt(w, s.i) # tp
  THEN [s EXCEPT !.i = @ + 1, !.out = Append(@, w[s.i]), !.last = PairAt(w, s.i)]
  ELSE [i |-> s.i + 2,
        out |-> Append(s.out, target),
        last |-> IF s.i + 2 > Len(w) THEN s.last ELSE <<target, w[s.i + 2]>>,
        changes |-> AddLocalChanges(s.changes, freq, <<tp>> \o OldNeighbours(w, tp, s),
                                    NewNeighbours(w, target, s))]

\* The states of the loop of merge_word, from its first iteration to its end.
\* (The singletons only make TLC evaluate every iteration once.)
Scan(w, freq, tp, target) ==
  LET start == [i |-> 1, out |-> << >>, last |-> << >>, changes |-> << >>]
      scan[n \in 0..Len(w)] ==
        IF n = 0 THEN start
        ELSE CHOOSE next \in {IF s.i >= Len(w) THEN s ELSE ScanStep(w, freq, tp, target, s) :
                                 s \in {scan[n - 1]}} : TRUE
  IN scan

\* merge_word: the rewritten word and its changes, empty when nothing merged.
MergeWord(w, freq, tp, target) ==
  CHOOSE result \in {[idxs    |-> end.out \o SubSeq(w, end.i, Len(w)),
                      changes |-> end.changes] :
                       end \in {Scan(w, freq, tp, target)[Len(w)]}} : TRUE

-----------------------------------------------------------------------------
(* TieBreak: labels are [tp, content], a content is a pair of sequences. *)

\* Lexicographic order of sequences of integers.
SeqLess(s, t) ==
  \E i \in 1..Len(t) :
    /\ \A j \in 1..i - 1 : j <= Len(s) /\ s[j] = t[j]
    /\ i > Len(s) \/ s[i] < t[i]

SmallestPairId(c, d) ==
  \/ d.tp[1] < c.tp[1]
  \/ d.tp[1] = c.tp[1] /\ d.tp[2] < c.tp[2]

LargestContent(c, d) ==
  \/ SeqLess(c.content[1], d.content[1])
  \/ /\ c.content[1] = d.content[1]
     /\ SeqLess(c.content[2], d.content[2])

=============================================================================
