---------------------------- MODULE MCBpeTrainer ----------------------------
(* The inventories and vocabularies of the runs: one or two short words over
   a small alphabet, or three words that share the pair <<1, 2>>. *)
EXTENDS BpeTrainer

Strings(alphabet, n) == UNION {[1..m -> alphabet] : m \in 1..n}

TwoWords(S, T, F) ==
  {<<[idxs |-> s, freq |-> f], [idxs |-> t, freq |-> g]>> :
     s \in S, t \in T, f \in F, g \in F}

ThreeWords(R, S, T, F) ==
  {<<[idxs |-> r, freq |-> f], [idxs |-> s, freq |-> g], [idxs |-> t, freq |-> h]>> :
     r \in R, s \in S, t \in T, f \in F, g \in F, h \in F}

NoSpecial == << >>

ByteVocab == <<<<1>>, <<2>>>>
WideVocab == <<<<1>>, <<2>>, <<3>>, <<4>>>>

\* Exact mode: overlapping runs, stale occurrence sets, ties.
ExactInventories == TwoWords(Strings({1, 2}, 5), Strings({1, 2}, 2), {1, 2})
ExactTargets == {4, 7}

\* Bounded mode: the first word offers many pairs of one frequency, which fill
\* the window and get pruned; the others share the pair <<1, 2>> and tie.
HotInventories ==
  ThreeWords({<<1, 2, 1, 4>>, <<1, 1, 1, 2>>, <<1, 2, 3, 4, 1, 3, 2>>},
             {<<1, 2, 3>>, <<4, 3, 1, 2>>},
             {<<1, 2, 4>>, <<3, 4>>, <<2, 3, 4>>},
             {1, 2, 3})
\* What add_words puts in its place: other words over the same pairs.
OtherInventory == {<<[idxs |-> <<3, 4, 1, 2, 4>>, freq |-> 2], [idxs |-> <<1, 2>>, freq |-> 1]>>}
HotTargets == {6, 9}

\* Inventories with a negative frequency, which the trainer's own test
\* test_hot_pair_window_matches_exact_with_signed_frequencies trains on.
SignedInventories ==
  {<<[idxs |-> <<1, 2, 3>>, freq |-> 5], [idxs |-> <<1, 2, 3, 4>>, freq |-> -2]>>}
SignedTargets == {6}

=============================================================================
