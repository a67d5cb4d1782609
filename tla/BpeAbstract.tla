----------------------------- MODULE BpeAbstract -----------------------------
(***************************************************************************)
(* What BPE training promises, with no candidate table, heap, occurrence   *)
(* set or window: every event learns the best of everything the words      *)
(* themselves still offer and, for a pair, replaces it in every word.      *)
(***************************************************************************)
EXTENDS BpeWords

CONSTANTS
  Unit,            \* Unicode scalars that are not in the base vocabulary
  Inventories,     \* sequences of [idxs, freq] a caller may train on
  BaseVocab,       \* special tokens, then the byte alphabet
  TieLess(_, _)

VARIABLES
  words, vocab, merges,
  frozen           \* scalars that are not to be learned any more

absVars == <<words, vocab, merges, frozen>>

Text(id) == IF id \in Unit THEN <<id>> ELSE vocab[id]

TrueFreq(tp) ==
  SumFunction([i \in DOMAIN words |-> words[i].freq * PairCount(words[i].idxs, tp)])

TrueUnitFreq(u) ==
  SumFunction([i \in DOMAIN words |-> words[i].freq * UnitCount(words[i].idxs, u)])

\* Scalars of the words that have no vocabulary entry yet.
Missing ==
  {u \in Unit \ frozen :
     /\ <<u>> \notin Elements(vocab)
     /\ \E i \in DOMAIN words : u \in Elements(words[i].idxs)}

PairEvents ==
  {[unit |-> FALSE, freq |-> TrueFreq(tp), tp |-> tp,
    content |-> <<Text(tp[1]), Text(tp[2])>>] :
     tp \in {p \in UNION {PairsOf(words[i].idxs) : i \in DOMAIN words} :
                {p[1], p[2]} \cap frozen = {}}}

UnitEvents ==
  {[unit |-> TRUE, freq |-> TrueUnitFreq(u), tp |-> <<0, u>>,
    content |-> << << >>, <<u>> >>] : u \in Missing}

Events == {e \in PairEvents \cup UnitEvents : e.freq > 0}

Worse(e, f) ==
  \/ e.freq < f.freq
  \/ e.freq = f.freq /\ ~e.unit /\ f.unit
  \/ e.freq = f.freq /\ e.unit = f.unit /\ TieLess(e, f)

AbsInit ==
  /\ words \in Inventories
  /\ vocab = BaseVocab
  /\ merges = << >>
  /\ frozen = {}

Learn ==
  \E e \in Events :
    LET target == Len(vocab) + 1
    IN /\ \A f \in Events : ~Worse(e, f)
       /\ vocab' = Append(vocab, e.content[1] \o e.content[2])
       /\ IF e.unit
          THEN UNCHANGED <<words, merges>>
          ELSE /\ words' = [i \in DOMAIN words |->
                    [words[i] EXCEPT !.idxs = Replaced(@, e.tp, target)]]
               /\ merges' = Append(merges,
                    [tp |-> e.tp, target |-> target, freq |-> e.freq])

NewInventory == words' \in Inventories /\ UNCHANGED <<vocab, merges>>

AbsNext == (Learn \/ NewInventory) /\ UNCHANGED frozen

AbsSpec == AbsInit /\ [][AbsNext]_absVars

=============================================================================
