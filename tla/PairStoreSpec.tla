---------------------------- MODULE PairStoreSpec ----------------------------
(***************************************************************************)
(* The store driven by a trainer whose inventory is unknown: builds count  *)
(* anything, and a merge may change the frequency of any pairs by any      *)
(* amounts. What holds here holds whatever the words are; BpeTrainer       *)
(* drives the same operations from real words.                             *)
(***************************************************************************)
EXTENDS PairStore

CONSTANTS
  CountFreq,       \* frequencies a key may be counted with
  Freq,            \* frequencies merges may leave a key with
  Delta            \* amounts a merge may change a frequency by

ASSUME FreqAssumption ==
  CountFreq \subseteq Int /\ Freq \subseteq Int /\ Delta \subseteq Int

Counted ==
  UNION {[D -> [content : Content, freq : CountFreq]] : D \in SUBSET Key}

Changes ==
  UNION {[D -> [content : Content, freq : Delta, occ : SUBSET WordId]] :
           D \in SUBSET Pair}

FreqOf(tp) == IF tp \in DOMAIN store THEN store[tp].freq ELSE 0

\* What a scan of the inventory finds for each pair.
Scans == [Pair -> SUBSET WordId]

Apply(target, changes) ==
  /\ \A tp \in DOMAIN changes : FreqOf(tp) + changes[tp].freq \in Freq
  /\ ApplyChanges(target, changes)

StoreNext ==
  \/ \E counted \in Counted, occOf \in Scans : Build(counted, occOf)
  \/ Search
  \/ \E c \in heap : PopStale(c)
  \/ \E c \in heap, occOf \in Scans : Select(c, occOf)
  \/ Refill
  \/ GiveUp
  \/ \E target \in Id, changes \in Changes : Apply(target, changes)
  \/ ApplyUnit
  \/ Decline

\* The loop of _get_largest_merge runs on one thread and is never interrupted.
StoreFairness ==
  /\ WF_storeVars(\E c \in heap : PopStale(c))
  /\ WF_storeVars(\E c \in heap, occOf \in Scans : Select(c, occOf))
  /\ WF_storeVars(Refill)
  /\ WF_storeVars(GiveUp)

StoreSpec == StoreInit /\ [][StoreNext]_storeVars /\ StoreFairness

-----------------------------------------------------------------------------

\* _get_largest_merge answers None only when nothing in the store can be
\* learned any more, even though in bounded mode the heap never held most of it.
NoneMeansExhausted ==
  [][phase = "search" /\ phase' = "idle" => Candidates(store) = {}]_storeVars

\* The loop of _get_largest_merge ends: popping stale candidates and rebuilding
\* the frontier cannot go on for ever.
SearchEnds == phase = "search" ~> phase # "search"

=============================================================================
