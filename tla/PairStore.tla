------------------------------ MODULE PairStore ------------------------------
(***************************************************************************)
(* The candidate table of the BPE trainer (src/bpe/pair.rs) together with  *)
(* the merge-candidate frontier the trainer keeps over it (the heap        *)
(* functions of src/bpe/trainer.rs).                                       *)
(*                                                                         *)
(*  - store      PairStore.pairs: exact frequency of every discovered pair *)
(*               and initial unit, and the occurrence set of the pair when *)
(*               it holds a handle (occ # None).                           *)
(*  - residents  PairStore.residents: the pairs that hold a handle in      *)
(*               bounded mode, kept redundantly by the code.               *)
(*  - threshold  PairStore.admission_threshold.                            *)
(*  - heap       BpeTrainer.merge_heap: candidates, many of them stale.    *)
(*               A set: a duplicate of a popped candidate is either stale  *)
(*               or equal to the candidate itself. A candidate carries the *)
(*               content of its key whatever the tie-break (the code drops *)
(*               it when the tie-break does not read it): one key has one  *)
(*               content for as long as the store lives.                   *)
(*  - cutoff     BpeTrainer.merge_heap_cutoff.                             *)
(*  - merge      the Merge value between _get_largest_merge, which takes   *)
(*               it out of the store, and _step or restore_pair.           *)
(*  - phase      where the running call is: "idle", in the loop of         *)
(*               _get_largest_merge ("search"), or holding a merge.        *)
(*                                                                         *)
(* Window = 0 stands for hot_pair_window_size = None (exact mode).         *)
(***************************************************************************)
EXTENDS Integers, FiniteSets

CONSTANTS
  Id,              \* ids a pair is made of
  Pair,            \* keys of pairs, a set of <<left id, right id>>
  UnitKey,         \* keys of initial units, <<sentinel, unit>> in the code
  Content,         \* token contents a key can have
  WordId,          \* indices into the word inventory
  Window,          \* hot_pair_window_size, 0 for exact mode
  TieLess(_, _),   \* the configured tie-break, on [tp, content] labels
  None             \* Option::None

Key == Pair \cup UnitKey

Label == [tp : Key, content : Content]

Candidate == [freq : Int, tp : Key, content : Content]

ASSUME KeyAssumption ==
  /\ Pair \subseteq Id \X Id
  /\ Pair \cap UnitKey = {}

ASSUME WindowAssumption == Window \in Nat

ASSUME NoneAssumption ==
  /\ \A S \in SUBSET WordId : S # None
  /\ None \notin Int
  /\ None \notin Candidate
  /\ None \notin [tp : Key, content : Content, freq : Int, occ : SUBSET WordId]

\* A tie-break is a strict weak order: it never contradicts itself, and
\* "not above" is transitive. Labels it leaves equal may be popped in any order.
ASSUME TieAssumption ==
  \A c, d, e \in Label :
    /\ TieLess(c, d) => ~TieLess(d, c)
    /\ TieLess(c, e) => TieLess(c, d) \/ TieLess(d, e)

VARIABLES store, residents, threshold, heap, cutoff, merge, phase

storeVars == <<store, residents, threshold, heap, cutoff, merge, phase>>

Bounded == Window > 0

-----------------------------------------------------------------------------
(* The order of MergeCandidate: frequency, then initial units before pairs,
   then the tie-break. *)

LabelOf(c) == [tp |-> c.tp, content |-> c.content]

\* Mutant of Less: the kind is not compared.
LessWithoutKind(c, d) ==
  \/ c.freq < d.freq
  \/ c.freq = d.freq /\ TieLess(LabelOf(c), LabelOf(d))

\* Mutant of Less: the tie-break is forgotten.
LessWithoutTieBreak(c, d) ==
  \/ c.freq < d.freq
  \/ c.freq = d.freq /\ c.tp \in Pair /\ d.tp \in UnitKey

\* Candidate c ranks strictly below candidate d.
Less(c, d) ==
  \/ c.freq < d.freq
  \/ /\ c.freq = d.freq
     /\ \/ c.tp \in Pair /\ d.tp \in UnitKey
        \/ /\ c.tp \in Pair <=> d.tp \in Pair
           /\ TieLess(LabelOf(c), LabelOf(d))

CandIn(s, tp) == [freq |-> s[tp].freq, tp |-> tp, content |-> s[tp].content]

\* Keys that can still be learned.
Live(s) == {tp \in DOMAIN s : s[tp].freq > 0}

Candidates(s) == {CandIn(s, tp) : tp \in Live(s)}

PairCandidates(s) == {CandIn(s, tp) : tp \in Live(s) \cap Pair}

TpsOf(R) == {c.tp : c \in R}

\* R is what a size-Window selection over S keeps. Where S ties at the
\* boundary the code keeps one of the tied candidates.
IsTop(R, S) ==
  /\ R \subseteq S
  /\ \/ R = S /\ Cardinality(S) <= Window
     \/ /\ Cardinality(R) = Window
        /\ \A c \in S \ R, d \in R : ~Less(d, c)

TopOf(S) == {R \in SUBSET S : IsTop(R, S)}

\* The last candidates of R in ranked order.
Lowest(R) == {c \in R : \A d \in R : ~Less(d, c)}

\* Mutant of SetThreshold: the ranking does not record its threshold.
KeepThreshold(R) == R \subseteq Candidate /\ UNCHANGED threshold

\* admission_threshold = ranked.last().map(freq)
SetThreshold(R) ==
  IF R = {} THEN threshold' = None
            ELSE \E c \in Lowest(R) : threshold' = c.freq

-----------------------------------------------------------------------------
(* The frontier. *)

\* Mutant of Pushable: the cutoff is ignored.
PushableBelowCutoff(s, tp) == s[tp].freq > 0

\* push_merge_candidate: in bounded mode a candidate below the cutoff waits
\* in the store until the frontier is rebuilt.
Pushable(s, tp) ==
  /\ s[tp].freq > 0
  /\ ~(Bounded /\ cutoff # None /\ Less(CandIn(s, tp), cutoff))

\* Mutant of RebuildFrontier: what was left out is not remembered by a cutoff.
RebuildWithoutCutoff(s) ==
  /\ IF Bounded THEN heap' \in TopOf(Candidates(s)) ELSE heap' = Candidates(s)
  /\ cutoff' = None

\* rebuild_merge_heap
RebuildFrontier(s) ==
  IF Bounded
  THEN \E R \in TopOf(Candidates(s)) :
         /\ heap' = R
         /\ IF Cardinality(R) = Window THEN cutoff' \in Lowest(R)
                                       ELSE cutoff' = None
  ELSE heap' = Candidates(s) /\ cutoff' = None

\* PairStore::hydrate of the ranked pairs R: every pair of R without a handle
\* gets one, filled by a scan of the word inventory (occOf).
Hydrated(s, R, occOf) ==
  [tp \in DOMAIN s |->
     IF tp \in TpsOf(R) /\ s[tp].occ = None
     THEN [s[tp] EXCEPT !.occ = occOf[tp]] ELSE s[tp]]

-----------------------------------------------------------------------------
(* Operations. *)

StoreInit ==
  /\ store = [tp \in {} |-> None]
  /\ residents = {}
  /\ threshold = None
  /\ heap = {}
  /\ cutoff = None
  /\ merge = None
  /\ phase = "idle"

\* The entry add_pair or insert_initial makes of a counted key.
Entered(counted, occOf, tp) ==
  [content |-> counted[tp].content,
   freq    |-> counted[tp].freq,
   occ     |-> IF tp \in Pair /\ ~Bounded THEN occOf[tp] ELSE None]

\* Mutant of Fresh: the table is filled without being reset.
FreshOverOld(counted, occOf) ==
  [tp \in DOMAIN counted \cup DOMAIN store |->
     IF tp \in DOMAIN counted THEN Entered(counted, occOf, tp) ELSE store[tp]]

\* The table after PairStore::reset and _build_pre_merges_batched.
Fresh(counted, occOf) == [tp \in DOMAIN counted |-> Entered(counted, occOf, tp)]

\* _build_pre_merges: reset the store, fill it with counted (a function from
\* keys to content and frequency), rank it, and hydrate in bounded mode.
Build(counted, occOf) ==
  LET fresh == Fresh(counted, occOf)
  IN /\ phase = "idle"
     /\ RebuildFrontier(fresh)
     /\ IF Bounded
        THEN \E R \in TopOf(PairCandidates(fresh)) :
               /\ store' = Hydrated(fresh, R, occOf)
               /\ residents' = TpsOf(R)
               /\ SetThreshold(R)
        ELSE store' = fresh /\ residents' = {} /\ threshold' = None
     /\ UNCHANGED <<merge, phase>>

\* Entry of _get_largest_merge.
Search ==
  /\ phase = "idle"
  /\ phase' = "search"
  /\ UNCHANGED <<store, residents, threshold, heap, cutoff, merge>>

\* c is what merge_heap.pop() returns.
Popped(c) == c \in heap /\ \A d \in heap : ~Less(c, d)

\* Mutant of Current: the frequency of the candidate is not compared.
CurrentAtAnyFreq(c) == c.freq > 0 /\ c.tp \in DOMAIN store

\* The candidate still describes the store.
Current(c) ==
  /\ c.freq > 0
  /\ c.tp \in DOMAIN store
  /\ CandIn(store, c.tp) = c

\* Mutant of PopStale: the heap is peeked at.
PeekStale(c) ==
  /\ phase = "search"
  /\ Popped(c)
  /\ ~Current(c)
  /\ UNCHANGED storeVars

\* A candidate that was overtaken by a change of its key is thrown away.
PopStale(c) ==
  /\ phase = "search"
  /\ Popped(c)
  /\ ~Current(c)
  /\ heap' = heap \ {c}
  /\ UNCHANGED <<store, residents, threshold, cutoff, merge, phase>>

\* take_merge of key tp out of the store s.
Take(s, tp) ==
  /\ merge' = [tp      |-> tp,
               content |-> s[tp].content,
               freq    |-> s[tp].freq,
               occ     |-> IF s[tp].occ = None THEN {} ELSE s[tp].occ]
  /\ store' = [k \in DOMAIN s \ {tp} |-> s[k]]
  /\ phase' = "merge"

\* A pair whose occurrence set was never built, or was released.
Cold(c) == Bounded /\ c.tp \in Pair /\ store[c.tp].occ = None

\* The popped candidate wins. A cold winner first hydrates the current top
\* pairs, and hydrate asserts that the winner is one of them.
Select(c, occOf) ==
  /\ phase = "search"
  /\ Popped(c)
  /\ Current(c)
  /\ heap' = heap \ {c}
  /\ UNCHANGED cutoff
  /\ IF Cold(c)
     THEN \E R \in TopOf(PairCandidates(store)) :
            /\ c \in R
            /\ Take(Hydrated(store, R, occOf), c.tp)
            /\ residents' = (residents \cup TpsOf(R)) \ {c.tp}
            /\ SetThreshold(R)
     ELSE /\ Take(store, c.tp)
          /\ residents' = residents \ {c.tp}
          /\ UNCHANGED threshold

\* The frontier ran dry above its cutoff: rank the whole store again.
Refill ==
  /\ phase = "search"
  /\ heap = {}
  /\ cutoff # None
  /\ Candidates(store) # {}
  /\ RebuildFrontier(store)
  /\ UNCHANGED <<store, residents, threshold, merge, phase>>

\* _get_largest_merge returns None.
GiveUp ==
  /\ phase = "search"
  /\ heap = {}
  /\ \/ cutoff = None /\ UNCHANGED <<heap, cutoff>>
     \/ cutoff # None /\ Candidates(store) = {} /\ RebuildFrontier(store)
  /\ phase' = "idle"
  /\ UNCHANGED <<store, residents, threshold, merge>>

HasHandle(s, tp) == tp \in DOMAIN s /\ s[tp].occ # None

\* A cold pair of the new id that gained frequency: all its occurrences are in
\* d.occ, so that apply_changes may give it a handle at once ...
Admissible(tp, target, d) ==
  /\ Bounded
  /\ ~HasHandle(store, tp)
  /\ d.freq > 0
  /\ tp[1] = target \/ tp[2] = target

\* ... which it does when the gain reaches the latest threshold.
Admitted(tp, target, d) == Admissible(tp, target, d) /\ d.freq >= threshold

\* Mutant of Changed: the words a pair gains are not recorded.
ChangedWithoutNewWords(tp, target, d) ==
  LET old == IF tp \in DOMAIN store
             THEN store[tp]
             ELSE [content |-> d.content, freq |-> 0, occ |-> None]
  IN [content |-> old.content,
      freq    |-> old.freq + d.freq,
      occ     |-> IF old.occ = None /\ ~Bounded THEN {} ELSE old.occ]

\* The entry of tp after the change d.
Changed(tp, target, d) ==
  LET old == IF tp \in DOMAIN store
             THEN store[tp]
             ELSE [content |-> d.content, freq |-> 0, occ |-> None]
      freq == old.freq + d.freq
      held == IF old.occ = None THEN {} ELSE old.occ
      extended == IF d.freq > 0 THEN held \cup d.occ ELSE old.occ
  IN [content |-> old.content,
      freq    |-> freq,
      occ     |-> IF ~Bounded THEN extended
                  ELSE IF old.occ # None
                  THEN IF freq > 0 THEN extended ELSE None
                  ELSE IF Admitted(tp, target, d) THEN d.occ ELSE None]

\* Mutant of NeedsPrune: residents may grow to 4 * Window.
NeedsPruneLate(kept) == Bounded /\ Cardinality(kept) > 4 * Window

NeedsPrune(kept) == Bounded /\ Cardinality(kept) > 2 * Window

\* The pairs apply_changes returns: neither the merged pair nor a zero change.
Updated(changes) ==
  {tp \in DOMAIN changes : tp # merge.tp /\ changes[tp].freq # 0}

\* The table after apply_changes.
Applied(target, changes) ==
  [tp \in DOMAIN store \cup Updated(changes) |->
     IF tp \in Updated(changes) THEN Changed(tp, target, changes[tp]) ELSE store[tp]]

\* The residents after apply_changes made the table t: pairs that lost their
\* handle left, pairs that were given one came in.
Resident(t, changes) ==
  IF Bounded
  THEN (residents \ {tp \in Updated(changes) : HasHandle(store, tp) /\ ~HasHandle(t, tp)})
         \cup {tp \in Updated(changes) : ~HasHandle(store, tp) /\ HasHandle(t, tp)}
  ELSE residents

\* Mutant of Released: the occurrence sets are emptied and the handles kept.
ReleasedEmpty(t, K) ==
  [tp \in DOMAIN t |-> IF tp \in K THEN [t[tp] EXCEPT !.occ = {}] ELSE t[tp]]

\* The table t after PairStore::prune released the keys in K.
Released(t, K) ==
  [tp \in DOMAIN t |-> IF tp \in K THEN [t[tp] EXCEPT !.occ = None] ELSE t[tp]]

\* update_pre_merges after the words were rewritten: change the store, push
\* what changed, and prune the residents when there are more than 2 * Window.
\* Reading a threshold that is not set is a panic ("not initialized").
ApplyChanges(target, changes) ==
  LET applied == Applied(target, changes)
      kept == Resident(applied, changes)
      ranked == {CandIn(applied, tp) : tp \in Live(applied) \cap kept}
  IN /\ phase = "merge"
     /\ merge.tp \in Pair
     /\ \A tp \in Updated(changes) :
          Admissible(tp, target, changes[tp]) => threshold # None
     /\ heap' = heap \cup {CandIn(applied, tp) :
                             tp \in {u \in Updated(changes) : Pushable(applied, u)}}
     /\ IF NeedsPrune(kept)
        THEN \E R \in TopOf(ranked) :
               /\ store' = Released(applied, kept \ TpsOf(R))
               /\ residents' = kept \cap TpsOf(R)
               /\ SetThreshold(R)
        ELSE store' = applied /\ residents' = kept /\ UNCHANGED threshold
     /\ merge' = None
     /\ phase' = "idle"
     /\ UNCHANGED cutoff

\* Mutant of ApplyUnit: the selected unit is not consumed.
ApplyUnitTwice ==
  /\ phase = "merge"
  /\ merge.tp \in UnitKey
  /\ phase' = "idle"
  /\ UNCHANGED <<store, residents, threshold, heap, cutoff, merge>>

\* A selected initial unit changes the vocabulary only.
ApplyUnit ==
  /\ phase = "merge"
  /\ merge.tp \in UnitKey
  /\ merge' = None
  /\ phase' = "idle"
  /\ UNCHANGED <<store, residents, threshold, heap, cutoff>>

\* The table with the held merge back in it.
Restored ==
  [tp \in DOMAIN store \cup {merge.tp} |->
     IF tp = merge.tp
     THEN [content |-> merge.content, freq |-> merge.freq, occ |-> merge.occ]
     ELSE store[tp]]

\* restore_pair gives a restored pair a handle, cold or not before.
Readmitted == IF Bounded THEN residents \cup {merge.tp} ELSE residents

\* restore_pair and push_merge_candidate: automatic training declines a pair
\* below its cutoff frequency.
Decline ==
  /\ phase = "merge"
  /\ merge.tp \in Pair
  /\ store' = Restored
  /\ residents' = Readmitted
  /\ heap' = heap \cup {CandIn(Restored, tp) :
                          tp \in {u \in {merge.tp} : Pushable(Restored, u)}}
  /\ merge' = None
  /\ phase' = "idle"
  /\ UNCHANGED <<threshold, cutoff>>

-----------------------------------------------------------------------------
(* Invariants shared by every user of the store. *)

\* The candidate the running call took out of the store.
Winner == [freq |-> merge.freq, tp |-> merge.tp, content |-> merge.content]

Entry == [content : Content, freq : Int, occ : {None} \cup SUBSET WordId]

TableOK(s) ==
  /\ DOMAIN s \subseteq Key
  /\ s = [tp \in DOMAIN s |-> s[tp]]
  /\ \A tp \in DOMAIN s : s[tp] \in Entry

StoreTypeOK ==
  /\ TableOK(store)
  /\ residents \subseteq Pair
  /\ threshold \in {None} \cup Int
  /\ heap \subseteq Candidate
  /\ cutoff \in {None} \cup Candidate
  /\ merge \in {None} \cup
       [tp : Key, content : Content, freq : Int, occ : SUBSET WordId]
  /\ phase \in {"idle", "search", "merge"}
  /\ merge # None <=> phase = "merge"

\* The frontier never loses a candidate: whatever can still be learned is in
\* the heap under its current frequency, or a cutoff is set and the candidate
\* does not rank above it (lazy deletion, skipped pushes, rebuilds and restores
\* in any order).
FrontierCovers ==
  \A tp \in Live(store) :
    \/ CandIn(store, tp) \in heap
    \/ cutoff # None /\ ~Less(cutoff, CandIn(store, tp))

\* Nothing in the heap ranks below the cutoff, so that whatever the heap pops
\* also beats everything that was left out of it.
FrontierAboveCutoff ==
  cutoff # None => \A c \in heap : ~Less(c, cutoff)

\* The merge handed to _step is the best candidate of the whole store, cold
\* pairs and initial units included ("exact winner selection").
WinnerIsGlobal ==
  merge # None =>
    \A tp \in Live(store) : ~Less(Winner, CandIn(store, tp))

\* PairStore::debug_assert_residency: the resident set and the handles agree,
\* through hydration, admission, drops, prunes, takes and restores.
ResidencyAgrees ==
  Bounded => residents = {tp \in DOMAIN store : store[tp].occ # None}

\* Candidates of two different pairs never tie.
NoTies ==
  \A tp, tq \in Live(store) \cap Pair :
    tp # tq => \/ Less(CandIn(store, tp), CandIn(store, tq))
               \/ Less(CandIn(store, tq), CandIn(store, tp))

\* The assertion of hydrate, "a cold pair winner must be present in the exact
\* top-K refill": when the heap pops a cold pair that is current, no choice of
\* the top Window pairs leaves it out.
ColdWinnerIsRanked ==
  phase = "search" =>
    \A c \in heap :
      Popped(c) /\ Current(c) /\ Cold(c) =>
        \A R \in TopOf(PairCandidates(store)) : c \in R

=============================================================================
