--------------------------- MODULE PairStoreProofs ---------------------------
(***************************************************************************)
(* Proofs about PairStoreSpec, for every table, window, tie-break and      *)
(* sequence of merges: type correctness first, then the frontier invariant *)
(* and what it gives to the callers of _get_largest_merge.                 *)
(***************************************************************************)
EXTENDS PairStoreSpec, TLAPS, FiniteSetTheorems

-----------------------------------------------------------------------------
(* Typing of the operators. *)

\* A key of a well-typed table makes a candidate.
LEMMA CandInType ==
  ASSUME NEW s, TableOK(s), NEW tp \in DOMAIN s
  PROVE  CandIn(s, tp) \in Candidate
BY DEF TableOK, Entry, CandIn, Candidate

\* Candidates are well typed, and so are those of pairs only.
LEMMA CandidatesType ==
  ASSUME NEW s, TableOK(s)
  PROVE  /\ Candidates(s) \subseteq Candidate
         /\ PairCandidates(s) \subseteq Candidates(s)
         /\ TpsOf(PairCandidates(s)) \subseteq Pair
BY CandInType DEF Candidates, PairCandidates, Live, TpsOf, CandIn

\* What a selection keeps is part of what it ranks.
LEMMA TopOfSubset ==
  ASSUME NEW S, NEW R \in TopOf(S)
  PROVE  R \subseteq S
BY DEF TopOf

\* Hydration only fills occurrence sets.
LEMMA HydratedType ==
  ASSUME NEW s, TableOK(s), NEW R, NEW occOf \in Scans, TpsOf(R) \subseteq Pair
  PROVE  TableOK(Hydrated(s, R, occOf))
<1> DEFINE h == Hydrated(s, R, occOf)
<1>1. DOMAIN h = DOMAIN s /\ h = [tp \in DOMAIN h |-> h[tp]]
  BY DEF Hydrated
<1>2. ASSUME NEW tp \in DOMAIN h
      PROVE  h[tp] \in Entry
  <2>1. s[tp] \in Entry
    BY <1>1 DEF TableOK
  <2>2. CASE tp \in TpsOf(R) /\ s[tp].occ = None
    <3>1. occOf[tp] \in SUBSET WordId
      BY <2>2 DEF Scans
    <3>2. h[tp] = [s[tp] EXCEPT !.occ = occOf[tp]]
      BY <1>1, <2>2 DEF Hydrated
    <3> QED BY <2>1, <3>1, <3>2 DEF Entry
  <2>3. CASE ~(tp \in TpsOf(R) /\ s[tp].occ = None)
    BY <1>1, <2>1, <2>3 DEF Hydrated
  <2> QED BY <2>2, <2>3
<1> QED BY <1>1, <1>2 DEF TableOK

\* A ranking of well-typed candidates leaves a well-typed threshold.
LEMMA SetThresholdType ==
  ASSUME NEW R \in SUBSET Candidate, SetThreshold(R)
  PROVE  threshold' \in {None} \cup Int
BY DEF SetThreshold, Lowest, Candidate

\* A rebuilt frontier is well typed.
LEMMA RebuildType ==
  ASSUME NEW s, TableOK(s), RebuildFrontier(s)
  PROVE  heap' \subseteq Candidate /\ cutoff' \in {None} \cup Candidate
BY CandidatesType, TopOfSubset DEF RebuildFrontier, Lowest

-----------------------------------------------------------------------------
(* Type correctness, one lemma for each operation. *)

\* A freshly counted table is well typed.
LEMMA FreshType ==
  ASSUME NEW counted \in Counted, NEW occOf \in Scans
  PROVE  TableOK(Fresh(counted, occOf))
<1> DEFINE fresh == Fresh(counted, occOf)
<1>1. DOMAIN fresh = DOMAIN counted /\ fresh = [tp \in DOMAIN fresh |-> fresh[tp]]
  BY DEF Fresh
<1>2. DOMAIN counted \subseteq Key
  BY DEF Counted
<1>3. ASSUME NEW tp \in DOMAIN fresh
      PROVE  fresh[tp] \in Entry
  <2>1. counted[tp].content \in Content /\ counted[tp].freq \in Int
    BY <1>1, FreqAssumption DEF Counted
  <2>2. tp \in Pair => occOf[tp] \in SUBSET WordId
    BY DEF Scans
  <2> QED BY <1>1, <2>1, <2>2 DEF Fresh, Entered, Entry
<1> QED BY <1>1, <1>2, <1>3 DEF TableOK

\* Counting the inventory and building the frontier (init_training) leaves a
\* well-typed store.
LEMMA BuildType ==
  ASSUME StoreTypeOK, NEW counted \in Counted, NEW occOf \in Scans, Build(counted, occOf)
  PROVE  StoreTypeOK'
<1> DEFINE fresh == Fresh(counted, occOf)
<1>1. TableOK(fresh)
  BY FreshType
<1>2. heap' \subseteq Candidate /\ cutoff' \in {None} \cup Candidate
  BY <1>1, RebuildType DEF Build
<1>3. CASE Bounded
  <2>1. PICK R \in TopOf(PairCandidates(fresh)) :
          /\ store' = Hydrated(fresh, R, occOf)
          /\ residents' = TpsOf(R)
          /\ SetThreshold(R)
    BY <1>3 DEF Build
  <2>2. R \subseteq PairCandidates(fresh)
    BY TopOfSubset
  <2>3. R \in SUBSET Candidate /\ TpsOf(R) \subseteq Pair
    BY <1>1, <2>2, CandidatesType DEF TpsOf
  <2>4. TableOK(store')
    BY <1>1, <2>1, <2>3, HydratedType
  <2>5. threshold' \in {None} \cup Int
    BY <2>1, <2>3, SetThresholdType
  <2> QED BY <1>2, <2>1, <2>3, <2>4, <2>5 DEF StoreTypeOK, Build
<1>4. CASE ~Bounded
  BY <1>1, <1>2, <1>4 DEF StoreTypeOK, Build
<1> QED BY <1>3, <1>4

\* The record take_merge makes of an entry.
LEMMA TakeType ==
  ASSUME NEW s, TableOK(s), NEW tp \in DOMAIN s, Take(s, tp)
  PROVE  /\ TableOK(store')
         /\ merge' \in [tp : Key, content : Content, freq : Int, occ : SUBSET WordId]
         /\ phase' = "merge"
<1>1. s[tp] \in Entry /\ tp \in Key
  BY DEF TableOK
<1>2. merge' \in [tp : Key, content : Content, freq : Int, occ : SUBSET WordId]
  BY <1>1 DEF Take, Entry
<1>3. TableOK(store')
  BY DEF Take, TableOK
<1> QED BY <1>2, <1>3 DEF Take

\* Selecting a winner, the cold one included, leaves a well-typed store and a
\* well-typed merge record.
LEMMA SelectType ==
  ASSUME StoreTypeOK, NEW c \in heap, NEW occOf \in Scans, Select(c, occOf)
  PROVE  StoreTypeOK'
<1>1. c.tp \in DOMAIN store /\ heap' \subseteq heap /\ cutoff' = cutoff
  BY DEF Select, Current
<1>2. CASE Cold(c)
  <2>1. PICK R \in TopOf(PairCandidates(store)) :
          /\ Take(Hydrated(store, R, occOf), c.tp)
          /\ residents' = (residents \cup TpsOf(R)) \ {c.tp}
          /\ SetThreshold(R)
    BY <1>2 DEF Select
  <2>2. R \in SUBSET Candidate /\ TpsOf(R) \subseteq Pair
    BY TopOfSubset, CandidatesType DEF TpsOf, StoreTypeOK
  <2> DEFINE h == Hydrated(store, R, occOf)
  <2>3. TableOK(h) /\ c.tp \in DOMAIN h
    BY <1>1, <2>2, HydratedType DEF StoreTypeOK, Hydrated
  <2>4. TableOK(store') /\ phase' = "merge"
        /\ merge' \in [tp : Key, content : Content, freq : Int, occ : SUBSET WordId]
    BY <2>1, <2>3, TakeType
  <2>5. threshold' \in {None} \cup Int
    BY <2>1, <2>2, SetThresholdType
  <2>6. merge' # None
    BY <2>1, NoneAssumption, <2>4 DEF Take, Candidate
  <2> QED BY <1>1, <2>1, <2>2, <2>4, <2>5, <2>6 DEF StoreTypeOK
<1>3. CASE ~Cold(c)
  <2>1. Take(store, c.tp) /\ residents' = residents \ {c.tp} /\ threshold' = threshold
    BY <1>3 DEF Select
  <2>2. TableOK(store') /\ phase' = "merge"
        /\ merge' \in [tp : Key, content : Content, freq : Int, occ : SUBSET WordId]
    BY <1>1, <2>1, TakeType DEF StoreTypeOK
  <2>3. merge' # None
    BY <2>2, NoneAssumption
  <2> QED BY <1>1, <2>1, <2>2, <2>3 DEF StoreTypeOK
<1> QED BY <1>2, <1>3

\* What a merge makes of the entry of a pair.
LEMMA ChangedType ==
  ASSUME TableOK(store), NEW tp \in Pair, NEW target \in Id,
         NEW d \in [content : Content, freq : Int, occ : SUBSET WordId]
  PROVE  Changed(tp, target, d) \in Entry
<1> DEFINE old == IF tp \in DOMAIN store
                  THEN store[tp]
                  ELSE [content |-> d.content, freq |-> 0, occ |-> None]
           held == IF old.occ = None THEN {} ELSE old.occ
           extended == IF d.freq > 0 THEN held \cup d.occ ELSE old.occ
<1>1. old \in Entry
  BY DEF TableOK, Entry
<1>2. old.content \in Content /\ old.freq + d.freq \in Int
  BY <1>1 DEF Entry
<1>3. old.occ \in {None} \cup SUBSET WordId
  BY <1>1 DEF Entry
<1>4. extended \in {None} \cup SUBSET WordId
  BY <1>3
<1> DEFINE occ == IF ~Bounded THEN extended
                  ELSE IF old.occ # None
                  THEN IF old.freq + d.freq > 0 THEN extended ELSE None
                  ELSE IF Admitted(tp, target, d) THEN d.occ ELSE None
<1>5. occ \in {None} \cup SUBSET WordId
  BY <1>4
<1>6. Changed(tp, target, d) = [content |-> old.content, freq |-> old.freq + d.freq, occ |-> occ]
  BY DEF Changed
<1> QED BY ONLY <1>2, <1>5, <1>6 DEF Entry

\* Releasing handles keeps a table well typed and changes no candidate.
LEMMA ReleasedTable ==
  ASSUME NEW t, TableOK(t), NEW K
  PROVE  /\ TableOK(Released(t, K))
         /\ Live(Released(t, K)) = Live(t)
         /\ \A tp \in Live(t) : CandIn(Released(t, K), tp) = CandIn(t, tp)
<1> DEFINE r == Released(t, K)
<1>1. DOMAIN r = DOMAIN t /\ r = [tp \in DOMAIN r |-> r[tp]]
  BY DEF Released
<1>2. ASSUME NEW tp \in DOMAIN t
      PROVE  r[tp] \in Entry /\ r[tp].freq = t[tp].freq /\ r[tp].content = t[tp].content
  <2>1. t[tp] \in Entry
    BY DEF TableOK
  <2>2. [t[tp] EXCEPT !.occ = None] \in Entry
    BY <2>1 DEF Entry
  <2> QED BY <2>1, <2>2 DEF Released, Entry
<1> QED BY <1>1, <1>2 DEF TableOK, Live, CandIn

\* Only pairs change, and the changed table is well typed.
LEMMA AppliedType ==
  ASSUME StoreTypeOK, NEW target \in Id, NEW changes \in Changes
  PROVE  /\ TableOK(Applied(target, changes))
         /\ Updated(changes) \subseteq Pair
<1> DEFINE t == Applied(target, changes)
<1>1. Updated(changes) \subseteq Pair
  BY DEF Changes, Updated
<1>2. ASSUME NEW tp \in Updated(changes)
      PROVE  changes[tp] \in [content : Content, freq : Int, occ : SUBSET WordId]
  <2>1. changes[tp] \in [content : Content, freq : Delta, occ : SUBSET WordId]
    BY DEF Changes, Updated
  <2> QED BY <2>1, FreqAssumption
<1>3. DOMAIN t \subseteq Key /\ t = [tp \in DOMAIN t |-> t[tp]]
  BY <1>1 DEF StoreTypeOK, TableOK, Key, Applied
<1>4. ASSUME NEW tp \in DOMAIN t
      PROVE  t[tp] \in Entry
  <2>1. CASE tp \in Updated(changes)
    BY <1>1, <1>2, <2>1, ChangedType DEF StoreTypeOK, Applied
  <2>2. CASE tp \notin Updated(changes)
    BY <2>2 DEF StoreTypeOK, TableOK, Applied
  <2> QED BY <2>1, <2>2
<1> QED BY <1>1, <1>3, <1>4 DEF TableOK

\* Applying the changes of a learned pair, with the prune or rebuild that
\* update_pre_merges ends in, leaves a well-typed store.
LEMMA ApplyType ==
  ASSUME StoreTypeOK, NEW target \in Id, NEW changes \in Changes, Apply(target, changes)
  PROVE  StoreTypeOK'
<1> DEFINE applied == Applied(target, changes)
           kept == Resident(applied, changes)
           ranked == {CandIn(applied, tp) : tp \in Live(applied) \cap kept}
<1>1. TableOK(applied) /\ Updated(changes) \subseteq Pair
  BY AppliedType
<1>2. kept \subseteq Pair
  BY <1>1 DEF StoreTypeOK, Resident
<1>3. heap' \subseteq Candidate
  <2>1. heap' = heap \cup {CandIn(applied, tp) :
                             tp \in {u \in Updated(changes) : Pushable(applied, u)}}
    BY DEF Apply, ApplyChanges
  <2>2. Updated(changes) \subseteq DOMAIN applied
    BY DEF Applied
  <2> QED BY <1>1, <2>1, <2>2, CandInType DEF StoreTypeOK
<1>4. merge' = None /\ phase' = "idle" /\ cutoff' = cutoff
  BY DEF Apply, ApplyChanges
<1>5. CASE NeedsPrune(kept)
  <2>1. PICK R \in TopOf(ranked) :
          /\ store' = Released(applied, kept \ TpsOf(R))
          /\ residents' = kept \cap TpsOf(R)
          /\ SetThreshold(R)
    BY <1>5 DEF Apply, ApplyChanges
  <2>2. R \in SUBSET Candidate
    BY <1>1, TopOfSubset, CandInType DEF Live
  <2>3. TableOK(store')
    BY <1>1, <2>1, ReleasedTable
  <2>4. threshold' \in {None} \cup Int
    BY <2>1, <2>2, SetThresholdType
  <2>5. residents' \subseteq Pair
    BY <1>2, <2>1
  <2> QED BY <1>3, <1>4, <2>3, <2>4, <2>5 DEF StoreTypeOK
<1>6. CASE ~NeedsPrune(kept)
  <2>1. store' = applied /\ residents' = kept /\ threshold' = threshold
    BY <1>6 DEF Apply, ApplyChanges
  <2> QED BY <1>1, <1>2, <1>3, <1>4, <2>1 DEF StoreTypeOK
<1> QED BY <1>5, <1>6

\* A restored table is well typed.
LEMMA RestoredType ==
  ASSUME StoreTypeOK, phase = "merge"
  PROVE  TableOK(Restored) /\ merge.tp \in DOMAIN Restored
<1>1. merge \in [tp : Key, content : Content, freq : Int, occ : SUBSET WordId]
  BY DEF StoreTypeOK
<1> QED BY <1>1 DEF StoreTypeOK, TableOK, Restored, Entry

\* Putting a declined merge back below the cutoff leaves a well-typed store.
LEMMA DeclineType ==
  ASSUME StoreTypeOK, Decline
  PROVE  StoreTypeOK'
<1>1. TableOK(store') /\ merge.tp \in DOMAIN Restored /\ TableOK(Restored)
  BY RestoredType DEF Decline
<1>2. heap' \subseteq Candidate
  BY <1>1, CandInType DEF Decline, StoreTypeOK
<1>3. residents' \subseteq Pair
  BY DEF Decline, Readmitted, StoreTypeOK
<1> QED BY <1>1, <1>2, <1>3 DEF Decline, StoreTypeOK

\* The empty store of new() is well typed.
LEMMA InitType == StoreInit => StoreTypeOK
BY DEF StoreInit, StoreTypeOK, TableOK

\* Every operation of the store keeps it well typed.
LEMMA StepType == StoreTypeOK /\ [StoreNext]_storeVars => StoreTypeOK'
<1> SUFFICES ASSUME StoreTypeOK, [StoreNext]_storeVars
             PROVE  StoreTypeOK'
  OBVIOUS
<1>1. ASSUME NEW counted \in Counted, NEW occOf \in Scans, Build(counted, occOf)
      PROVE  StoreTypeOK'
  BY <1>1, BuildType
<1>2. CASE Search
  BY <1>2 DEF Search, StoreTypeOK
<1>3. ASSUME NEW c \in heap, PopStale(c)
      PROVE  StoreTypeOK'
  BY <1>3 DEF PopStale, StoreTypeOK
<1>4. ASSUME NEW c \in heap, NEW occOf \in Scans, Select(c, occOf)
      PROVE  StoreTypeOK'
  BY <1>4, SelectType
<1>5. CASE Refill
  BY <1>5, RebuildType DEF Refill, StoreTypeOK
<1>6. CASE GiveUp
  BY <1>6, RebuildType DEF GiveUp, StoreTypeOK
<1>7. ASSUME NEW target \in Id, NEW changes \in Changes, Apply(target, changes)
      PROVE  StoreTypeOK'
  BY <1>7, ApplyType
<1>8. CASE ApplyUnit
  BY <1>8 DEF ApplyUnit, StoreTypeOK
<1>9. CASE Decline
  BY <1>9, DeclineType
<1>10. CASE UNCHANGED storeVars
  BY <1>10 DEF storeVars, StoreTypeOK
<1> QED BY <1>1, <1>2, <1>3, <1>4, <1>5, <1>6, <1>7, <1>8, <1>9, <1>10 DEF StoreNext

\* Every state of the store is well typed: a merge is held exactly between
\* _get_largest_merge and the step or restore that consumes it.
THEOREM TypeCorrect == StoreSpec => []StoreTypeOK
BY InitType, StepType, PTL DEF StoreSpec

-----------------------------------------------------------------------------
(* The order of candidates. *)

\* A candidate never ranks both below and above another.
LEMMA LessAsymmetric ==
  ASSUME NEW c \in Candidate, NEW d \in Candidate, Less(c, d)
  PROVE  ~Less(d, c)
<1>1. LabelOf(c) \in Label /\ LabelOf(d) \in Label
  BY DEF Candidate, Label, LabelOf
<1>2. TieLess(LabelOf(c), LabelOf(d)) => ~TieLess(LabelOf(d), LabelOf(c))
  BY ONLY <1>1, TieAssumption
<1>3. c.freq \in Int /\ d.freq \in Int
  BY DEF Candidate
<1>4. c.tp \in Key /\ d.tp \in Key
  BY DEF Candidate
<1> QED BY ONLY <1>2, <1>3, <1>4, Less(c, d), KeyAssumption DEF Less, Key

\* What separates c from e separates one of them from d: "not below" is
\* transitive.
LEMMA LessSplits ==
  ASSUME NEW c \in Candidate, NEW d \in Candidate, NEW e \in Candidate, Less(c, e)
  PROVE  Less(c, d) \/ Less(d, e)
<1>1. LabelOf(c) \in Label /\ LabelOf(d) \in Label /\ LabelOf(e) \in Label
  BY DEF Candidate, Label, LabelOf
<1>2. TieLess(LabelOf(c), LabelOf(e)) =>
        TieLess(LabelOf(c), LabelOf(d)) \/ TieLess(LabelOf(d), LabelOf(e))
  BY ONLY <1>1, TieAssumption
<1>3. c.freq \in Int /\ d.freq \in Int /\ e.freq \in Int
  BY DEF Candidate
<1>4. c.tp \in Key /\ d.tp \in Key /\ e.tp \in Key
  BY DEF Candidate
<1> QED BY ONLY <1>2, <1>3, <1>4, Less(c, e), KeyAssumption DEF Less, Key

-----------------------------------------------------------------------------
(* The frontier. *)

\* A candidate of s is in the heap h or waits below the cutoff k.
Covered(s, h, k) ==
  \A tp \in Live(s) : CandIn(s, tp) \in h \/ (k # None /\ ~Less(k, CandIn(s, tp)))

\* FrontierCovers and FrontierAboveCutoff are inductive only together with
\* the fact that exact mode has no cutoff. WinnerIsGlobal holds from the
\* selection of the winner until its call consumes it.
FrontierInv ==
  /\ StoreTypeOK
  /\ ~Bounded => cutoff = None
  /\ FrontierCovers
  /\ FrontierAboveCutoff
  /\ WinnerIsGlobal

\* Hydration changes no candidate.
LEMMA HydratedCandidates ==
  ASSUME NEW s, TableOK(s), NEW R, NEW occOf
  PROVE  /\ Live(Hydrated(s, R, occOf)) = Live(s)
         /\ \A tp \in Live(s) : CandIn(Hydrated(s, R, occOf), tp) = CandIn(s, tp)
<1> DEFINE h == Hydrated(s, R, occOf)
<1>1. DOMAIN h = DOMAIN s
  BY DEF Hydrated
<1>2. ASSUME NEW tp \in DOMAIN s
      PROVE  h[tp].freq = s[tp].freq /\ h[tp].content = s[tp].content
  BY DEF Hydrated, TableOK, Entry
<1> QED BY <1>1, <1>2 DEF Live, CandIn

\* A rebuilt frontier covers the table it was built from, and its cutoff is
\* the last candidate it kept.
LEMMA RebuildCovers ==
  ASSUME NEW s, TableOK(s), RebuildFrontier(s)
  PROVE  /\ Covered(s, heap', cutoff')
         /\ cutoff' # None => \A c \in heap' : ~Less(c, cutoff')
         /\ ~Bounded => cutoff' = None
<1>1. \A tp \in Live(s) : CandIn(s, tp) \in Candidates(s)
  BY DEF Candidates
<1>2. CASE ~Bounded
  BY <1>1, <1>2 DEF RebuildFrontier, Covered
<1>3. CASE Bounded
  <2>1. heap' \in TopOf(Candidates(s))
        /\ IF Cardinality(heap') = Window THEN cutoff' \in Lowest(heap') ELSE cutoff' = None
    BY <1>3 DEF RebuildFrontier
  <2>2. IsTop(heap', Candidates(s))
    BY <2>1 DEF TopOf
  <2>3. CASE Cardinality(heap') # Window
    BY <1>1, <1>3, <2>1, <2>2, <2>3 DEF IsTop, Covered
  <2>4. CASE Cardinality(heap') = Window
    <3>1. cutoff' \in heap' /\ \A d \in heap' : ~Less(d, cutoff')
      BY <2>1, <2>4 DEF Lowest
    <3>2. cutoff' # None
      BY <3>1, <2>2, CandidatesType, NoneAssumption DEF IsTop
    <3>3. \A c \in Candidates(s) \ heap' : ~Less(cutoff', c)
      BY <2>2, <3>1 DEF IsTop
    <3> QED BY <1>1, <1>3, <3>1, <3>2, <3>3 DEF Covered
  <2> QED BY <2>3, <2>4
<1> QED BY <1>2, <1>3

\* A popped candidate that is current beats every candidate of the table: the
\* ones in the heap because it was popped, the others through the cutoff.
LEMMA PoppedIsBest ==
  ASSUME FrontierInv, NEW c \in heap, Popped(c)
  PROVE  \A tp \in Live(store) : ~Less(c, CandIn(store, tp))
<1> SUFFICES ASSUME NEW tp \in Live(store), Less(c, CandIn(store, tp))
             PROVE  FALSE
  OBVIOUS
<1> DEFINE d == CandIn(store, tp)
<1>1. c \in Candidate /\ d \in Candidate
  BY CandInType DEF FrontierInv, StoreTypeOK, Live
<1>2. CASE d \in heap
  BY <1>2 DEF Popped
<1>3. CASE cutoff # None /\ ~Less(cutoff, d)
  <2>1. cutoff \in Candidate
    BY <1>3 DEF FrontierInv, StoreTypeOK
  <2>2. ~Less(c, cutoff)
    BY <1>3 DEF FrontierInv, FrontierAboveCutoff
  <2> QED BY <1>1, <1>3, <2>1, <2>2, LessSplits
<1> QED BY <1>2, <1>3 DEF FrontierInv, FrontierCovers

\* The two conjuncts that speak of the frontier only.
Frontier ==
  /\ ~Bounded => cutoff = None
  /\ FrontierCovers
  /\ FrontierAboveCutoff

\* The first frontier (_build_pre_merges) satisfies the inductive invariant.
LEMMA BuildFrontier ==
  ASSUME StoreTypeOK, NEW counted \in Counted, NEW occOf \in Scans, Build(counted, occOf)
  PROVE  Frontier'
<1> DEFINE fresh == Fresh(counted, occOf)
<1>1. TableOK(fresh)
  BY FreshType
<1>2. /\ Covered(fresh, heap', cutoff')
      /\ cutoff' # None => \A c \in heap' : ~Less(c, cutoff')
      /\ ~Bounded => cutoff' = None
  BY <1>1, RebuildCovers DEF Build
<1>3. Covered(store', heap', cutoff')
  <2>1. CASE Bounded
    BY <1>1, <1>2, <2>1, HydratedCandidates DEF Build, Covered
  <2>2. CASE ~Bounded
    BY <1>2, <2>2 DEF Build
  <2> QED BY <2>1, <2>2
<1> QED BY <1>2, <1>3 DEF Frontier, FrontierCovers, FrontierAboveCutoff, Covered

\* The table keeps every candidate but the selected one.
LEMMA TakeCandidates ==
  ASSUME NEW s, NEW tp, Take(s, tp)
  PROVE  /\ Live(store') = Live(s) \ {tp}
         /\ \A k \in Live(store') : CandIn(store', k) = CandIn(s, k)
BY DEF Take, Live, CandIn

\* Selecting c takes its key away, changes no other candidate, and makes c
\* the winner.
LEMMA SelectCandidates ==
  ASSUME StoreTypeOK, NEW c \in heap, NEW occOf \in Scans, Select(c, occOf)
  PROVE  /\ Live(store') = Live(store) \ {c.tp}
         /\ \A tp \in Live(store') : CandIn(store', tp) = CandIn(store, tp)
         /\ Winner' = c
<1>1. c.tp \in DOMAIN store /\ CandIn(store, c.tp) = c
  BY DEF Select, Current
<1>2. CASE Cold(c)
  <2>1. PICK R \in TopOf(PairCandidates(store)) : Take(Hydrated(store, R, occOf), c.tp)
    BY <1>2 DEF Select
  <2> DEFINE h == Hydrated(store, R, occOf)
  <2>2. Live(h) = Live(store) /\ \A tp \in Live(store) : CandIn(h, tp) = CandIn(store, tp)
    BY HydratedCandidates DEF StoreTypeOK
  <2>3. c.tp \in Live(store)
    BY <1>1 DEF Select, Current, Live, CandIn
  <2>4. Winner' = CandIn(h, c.tp)
    BY <2>1 DEF Take, Winner, CandIn
  <2>5. /\ Live(store') = Live(h) \ {c.tp}
        /\ \A k \in Live(store') : CandIn(store', k) = CandIn(h, k)
    BY <2>1, TakeCandidates
  <2> QED BY <1>1, <2>2, <2>3, <2>4, <2>5
<1>3. CASE ~Cold(c)
  <2>1. Take(store, c.tp)
    BY <1>3 DEF Select
  <2>2. Winner' = CandIn(store, c.tp)
    BY <2>1 DEF Take, Winner, CandIn
  <2> QED BY <1>1, <2>1, <2>2, TakeCandidates
<1> QED BY <1>2, <1>3

\* Selecting a winner keeps the inductive invariant: what remains in the heap
\* or below the cutoff is what the frontier has to cover.
LEMMA SelectFrontier ==
  ASSUME FrontierInv, NEW c \in heap, NEW occOf \in Scans, Select(c, occOf)
  PROVE  Frontier' /\ WinnerIsGlobal'
<1>1. /\ Live(store') = Live(store) \ {c.tp}
      /\ \A tp \in Live(store') : CandIn(store', tp) = CandIn(store, tp)
      /\ Winner' = c
  BY SelectCandidates DEF FrontierInv
<1>2. heap' = heap \ {c} /\ cutoff' = cutoff /\ Popped(c)
  BY DEF Select
<1>3. \A tp \in Live(store') : CandIn(store', tp) # c
  BY <1>1 DEF CandIn
<1>4. FrontierCovers'
  BY <1>1, <1>2, <1>3 DEF FrontierInv, FrontierCovers
<1>5. FrontierAboveCutoff'
  BY <1>2 DEF FrontierInv, FrontierAboveCutoff
<1>6. WinnerIsGlobal'
  BY <1>1, <1>2, PoppedIsBest DEF WinnerIsGlobal
<1> QED BY <1>2, <1>4, <1>5, <1>6 DEF Frontier, FrontierInv

\* Changing the table to t and pushing every changed key that may be pushed
\* keeps the frontier: a changed candidate is in the heap or below the cutoff.
LEMMA PushKeepsFrontier ==
  ASSUME FrontierInv, NEW t, TableOK(t), NEW U, U \subseteq DOMAIN t,
         \A tp \in DOMAIN t \ U : tp \in DOMAIN store /\ CandIn(t, tp) = CandIn(store, tp),
         heap' = heap \cup {CandIn(t, tp) : tp \in {u \in U : Pushable(t, u)}},
         cutoff' = cutoff,
         Live(store') = Live(t),
         \A tp \in Live(t) : CandIn(store', tp) = CandIn(t, tp)
  PROVE  Frontier'
<1>1. ASSUME NEW tp \in Live(t)
      PROVE  CandIn(t, tp) \in heap' \/ (cutoff # None /\ ~Less(cutoff, CandIn(t, tp)))
  <2>1. CASE tp \in U /\ Pushable(t, tp)
    BY <2>1
  <2>2. CASE tp \in U /\ ~Pushable(t, tp)
    <3>1. Bounded /\ cutoff # None /\ Less(CandIn(t, tp), cutoff)
      BY <2>2 DEF Pushable, Live
    <3>2. CandIn(t, tp) \in Candidate /\ cutoff \in Candidate
      BY <3>1, CandInType DEF Live, FrontierInv, StoreTypeOK
    <3> QED BY <3>1, <3>2, LessAsymmetric
  <2>3. CASE tp \notin U
    <3>1. tp \in Live(store) /\ CandIn(t, tp) = CandIn(store, tp)
      BY <2>3 DEF Live, CandIn
    <3> QED BY <3>1 DEF FrontierInv, FrontierCovers
  <2> QED BY <2>1, <2>2, <2>3
<1>2. FrontierCovers'
  BY <1>1 DEF FrontierCovers
<1>3. ASSUME cutoff' # None, NEW c \in heap'
      PROVE  ~Less(c, cutoff')
  <2>1. CASE c \in heap
    BY <1>3, <2>1 DEF FrontierInv, FrontierAboveCutoff
  <2>2. CASE c \notin heap
    <3>1. PICK tp \in U : Pushable(t, tp) /\ c = CandIn(t, tp)
      BY <2>2
    <3> QED BY <1>3, <3>1 DEF Pushable, FrontierInv
  <2> QED BY <2>1, <2>2
<1> QED BY <1>2, <1>3 DEF Frontier, FrontierInv, FrontierAboveCutoff

\* Applying a learned pair keeps the inductive invariant, whether it pushes
\* the changed pairs or rebuilds the heap after a prune.
LEMMA ApplyFrontier ==
  ASSUME FrontierInv, NEW target \in Id, NEW changes \in Changes, Apply(target, changes)
  PROVE  Frontier'
<1> DEFINE t == Applied(target, changes)
           kept == Resident(t, changes)
<1>1. TableOK(t) /\ Updated(changes) \subseteq DOMAIN t
  BY AppliedType DEF FrontierInv, Applied
<1>2. \A tp \in DOMAIN t \ Updated(changes) :
        tp \in DOMAIN store /\ CandIn(t, tp) = CandIn(store, tp)
  BY DEF Applied, CandIn
<1>3. /\ heap' = heap \cup {CandIn(t, tp) : tp \in {u \in Updated(changes) : Pushable(t, u)}}
      /\ cutoff' = cutoff
  BY DEF Apply, ApplyChanges
<1>4. \/ \E K : store' = Released(t, K)
      \/ store' = t
  BY DEF Apply, ApplyChanges
<1>5. Live(store') = Live(t) /\ \A tp \in Live(t) : CandIn(store', tp) = CandIn(t, tp)
  BY <1>1, <1>4, ReleasedTable
<1> QED BY ONLY FrontierInv, <1>1, <1>2, <1>3, <1>5, PushKeepsFrontier

\* Restoring a declined merge (train_until below the cutoff) keeps the
\* inductive invariant: the pair is pushed again.
LEMMA DeclineFrontier ==
  ASSUME FrontierInv, Decline
  PROVE  Frontier'
<1> DEFINE t == Restored
           U == {merge.tp}
<1>1. TableOK(t) /\ U \subseteq DOMAIN t
  BY RestoredType DEF Decline, FrontierInv
<1>2. \A tp \in DOMAIN t \ U : tp \in DOMAIN store /\ CandIn(t, tp) = CandIn(store, tp)
  BY DEF Restored, CandIn
<1>3. /\ heap' = heap \cup {CandIn(t, tp) : tp \in {u \in U : Pushable(t, u)}}
      /\ cutoff' = cutoff
  BY DEF Decline
<1>4. Live(store') = Live(t) /\ \A tp \in Live(t) : CandIn(store', tp) = CandIn(t, tp)
  BY DEF Decline
<1> HIDE DEF t, U
<1> QED BY ONLY FrontierInv, <1>1, <1>2, <1>3, <1>4, PushKeepsFrontier

\* The empty store satisfies the inductive invariant.
LEMMA FrontierInvInit == StoreInit => FrontierInv
<1> SUFFICES ASSUME StoreInit PROVE FrontierInv
  OBVIOUS
<1>1. Live(store) = {}
  BY DEF StoreInit, Live
<1> QED BY <1>1, InitType DEF StoreInit, FrontierInv, FrontierCovers,
           FrontierAboveCutoff, WinnerIsGlobal

\* Every operation of the store keeps the inductive invariant.
LEMMA FrontierInvStep == FrontierInv /\ [StoreNext]_storeVars => FrontierInv'
<1> SUFFICES ASSUME FrontierInv, [StoreNext]_storeVars
             PROVE  FrontierInv'
  OBVIOUS
<1>1. StoreTypeOK /\ StoreTypeOK'
  BY StepType DEF FrontierInv
<1>2. WinnerIsGlobal' \/ merge' # None
  BY DEF WinnerIsGlobal
<1>3. Frontier /\ WinnerIsGlobal
  BY DEF FrontierInv, Frontier
<1> SUFFICES Frontier' /\ WinnerIsGlobal'
  BY <1>1 DEF FrontierInv, Frontier
<1>4. ASSUME NEW counted \in Counted, NEW occOf \in Scans, Build(counted, occOf)
      PROVE  Frontier' /\ WinnerIsGlobal'
  <2>1. merge' = None
    BY <1>1, <1>4 DEF Build, StoreTypeOK
  <2> QED BY <1>1, <1>2, <1>4, <2>1, BuildFrontier
<1>5. CASE Search
  BY <1>3, <1>5 DEF Search, Frontier, FrontierCovers, FrontierAboveCutoff,
       WinnerIsGlobal, Winner
<1>6. ASSUME NEW c \in heap, PopStale(c)
      PROVE  Frontier' /\ WinnerIsGlobal'
  <2>1. \A tp \in Live(store) : CandIn(store, tp) # c
    BY <1>6 DEF PopStale, Current, Live, CandIn
  <2>2. heap' = heap \ {c} /\ cutoff' = cutoff /\ store' = store /\ merge' = merge
    BY <1>6 DEF PopStale
  <2> QED BY <1>3, <2>1, <2>2 DEF Frontier, FrontierCovers, FrontierAboveCutoff,
             WinnerIsGlobal, Winner
<1>7. ASSUME NEW c \in heap, NEW occOf \in Scans, Select(c, occOf)
      PROVE  Frontier' /\ WinnerIsGlobal'
  BY <1>7, SelectFrontier
<1>8. ASSUME RebuildFrontier(store), store' = store, merge' = merge
      PROVE  Frontier' /\ WinnerIsGlobal'
  <2>1. WinnerIsGlobal'
    BY <1>3, <1>8 DEF WinnerIsGlobal, Winner
  <2>2. Frontier'
    BY <1>1, <1>8, RebuildCovers DEF Frontier, FrontierCovers, FrontierAboveCutoff,
         Covered, StoreTypeOK
  <2> QED BY <2>1, <2>2
<1>9. CASE Refill
  BY <1>8, <1>9 DEF Refill
<1>10. CASE GiveUp
  <2>1. CASE UNCHANGED <<heap, cutoff>>
    BY <1>3, <1>10, <2>1 DEF GiveUp, Frontier, FrontierCovers, FrontierAboveCutoff,
         WinnerIsGlobal, Winner
  <2>2. CASE RebuildFrontier(store)
    BY <1>8, <1>10, <2>2 DEF GiveUp
  <2> QED BY <1>10, <2>1, <2>2 DEF GiveUp
<1>11. ASSUME NEW target \in Id, NEW changes \in Changes, Apply(target, changes)
       PROVE  Frontier' /\ WinnerIsGlobal'
  <2>1. merge' = None
    BY <1>11 DEF Apply, ApplyChanges
  <2> QED BY <1>2, <1>11, <2>1, ApplyFrontier
<1>12. CASE ApplyUnit
  BY <1>2, <1>3, <1>12 DEF ApplyUnit, Frontier, FrontierCovers, FrontierAboveCutoff
<1>13. CASE Decline
  <2>1. merge' = None
    BY <1>13 DEF Decline
  <2> QED BY <1>2, <1>13, <2>1, DeclineFrontier
<1>14. CASE UNCHANGED storeVars
  BY <1>3, <1>14 DEF storeVars, Frontier, FrontierCovers, FrontierAboveCutoff,
       WinnerIsGlobal, Winner
<1> QED BY <1>4, <1>5, <1>6, <1>7, <1>9, <1>10, <1>11, <1>12, <1>13, <1>14 DEF StoreNext

\* No candidate is ever lost: what the heap does not hold waits below the
\* cutoff, and nothing in the heap does.
THEOREM FrontierIsCorrect == StoreSpec => [](FrontierCovers /\ FrontierAboveCutoff)
<1>1. FrontierInv => FrontierCovers /\ FrontierAboveCutoff
  BY DEF FrontierInv
<1> QED BY <1>1, FrontierInvInit, FrontierInvStep, PTL DEF StoreSpec

\* _get_largest_merge returns the best candidate of the whole table, although
\* in bounded mode the heap only ever held a part of it.
THEOREM WinnerIsExact == StoreSpec => []WinnerIsGlobal
<1>1. FrontierInv => WinnerIsGlobal
  BY DEF FrontierInv
<1> QED BY <1>1, FrontierInvInit, FrontierInvStep, PTL DEF StoreSpec

\* An empty heap without a cutoff covers an empty table only.
LEMMA DryFrontier ==
  ASSUME FrontierInv, heap = {}, cutoff = None
  PROVE  Candidates(store) = {}
BY DEF FrontierInv, FrontierCovers, Candidates

\* _get_largest_merge returns None, and its caller Err(TrainStep), only when no
\* pair and no initial unit can be learned any more.
THEOREM NoneIsHonest == StoreSpec => NoneMeansExhausted
<1>1. FrontierInv /\ [StoreNext]_storeVars
        => [phase = "search" /\ phase' = "idle" => Candidates(store) = {}]_storeVars
  <2> SUFFICES ASSUME FrontierInv, StoreNext, phase = "search", phase' = "idle"
               PROVE  Candidates(store) = {}
    OBVIOUS
  <2>1. CASE GiveUp
    BY <2>1, DryFrontier DEF GiveUp
  <2>2. ASSUME NEW counted \in Counted, NEW occOf \in Scans, Build(counted, occOf)
        PROVE  FALSE
    BY <2>2 DEF Build
  <2>3. ASSUME NEW c \in heap, PopStale(c)
        PROVE  FALSE
    BY <2>3 DEF PopStale
  <2>4. ASSUME NEW c \in heap, NEW occOf \in Scans, Select(c, occOf)
        PROVE  FALSE
    <3>1. phase' = "merge"
      BY <2>4 DEF Select, Take
    <3> QED BY <3>1
  <2>5. ASSUME NEW target \in Id, NEW changes \in Changes, Apply(target, changes)
        PROVE  FALSE
    BY <2>5 DEF Apply, ApplyChanges
  <2>6. ~Search /\ ~Refill /\ ~ApplyUnit /\ ~Decline
    BY DEF Search, Refill, ApplyUnit, Decline
  <2> QED BY <2>1, <2>2, <2>3, <2>4, <2>5, <2>6 DEF StoreNext
<1> QED BY <1>1, FrontierInvInit, FrontierInvStep, PTL DEF StoreSpec, NoneMeansExhausted

\* A cold winner is in every top-K refill when no two pairs tie: it beats all
\* pairs of the table, and a refill leaves out only pairs that beat none of its
\* own.
LEMMA ColdWinner == FrontierInv /\ NoTies => ColdWinnerIsRanked
<1> SUFFICES ASSUME FrontierInv, NoTies,
                    NEW c \in heap, Popped(c), Current(c), Cold(c),
                    NEW R \in TopOf(PairCandidates(store)), c \notin R
             PROVE  FALSE
  BY DEF ColdWinnerIsRanked
<1>1. c.tp \in Live(store) \cap Pair /\ c = CandIn(store, c.tp)
  BY DEF Current, Cold, Live, CandIn
<1>2. c \in PairCandidates(store)
  BY <1>1 DEF PairCandidates
<1>3. IsTop(R, PairCandidates(store))
  BY DEF TopOf
<1>4. Cardinality(R) = Window /\ \A d \in R : ~Less(d, c)
  BY <1>2, <1>3 DEF IsTop
<1>5. R # {}
  BY <1>4, FS_EmptySet, WindowAssumption DEF Cold, Bounded
<1>6. PICK d \in R : TRUE
  BY <1>5
<1>7. PICK tp \in Live(store) \cap Pair : d = CandIn(store, tp)
  BY <1>3, <1>6 DEF IsTop, PairCandidates
<1>8. tp # c.tp
  BY <1>1, <1>6, <1>7
<1>9. Less(c, d) \/ Less(d, c)
  BY <1>1, <1>7, <1>8 DEF NoTies
<1>10. ~Less(c, d)
  BY <1>7, PoppedIsBest
<1> QED BY <1>4, <1>6, <1>9, <1>10

\* The assertion of hydrate cannot fail while no two pairs tie.
THEOREM ColdWinnerIsInRefill == StoreSpec => [](NoTies => ColdWinnerIsRanked)
<1>1. FrontierInv => (NoTies => ColdWinnerIsRanked)
  BY ColdWinner
<1> QED BY <1>1, FrontierInvInit, FrontierInvStep, PTL DEF StoreSpec

-----------------------------------------------------------------------------
(* Residency. *)

\* The keys of a table that hold a handle.
Held(s) == {tp \in DOMAIN s : s[tp].occ # None}

\* The first hydration makes residents of exactly the pairs it gives handles.
LEMMA BuildResidency ==
  ASSUME Bounded, NEW counted \in Counted, NEW occOf \in Scans, Build(counted, occOf)
  PROVE  residents' = Held(store')
<1> DEFINE fresh == Fresh(counted, occOf)
<1>1. TableOK(fresh) /\ \A tp \in DOMAIN fresh : fresh[tp].occ = None
  BY FreshType DEF Fresh, Entered
<1>2. PICK R \in TopOf(PairCandidates(fresh)) :
        store' = Hydrated(fresh, R, occOf) /\ residents' = TpsOf(R)
  BY DEF Build
<1>3. TpsOf(R) \subseteq DOMAIN fresh \cap Pair
  BY TopOfSubset DEF TpsOf, PairCandidates, Live, CandIn
<1>4. ASSUME NEW tp \in DOMAIN fresh
      PROVE  store'[tp].occ # None <=> tp \in TpsOf(R)
  <2>1. CASE tp \in TpsOf(R)
    <3>1. occOf[tp] \in SUBSET WordId
      BY <1>3, <2>1 DEF Scans
    <3>2. store'[tp] = [fresh[tp] EXCEPT !.occ = occOf[tp]]
      BY <1>1, <1>2, <2>1 DEF Hydrated
    <3>3. fresh[tp] \in Entry
      BY <1>1 DEF TableOK
    <3>4. store'[tp].occ = occOf[tp]
      BY <3>2, <3>3 DEF Entry
    <3> QED BY <2>1, <3>1, <3>4, NoneAssumption
  <2>2. CASE tp \notin TpsOf(R)
    BY <1>1, <1>2, <2>2 DEF Hydrated
  <2> QED BY <2>1, <2>2
<1>5. DOMAIN store' = DOMAIN fresh
  BY <1>2 DEF Hydrated
<1> QED BY <1>2, <1>3, <1>4, <1>5 DEF Held

\* Hydration gives handles to the ranked pairs, and only to them.
LEMMA HydratedHeld ==
  ASSUME NEW s, TableOK(s), NEW R \in TopOf(PairCandidates(s)), NEW occOf \in Scans
  PROVE  Held(Hydrated(s, R, occOf)) = Held(s) \cup TpsOf(R)
<1> DEFINE h == Hydrated(s, R, occOf)
<1>1. TpsOf(R) \subseteq DOMAIN s \cap Pair /\ DOMAIN h = DOMAIN s
  BY TopOfSubset DEF TpsOf, PairCandidates, Live, CandIn, Hydrated
<1>2. ASSUME NEW tp \in DOMAIN s
      PROVE  h[tp].occ # None <=> s[tp].occ # None \/ tp \in TpsOf(R)
  <2>1. CASE tp \in TpsOf(R) /\ s[tp].occ = None
    <3>1. occOf[tp] \in SUBSET WordId
      BY <1>1, <2>1 DEF Scans
    <3>2. h[tp] = [s[tp] EXCEPT !.occ = occOf[tp]] /\ s[tp] \in Entry
      BY <2>1 DEF Hydrated, TableOK
    <3>3. h[tp].occ = occOf[tp]
      BY <3>2 DEF Entry
    <3> QED BY <2>1, <3>1, <3>3, NoneAssumption
  <2>2. CASE ~(tp \in TpsOf(R) /\ s[tp].occ = None)
    BY <2>2 DEF Hydrated
  <2> QED BY <2>1, <2>2
<1> QED BY <1>1, <1>2 DEF Held

\* A selection hands over the winner's occurrence set and drops it from the
\* residents, after the refill a cold winner causes.
LEMMA SelectResidency ==
  ASSUME StoreTypeOK, Bounded, ResidencyAgrees,
         NEW c \in heap, NEW occOf \in Scans, Select(c, occOf)
  PROVE  residents' = Held(store')
<1>1. residents = Held(store)
  BY DEF ResidencyAgrees, Held
<1>2. ASSUME NEW s, Take(s, c.tp)
      PROVE  Held(store') = Held(s) \ {c.tp}
  BY <1>2 DEF Take, Held
<1>3. CASE Cold(c)
  <2>1. PICK R \in TopOf(PairCandidates(store)) :
          /\ Take(Hydrated(store, R, occOf), c.tp)
          /\ residents' = (residents \cup TpsOf(R)) \ {c.tp}
    BY <1>3 DEF Select
  <2>2. Held(Hydrated(store, R, occOf)) = Held(store) \cup TpsOf(R)
    BY HydratedHeld DEF StoreTypeOK
  <2> QED BY <1>1, <1>2, <2>1, <2>2
<1>4. CASE ~Cold(c)
  BY <1>1, <1>2, <1>4 DEF Select
<1> QED BY <1>3, <1>4

\* Pruning releases exactly the residents it did not rank.
LEMMA ReleasedHeld ==
  ASSUME NEW t, TableOK(t), NEW K
  PROVE  Held(Released(t, K)) = Held(t) \ K
<1>1. ASSUME NEW tp \in DOMAIN t
      PROVE  [t[tp] EXCEPT !.occ = None].occ = None
  BY DEF TableOK, Entry
<1> QED BY <1>1 DEF Held, Released

\* The changes of a merge drop, keep and admit residents together with their
\* handles, and a prune releases both.
LEMMA ApplyResidency ==
  ASSUME StoreTypeOK, Bounded, ResidencyAgrees,
         NEW target \in Id, NEW changes \in Changes, Apply(target, changes)
  PROVE  residents' = Held(store')
<1> DEFINE t == Applied(target, changes)
           kept == Resident(t, changes)
<1>1. TableOK(t)
  BY AppliedType
<1>2. kept = Held(t)
  BY DEF Resident, ResidencyAgrees, HasHandle, Held, Applied
<1>3. CASE NeedsPrune(kept)
  <2>1. PICK R : /\ store' = Released(t, kept \ TpsOf(R))
                 /\ residents' = kept \cap TpsOf(R)
    BY <1>3 DEF Apply, ApplyChanges
  <2> QED BY <1>1, <1>2, <2>1, ReleasedHeld
<1>4. CASE ~NeedsPrune(kept)
  BY <1>2, <1>4 DEF Apply, ApplyChanges
<1> QED BY <1>3, <1>4

\* restore_pair gives a declined merge back its handle and its residency.
LEMMA DeclineResidency ==
  ASSUME StoreTypeOK, Bounded, ResidencyAgrees, Decline
  PROVE  residents' = Held(store')
<1>1. merge.occ \in SUBSET WordId
  BY DEF Decline, StoreTypeOK
<1>2. merge.occ # None
  BY <1>1, NoneAssumption
<1> QED BY <1>2 DEF Decline, Restored, Readmitted, ResidencyAgrees, Held

\* Every operation of the store keeps residents and handles in agreement.
LEMMA ResidencyStep ==
  StoreTypeOK /\ ResidencyAgrees /\ [StoreNext]_storeVars => ResidencyAgrees'
<1> SUFFICES ASSUME StoreTypeOK, ResidencyAgrees, [StoreNext]_storeVars, Bounded
             PROVE  residents' = Held(store')
  BY DEF ResidencyAgrees, Held, Bounded
<1>1. residents = Held(store)
  BY DEF ResidencyAgrees, Held
<1>2. ASSUME NEW counted \in Counted, NEW occOf \in Scans, Build(counted, occOf)
      PROVE  residents' = Held(store')
  BY <1>2, BuildResidency
<1>3. ASSUME NEW c \in heap, PopStale(c)
      PROVE  residents' = Held(store')
  BY <1>1, <1>3 DEF PopStale
<1>4. ASSUME NEW c \in heap, NEW occOf \in Scans, Select(c, occOf)
      PROVE  residents' = Held(store')
  BY <1>4, SelectResidency
<1>5. ASSUME NEW target \in Id, NEW changes \in Changes, Apply(target, changes)
      PROVE  residents' = Held(store')
  BY <1>5, ApplyResidency
<1>6. CASE Search \/ Refill \/ GiveUp \/ ApplyUnit \/ UNCHANGED storeVars
  BY <1>1, <1>6 DEF Search, Refill, GiveUp, ApplyUnit, storeVars
<1>7. CASE Decline
  BY <1>7, DeclineResidency
<1> QED BY <1>2, <1>3, <1>4, <1>5, <1>6, <1>7 DEF StoreNext

\* debug_assert_residency never fails: through hydration, admission, drops,
\* prunes, takes and restores, residents are the pairs with a handle.
THEOREM ResidencyIsCorrect == StoreSpec => []ResidencyAgrees
<1> DEFINE Inv == StoreTypeOK /\ ResidencyAgrees
<1>1. StoreInit => Inv
  BY InitType DEF StoreInit, ResidencyAgrees
<1>2. Inv /\ [StoreNext]_storeVars => Inv'
  BY StepType, ResidencyStep
<1>3. Inv => ResidencyAgrees
  OBVIOUS
<1> QED BY <1>1, <1>2, <1>3, PTL DEF StoreSpec

-----------------------------------------------------------------------------
(* What the operations leave in the table and in the held merge, in terms of
   its entries. *)

\* A selection keeps something of what is not empty, and its threshold says so.
LEMMA TopIsEmpty ==
  ASSUME Bounded, NEW S, S \subseteq Candidate, NEW R \in TopOf(S), SetThreshold(R),
         threshold' = None
  PROVE  S = {}
<1>1. R = {}
  <2> SUFFICES ASSUME NEW d \in Lowest(R), threshold' = d.freq PROVE FALSE
    BY DEF SetThreshold
  <2>1. d \in Candidate
    BY DEF Lowest, TopOf
  <2> QED BY <2>1, NoneAssumption DEF Candidate
<1>2. Cardinality(R) = 0
  BY <1>1, FS_EmptySet
<1> QED BY <1>1, <1>2 DEF TopOf, IsTop, Bounded

\* A table that was just built holds what was counted.
LEMMA BuildEntries ==
  ASSUME NEW counted \in Counted, NEW occOf \in Scans, Build(counted, occOf)
  PROVE  /\ DOMAIN store' = DOMAIN counted
         /\ \A tp \in DOMAIN counted :
              /\ store'[tp].freq = counted[tp].freq
              /\ store'[tp].content = counted[tp].content
              /\ tp \in Pair => /\ store'[tp].occ \in {None, occOf[tp]}
                                /\ Bounded \/ store'[tp].occ = occOf[tp]
                                /\ Bounded /\ store'[tp].occ # None => counted[tp].freq > 0
         /\ Bounded /\ threshold' = None => Live(store') \cap Pair = {}
         /\ UNCHANGED <<merge, phase>>
<1> DEFINE fresh == Fresh(counted, occOf)
<1>1. TableOK(fresh)
  BY FreshType
<1>2. /\ DOMAIN fresh = DOMAIN counted
      /\ \A tp \in DOMAIN counted :
           /\ fresh[tp].freq = counted[tp].freq
           /\ fresh[tp].content = counted[tp].content
           /\ tp \in Pair => fresh[tp].occ = IF Bounded THEN None ELSE occOf[tp]
  BY DEF Fresh, Entered
<1> HIDE DEF fresh
<1>3. CASE ~Bounded
  BY <1>2, <1>3 DEF Build, fresh
<1>4. CASE Bounded
  <2>1. PICK R \in TopOf(PairCandidates(fresh)) :
          store' = Hydrated(fresh, R, occOf) /\ SetThreshold(R)
    BY <1>4 DEF Build, fresh
  <2>2. TpsOf(R) \subseteq Live(fresh) \cap Pair
    BY <2>1, TopOfSubset DEF TpsOf, PairCandidates, CandIn
  <2>3. DOMAIN store' = DOMAIN counted
    BY <1>2, <2>1 DEF Hydrated
  <2>4. ASSUME NEW tp \in DOMAIN counted
        PROVE  /\ store'[tp].freq = counted[tp].freq
               /\ store'[tp].content = counted[tp].content
               /\ tp \in Pair => /\ store'[tp].occ \in {None, occOf[tp]}
                                 /\ store'[tp].occ # None => counted[tp].freq > 0
    <3>1. store'[tp] = IF tp \in TpsOf(R) /\ fresh[tp].occ = None
                       THEN [fresh[tp] EXCEPT !.occ = occOf[tp]] ELSE fresh[tp]
      BY <1>2, <2>1 DEF Hydrated
    <3>2. fresh[tp] \in Entry
      BY <1>1, <1>2 DEF TableOK
    <3>3. tp \in TpsOf(R) => counted[tp].freq > 0
      BY <1>2, <2>2 DEF Live
    <3>4. tp \in Pair => fresh[tp].occ = None
      BY <1>2, <1>4
    <3> QED BY <1>2, <3>1, <3>2, <3>3, <3>4 DEF Entry
  <2>5. threshold' = None => Live(store') \cap Pair = {}
    <3> SUFFICES ASSUME threshold' = None, NEW tp \in Live(store') \cap Pair PROVE FALSE
      OBVIOUS
    <3>1. PairCandidates(fresh) = {}
      BY <1>1, <1>4, <2>1, TopIsEmpty, CandidatesType
    <3>2. tp \in Live(fresh) \cap Pair
      BY <1>1, <2>1, HydratedCandidates
    <3> QED BY <3>1, <3>2 DEF PairCandidates
  <2> QED BY <1>4, <2>3, <2>4, <2>5 DEF Build
<1> QED BY <1>3, <1>4

\* Selecting c takes its entry out as the merge; hydration gives a scan to the
\* pairs that have no handle, and to a cold winner.
LEMMA SelectEntries ==
  ASSUME StoreTypeOK, NEW c \in heap, NEW occOf \in Scans, Select(c, occOf)
  PROVE  /\ c.tp \in DOMAIN store /\ c.freq > 0 /\ CandIn(store, c.tp) = c
         /\ DOMAIN store' = DOMAIN store \ {c.tp}
         /\ \A tp \in DOMAIN store' :
              /\ store'[tp].freq = store[tp].freq
              /\ store'[tp].content = store[tp].content
              /\ \/ store'[tp].occ = store[tp].occ
                 \/ /\ Bounded /\ tp \in Pair /\ store[tp].freq > 0
                    /\ store'[tp].occ = occOf[tp]
         /\ phase' = "merge" /\ merge'.tp = c.tp
         /\ merge'.freq = c.freq /\ merge'.content = c.content
         /\ c.tp \in Pair =>
              \/ store[c.tp].occ = None /\ merge'.occ = {} /\ ~Bounded
              \/ store[c.tp].occ = None /\ merge'.occ = occOf[c.tp] /\ threshold' # None
              \/ store[c.tp].occ # None /\ merge'.occ = store[c.tp].occ
         /\ threshold' = threshold \/ threshold' # None
<1>1. c.tp \in DOMAIN store /\ c.freq > 0 /\ CandIn(store, c.tp) = c
  BY DEF Select, Current
<1>2. store[c.tp].freq = c.freq /\ store[c.tp].content = c.content
  BY <1>1 DEF CandIn
<1>3. CASE ~Cold(c)
  <2>1. Take(store, c.tp) /\ UNCHANGED threshold
    BY <1>3 DEF Select
  <2> QED BY <1>1, <1>2, <1>3, <2>1 DEF Take, Cold
<1>4. CASE Cold(c)
  <2>1. PICK R \in TopOf(PairCandidates(store)) :
          c \in R /\ Take(Hydrated(store, R, occOf), c.tp) /\ SetThreshold(R)
    BY <1>4 DEF Select
  <2> DEFINE h == Hydrated(store, R, occOf)
  <2>2. TpsOf(R) \subseteq Live(store) \cap Pair /\ c.tp \in TpsOf(R)
    BY <2>1, TopOfSubset DEF TpsOf, PairCandidates, CandIn
  <2>3. DOMAIN h = DOMAIN store
    BY DEF Hydrated
  <2>4. ASSUME NEW tp \in DOMAIN store
        PROVE  /\ h[tp].freq = store[tp].freq
               /\ h[tp].content = store[tp].content
               /\ IF tp \in TpsOf(R) /\ store[tp].occ = None
                  THEN h[tp].occ = occOf[tp] ELSE h[tp].occ = store[tp].occ
               /\ tp \in TpsOf(R) => tp \in Pair /\ store[tp].freq > 0
    BY <2>2 DEF Hydrated, StoreTypeOK, TableOK, Entry, Live
  <2> HIDE DEF h
  <2>5. Take(h, c.tp)
    BY <2>1 DEF h
  <2>6. c.tp \in Pair /\ store[c.tp].occ = None /\ Bounded /\ occOf[c.tp] # None
    BY <1>4, NoneAssumption DEF Cold, Scans
  <2>7. threshold' # None
    BY <2>1, <2>6, CandidatesType, TopIsEmpty DEF StoreTypeOK, PairCandidates, TopOf, IsTop
  <2>8. h[c.tp].occ = occOf[c.tp]
    BY <1>1, <2>2, <2>4, <2>6
  <2>9. /\ DOMAIN store' = DOMAIN store \ {c.tp}
        /\ \A tp \in DOMAIN store' : store'[tp] = h[tp]
        /\ phase' = "merge" /\ merge'.tp = c.tp
        /\ merge'.freq = h[c.tp].freq /\ merge'.content = h[c.tp].content
        /\ merge'.occ = IF h[c.tp].occ = None THEN {} ELSE h[c.tp].occ
    BY <2>3, <2>5 DEF Take
  <2>10. \A tp \in DOMAIN store' :
              /\ store'[tp].freq = store[tp].freq
              /\ store'[tp].content = store[tp].content
              /\ \/ store'[tp].occ = store[tp].occ
                 \/ /\ Bounded /\ tp \in Pair /\ store[tp].freq > 0
                    /\ store'[tp].occ = occOf[tp]
    BY <2>4, <2>6, <2>9
  <2>11. merge'.freq = c.freq /\ merge'.content = c.content
    BY <1>1, <1>2, <2>4, <2>9
  <2> QED BY <1>1, <2>6, <2>7, <2>8, <2>9, <2>10, <2>11
<1> QED BY <1>3, <1>4

\* After a merge every entry is the one apply_changes made, whose handle a
\* prune may have released; and once set, the threshold stays set as long as
\* only pairs that can still be merged have handles.
LEMMA ApplyEntries ==
  ASSUME StoreTypeOK, ResidencyAgrees, NEW target \in Id, NEW changes \in Changes,
         Apply(target, changes)
  PROVE  /\ DOMAIN store' = DOMAIN Applied(target, changes)
         /\ \A tp \in DOMAIN store' :
              LET e == Applied(target, changes)[tp]
              IN /\ store'[tp].freq = e.freq
                 /\ store'[tp].content = e.content
                 /\ store'[tp].occ = e.occ \/ (Bounded /\ store'[tp].occ = None)
         /\ phase' = "idle" /\ merge' = None
         /\ \/ threshold' = threshold
            \/ threshold' # None
            \/ \E tp \in DOMAIN Applied(target, changes) :
                 LET e == Applied(target, changes)[tp]
                 IN e.occ # None /\ ~(e.freq > 0)
<1> DEFINE t == Applied(target, changes)
           kept == Resident(t, changes)
           ranked == {CandIn(t, tp) : tp \in Live(t) \cap kept}
<1>1. TableOK(t)
  BY AppliedType
<1>2. phase' = "idle" /\ merge' = None
  BY DEF Apply, ApplyChanges
<1>3. CASE ~NeedsPrune(kept)
  BY <1>2, <1>3 DEF Apply, ApplyChanges
<1>4. CASE NeedsPrune(kept)
  <2>1. PICK R \in TopOf(ranked) :
          store' = Released(t, kept \ TpsOf(R)) /\ SetThreshold(R)
    BY <1>4 DEF Apply, ApplyChanges
  <2>2. Bounded /\ kept # {}
    <3>1. Bounded /\ Cardinality(kept) > 2 * Window
      BY <1>4 DEF NeedsPrune
    <3>2. kept # {}
      BY <3>1, FS_EmptySet, WindowAssumption DEF Bounded
    <3> QED BY <3>1, <3>2
  <2>3. kept = Held(t)
    BY <2>2, AppliedType DEF Resident, ResidencyAgrees, HasHandle, Held, Applied
  <2> HIDE DEF t
  <2>4. ranked \subseteq Candidate
    BY <1>1, CandInType DEF Live
  <2>5. ASSUME threshold' = None
        PROVE  \E tp \in DOMAIN t : t[tp].occ # None /\ ~(t[tp].freq > 0)
    <3>1. ranked = {}
      BY <2>1, <2>2, <2>4, <2>5, TopIsEmpty
    <3>2. PICK tp \in kept : tp \notin Live(t)
      BY <2>2, <3>1
    <3> QED BY <2>3, <3>2 DEF Held, Live
  <2>6. DOMAIN store' = DOMAIN t
    BY <2>1 DEF Released
  <2>7. ASSUME NEW tp \in DOMAIN t
        PROVE  /\ store'[tp].freq = t[tp].freq
               /\ store'[tp].content = t[tp].content
               /\ store'[tp].occ = t[tp].occ \/ store'[tp].occ = None
    BY <1>1, <2>1 DEF Released, TableOK, Entry
  <2> QED BY <1>2, <2>2, <2>5, <2>6, <2>7 DEF t
<1> QED BY <1>3, <1>4

-----------------------------------------------------------------------------
(* The window. *)

\* A resident that no candidate of the table beats: what a declined merge is.
HotBest ==
  \E k \in residents \cap Live(store) :
    \A l \in Live(store) : ~Less(CandIn(store, k), CandIn(store, l))

\* Only a declined merge leaves more than 2 * Window residents behind, and then
\* it is the next winner and hot, so that no refill adds to them.
WindowInv ==
  Bounded =>
    /\ Cardinality(residents) <= 3 * Window
    /\ phase # "merge" => Cardinality(residents) <= 2 * Window \/ HotBest
    /\ phase = "merge" =>
         /\ merge.freq > 0
         /\ Cardinality(residents) < 3 * Window
         /\ merge.tp \in UnitKey => Cardinality(residents) <= 2 * Window

\* A choice of the top pairs has at most Window keys.
LEMMA TopIsSmall ==
  ASSUME IsFiniteSet(Pair), Bounded, NEW t, TableOK(t), NEW K, NEW S,
         S = {CandIn(t, tp) : tp \in Live(t) \cap Pair \cap K}, NEW R \in TopOf(S)
  PROVE  /\ TpsOf(R) \subseteq Pair /\ IsFiniteSet(TpsOf(R))
         /\ Cardinality(TpsOf(R)) \in Nat /\ Cardinality(TpsOf(R)) <= Window
<1> DEFINE L == Live(t) \cap Pair \cap K
           f == [tp \in L |-> CandIn(t, tp)]
           g == [c \in R |-> c.tp]
<1>1. R \subseteq S /\ ((R = S /\ Cardinality(S) <= Window) \/ Cardinality(R) = Window)
  BY DEF TopOf, IsTop
<1>2. IsFiniteSet(L)
  BY FS_Subset
<1>3. f \in Surjection(L, S)
  BY DEF Surjection
<1>4. IsFiniteSet(S)
  BY <1>2, <1>3, FS_Surjection
<1>5. IsFiniteSet(R) /\ Cardinality(R) \in Nat
  BY <1>1, <1>4, FS_Subset, FS_CardinalityType
<1>6. g \in Surjection(R, TpsOf(R))
  BY DEF Surjection, TpsOf
<1>7. IsFiniteSet(TpsOf(R)) /\ Cardinality(TpsOf(R)) <= Cardinality(R)
  BY <1>5, <1>6, FS_Surjection
<1>8. Cardinality(TpsOf(R)) \in Nat
  BY <1>7, FS_CardinalityType
<1>9. TpsOf(R) \subseteq Pair
  BY <1>1 DEF TpsOf, CandIn
<1>10. Window \in Nat
  BY WindowAssumption
<1>11. Cardinality(R) <= Window
  <2>1. CASE R = S /\ Cardinality(S) <= Window
    BY <2>1
  <2>2. CASE Cardinality(R) = Window
    BY ONLY <1>10, <2>2
  <2> QED BY <1>1, <2>1, <2>2
<1> QED BY <1>5, <1>7, <1>8, <1>9, <1>10, <1>11

\* A hot pair that no candidate beats is the winner when no two pairs tie, so
\* that the winner is neither cold nor a unit.
LEMMA HotBestWins ==
  ASSUME FrontierInv, ResidencyAgrees, NoTies, Bounded, HotBest,
         NEW c \in heap, Popped(c), Current(c)
  PROVE  ~Cold(c) /\ c.tp \in Pair
<1>1. StoreTypeOK
  BY DEF FrontierInv
<1>2. PICK k \in residents \cap Live(store) :
        \A l \in Live(store) : ~Less(CandIn(store, k), CandIn(store, l))
  BY DEF HotBest
<1>3. k \in Pair /\ store[k].occ # None
  BY <1>1, <1>2 DEF StoreTypeOK, ResidencyAgrees
<1>4. c.tp \in Live(store) /\ CandIn(store, c.tp) = c
  BY DEF Current, Live, CandIn
<1>5. ~Less(CandIn(store, k), c) /\ ~Less(c, CandIn(store, k))
  BY <1>2, <1>4, PoppedIsBest
<1>6. c.tp \in Pair
  <2>1. c.tp \in Pair \/ c.tp \in UnitKey
    BY <1>1, <1>4 DEF StoreTypeOK, TableOK, Key, Live
  <2>2. CASE c.tp \in UnitKey
    <3>1. c.freq \in Int /\ CandIn(store, k).freq \in Int /\ c.tp \notin Pair
          /\ CandIn(store, k).tp = k
      BY <1>1, <1>2, <2>2, KeyAssumption, CandInType DEF StoreTypeOK, Candidate, Live, CandIn
    <3> QED BY <1>3, <1>5, <2>2, <3>1 DEF Less
  <2> QED BY <2>1, <2>2
<1>7. c.tp = k
  BY <1>2, <1>3, <1>4, <1>5, <1>6 DEF NoTies
<1> QED BY <1>3, <1>6, <1>7 DEF Cold

\* A build keeps at most Window pairs hot.
LEMMA BuildWindow ==
  ASSUME IsFiniteSet(Pair), StoreTypeOK, Bounded, NEW counted \in Counted,
         NEW occOf \in Scans, Build(counted, occOf)
  PROVE  WindowInv'
<1> DEFINE fresh == Fresh(counted, occOf)
<1>1. PICK R \in TopOf(PairCandidates(fresh)) : residents' = TpsOf(R)
  BY DEF Build
<1>2. TableOK(fresh)
  BY FreshType
<1>3. PairCandidates(fresh) = {CandIn(fresh, tp) : tp \in Live(fresh) \cap Pair \cap Pair}
  BY DEF PairCandidates
<1>4. Cardinality(residents') \in Nat /\ Cardinality(residents') <= Window
  <2> HIDE DEF fresh
  <2> QED BY <1>1, <1>2, <1>3, TopIsSmall
<1>5. phase' = "idle"
  BY DEF Build
<1> QED BY <1>4, <1>5, WindowAssumption DEF WindowInv, Bounded

\* A cold winner adds at most Window residents and leaves them itself.
LEMMA SelectWindow ==
  ASSUME IsFiniteSet(Pair), FrontierInv, ResidencyAgrees, NoTies, WindowInv, Bounded,
         NEW c \in heap, NEW occOf \in Scans, Select(c, occOf)
  PROVE  WindowInv'
<1>1. /\ phase = "search" /\ Popped(c) /\ Current(c)
      /\ phase' = "merge" /\ merge'.tp = c.tp /\ merge'.freq > 0
  <2>1. phase = "search" /\ Popped(c) /\ Current(c)
    BY DEF Select
  <2>2. \E s : Take(s, c.tp) /\ s[c.tp].freq = store[c.tp].freq
    <3>1. CASE Cold(c)
      <4>1. PICK R \in TopOf(PairCandidates(store)) : Take(Hydrated(store, R, occOf), c.tp)
        BY <3>1 DEF Select
      <4>2. CandIn(Hydrated(store, R, occOf), c.tp) = CandIn(store, c.tp)
        BY <2>1, HydratedCandidates DEF FrontierInv, StoreTypeOK, Current, Live, CandIn
      <4>3. Hydrated(store, R, occOf)[c.tp].freq = store[c.tp].freq
        BY <4>2 DEF CandIn
      <4> QED BY <4>1, <4>3
    <3>2. CASE ~Cold(c)
      BY <3>2 DEF Select
    <3> QED BY <3>1, <3>2
  <2>3. store[c.tp].freq > 0
    BY <2>1 DEF Current, CandIn
  <2> QED BY <2>1, <2>2, <2>3 DEF Take
<1>2. residents \subseteq Pair /\ IsFiniteSet(residents) /\ Cardinality(residents) \in Nat
  BY FS_Subset, FS_CardinalityType DEF FrontierInv, StoreTypeOK
<1>3. Window \in Nat /\ Window > 0 /\ Cardinality(residents) <= 3 * Window
      /\ (Cardinality(residents) <= 2 * Window \/ HotBest)
  BY <1>1, WindowAssumption DEF Bounded, WindowInv
<1>4. CASE Cold(c)
  <2>1. PICK R \in TopOf(PairCandidates(store)) :
          c \in R /\ residents' = (residents \cup TpsOf(R)) \ {c.tp}
    BY <1>4 DEF Select
  <2>2. Cardinality(residents) <= 2 * Window
    BY <1>1, <1>3, <1>4, HotBestWins
  <2>3. IsFiniteSet(TpsOf(R)) /\ Cardinality(TpsOf(R)) \in Nat /\ Cardinality(TpsOf(R)) <= Window
    <3>1. PairCandidates(store) = {CandIn(store, tp) : tp \in Live(store) \cap Pair \cap Pair}
      BY DEF PairCandidates
    <3>2. TableOK(store)
      BY DEF FrontierInv, StoreTypeOK
    <3> QED BY <2>1, <3>1, <3>2, TopIsSmall
  <2> DEFINE both == residents \cup TpsOf(R)
  <2>4. IsFiniteSet(both) /\ Cardinality(both) \in Nat /\ Cardinality(both) <= 3 * Window
    <3>1. IsFiniteSet(both)
          /\ Cardinality(both) = Cardinality(residents) + Cardinality(TpsOf(R))
                                   - Cardinality(residents \cap TpsOf(R))
      BY <1>2, <2>3, FS_Union
    <3>2. Cardinality(residents \cap TpsOf(R)) \in Nat
      BY <1>2, FS_Subset, FS_CardinalityType
    <3>3. Cardinality(both) \in Nat
      BY <3>1, FS_CardinalityType
    <3> QED BY <1>2, <1>3, <2>2, <2>3, <3>1, <3>2, <3>3
  <2>5. c.tp \in both
    BY <2>1 DEF TpsOf
  <2>6. Cardinality(residents') = Cardinality(both) - 1
    <3> HIDE DEF both
    <3>1. residents' = both \ {c.tp}
      BY <2>1 DEF both
    <3> QED BY <2>4, <2>5, <3>1, FS_RemoveElement
  <2>7. merge'.tp \notin UnitKey
    BY <1>1, <1>4, KeyAssumption DEF Cold
  <2> HIDE DEF both
  <2> QED BY <1>1, <1>3, <2>4, <2>6, <2>7 DEF WindowInv
<1>5. CASE ~Cold(c)
  <2>1. residents' = residents \ {c.tp}
    BY <1>5 DEF Select
  <2>2. Cardinality(residents') = IF c.tp \in residents THEN Cardinality(residents) - 1
                                                        ELSE Cardinality(residents)
    BY <1>2, <2>1, FS_RemoveElement
  <2>3. c.tp \in Pair => c.tp \in residents
    BY <1>1, <1>5 DEF Cold, ResidencyAgrees, Current
  <2>4. c.tp \in UnitKey => Cardinality(residents) <= 2 * Window
    BY <1>1, <1>3, HotBestWins, KeyAssumption
  <2>5. c.tp \in Pair \/ c.tp \in UnitKey
    BY <1>1 DEF FrontierInv, StoreTypeOK, TableOK, Current, Key
  <2> QED BY <1>1, <1>2, <1>3, <2>2, <2>3, <2>4, <2>5 DEF WindowInv
<1> QED BY <1>4, <1>5

\* After a merge at most 2 * Window residents are left, pruned or not.
LEMMA ApplyWindow ==
  ASSUME IsFiniteSet(Pair), StoreTypeOK, Bounded, NEW target \in Id, NEW changes \in Changes,
         Apply(target, changes)
  PROVE  WindowInv'
<1> DEFINE t == Applied(target, changes)
           kept == Resident(t, changes)
           ranked == {CandIn(t, tp) : tp \in Live(t) \cap kept}
<1>1. TableOK(t) /\ Updated(changes) \subseteq Pair
  BY AppliedType
<1>2. kept \subseteq Pair
  BY <1>1 DEF Resident, StoreTypeOK
<1>3. phase' = "idle" /\ Window \in Nat
  BY WindowAssumption DEF Apply, ApplyChanges
<1>4. IsFiniteSet(kept) /\ Cardinality(kept) \in Nat
  BY <1>2, FS_Subset, FS_CardinalityType
<1>5. Cardinality(residents') \in Nat /\ Cardinality(residents') <= 2 * Window
  <2>1. CASE ~NeedsPrune(kept)
    <3>1. residents' = kept
      BY <2>1 DEF Apply, ApplyChanges
    <3>2. ~(Cardinality(kept) > 2 * Window)
      BY <2>1 DEF NeedsPrune
    <3> HIDE DEF kept
    <3> QED BY <1>3, <1>4, <3>1, <3>2
  <2>2. CASE NeedsPrune(kept)
    <3>1. PICK R \in TopOf(ranked) : residents' = kept \cap TpsOf(R)
      BY <2>2 DEF Apply, ApplyChanges
    <3>2. ranked = {CandIn(t, tp) : tp \in Live(t) \cap Pair \cap kept}
      BY <1>2
    <3> HIDE DEF t, kept, ranked
    <3>3. /\ IsFiniteSet(TpsOf(R)) /\ Cardinality(TpsOf(R)) \in Nat
          /\ Cardinality(TpsOf(R)) <= Window
      BY <1>1, <3>2, TopIsSmall
    <3>4. Cardinality(residents') \in Nat /\ Cardinality(residents') <= Cardinality(TpsOf(R))
      BY <3>1, <3>3, FS_Subset, FS_CardinalityType
    <3> QED BY <1>3, <3>3, <3>4
  <2> QED BY <2>1, <2>2
<1> QED BY <1>3, <1>5 DEF WindowInv, Bounded

\* A declined merge is one resident more, hot, and best of the table again.
LEMMA DeclineWindow ==
  ASSUME IsFiniteSet(Pair), FrontierInv, WindowInv, Bounded, Decline
  PROVE  WindowInv'
<1>1. /\ phase = "merge" /\ phase' = "idle" /\ merge.tp \in Pair /\ merge # None
      /\ store' = Restored /\ residents' = residents \cup {merge.tp}
      /\ StoreTypeOK /\ WinnerIsGlobal
  BY DEF Decline, Readmitted, FrontierInv, StoreTypeOK
<1>2. IsFiniteSet(residents) /\ Cardinality(residents) \in Nat /\ Window \in Nat
  BY <1>1, FS_Subset, FS_CardinalityType, WindowAssumption DEF StoreTypeOK
<1>3. merge.freq > 0 /\ Cardinality(residents) < 3 * Window
  BY <1>1 DEF WindowInv
<1>4. Cardinality(residents') \in Nat /\ Cardinality(residents') <= 3 * Window
  <2>1. Cardinality(residents') = Cardinality(residents)
        \/ Cardinality(residents') = Cardinality(residents) + 1
    BY <1>1, <1>2, FS_AddElement
  <2> QED BY <1>2, <1>3, <2>1
<1>5. HotBest'
  <2>1. CandIn(Restored, merge.tp) = Winner /\ merge.tp \in Live(Restored)
    BY <1>3 DEF Restored, CandIn, Winner, Live
  <2>2. ASSUME NEW l \in Live(Restored)
        PROVE  ~Less(Winner, CandIn(Restored, l))
    <3>1. CASE l = merge.tp
      <4>1. Winner \in Candidate
        BY <1>1 DEF StoreTypeOK, Winner, Candidate
      <4> QED BY <2>1, <3>1, <4>1, LessAsymmetric
    <3>2. CASE l # merge.tp
      <4>1. l \in Live(store) /\ CandIn(Restored, l) = CandIn(store, l)
        BY <3>2 DEF Restored, Live, CandIn
      <4> QED BY <1>1, <4>1 DEF WinnerIsGlobal
    <3> QED BY <3>1, <3>2
  <2> SUFFICES \E k \in residents' \cap Live(store') :
                 \A l \in Live(store') : ~Less(CandIn(store', k), CandIn(store', l))
    BY DEF HotBest, Live, CandIn, Less, LabelOf
  <2> QED BY <1>1, <2>1, <2>2
<1> QED BY <1>1, <1>4, <1>5 DEF WindowInv, Bounded

\* Every step of the table keeps the window, as long as no two pairs tie.
LEMMA WindowStep ==
  ASSUME IsFiniteSet(Pair), FrontierInv, ResidencyAgrees, NoTies, WindowInv,
         StoreNext \/ UNCHANGED storeVars
  PROVE  WindowInv'
<1> SUFFICES ASSUME Bounded PROVE WindowInv'
  BY DEF WindowInv, Bounded
<1>1. StoreTypeOK
  BY DEF FrontierInv
<1>2. ASSUME UNCHANGED <<store, residents>>, phase' # "merge",
             phase = "merge" => merge.tp \in UnitKey
      PROVE  WindowInv'
  <2>1. HotBest => HotBest'
    BY <1>2 DEF HotBest
  <2>2. Cardinality(residents) <= 3 * Window
        /\ (Cardinality(residents) <= 2 * Window \/ HotBest)
    BY <1>2 DEF WindowInv
  <2> QED BY <1>2, <2>1, <2>2 DEF WindowInv
<1>3. CASE UNCHANGED storeVars
  <2>1. HotBest' <=> HotBest
    BY <1>3, Zenon DEF HotBest, storeVars
  <2> QED BY <1>3, <2>1, Zenon DEF WindowInv, storeVars, Bounded
<1>4. ASSUME NEW counted \in Counted, NEW occOf \in Scans, Build(counted, occOf)
      PROVE  WindowInv'
  BY <1>1, <1>4, BuildWindow
<1>5. CASE Search \/ (\E c \in heap : PopStale(c)) \/ Refill \/ GiveUp \/ ApplyUnit
  BY <1>2, <1>5 DEF Search, PopStale, Refill, GiveUp, ApplyUnit
<1>6. ASSUME NEW c \in heap, NEW occOf \in Scans, Select(c, occOf)
      PROVE  WindowInv'
  BY <1>6, SelectWindow
<1>7. ASSUME NEW target \in Id, NEW changes \in Changes, Apply(target, changes)
      PROVE  WindowInv'
  BY <1>1, <1>7, ApplyWindow
<1>8. CASE Decline
  BY <1>8, DeclineWindow
<1> QED BY <1>3, <1>4, <1>5, <1>6, <1>7, <1>8 DEF StoreNext

\* The first window is empty.
LEMMA WindowInit == StoreInit => WindowInv
BY FS_EmptySet, WindowAssumption DEF StoreInit, WindowInv, Bounded

\* A bounded trainer keeps at most 3 * Window occurrence sets, as long as no
\* two pairs tie: nothing but the window decides how many words it indexes.
THEOREM WindowBoundsResidents ==
  IsFiniteSet(Pair) /\ StoreSpec /\ []NoTies
    => [](Bounded => Cardinality(residents) <= 3 * Window)
<1> SUFFICES ASSUME IsFiniteSet(Pair)
             PROVE  StoreSpec /\ []NoTies
                      => [](Bounded => Cardinality(residents) <= 3 * Window)
  OBVIOUS
<1> DEFINE I == FrontierInv /\ ResidencyAgrees /\ WindowInv
<1>1. StoreInit => I
  BY FrontierInvInit, WindowInit DEF StoreInit, ResidencyAgrees
<1>2. I /\ NoTies /\ [StoreNext]_storeVars => I'
  <2> SUFFICES ASSUME I, NoTies, [StoreNext]_storeVars PROVE I'
    OBVIOUS
  <2>1. FrontierInv'
    BY FrontierInvStep
  <2>2. ResidencyAgrees'
    BY ResidencyStep DEF FrontierInv
  <2>3. WindowInv'
    BY WindowStep
  <2> QED BY <2>1, <2>2, <2>3
<1>3. I => (Bounded => Cardinality(residents) <= 3 * Window)
  BY DEF WindowInv
<1> QED BY <1>1, <1>2, <1>3, PTL DEF StoreSpec

=============================================================================
