--------------------------- MODULE SourcePrefetch ---------------------------
(***************************************************************************)
(* WordCounter.add_source as Python calls it (src/py.rs, src/counter.rs):  *)
(* records are pulled from an iterator, grouped into batches and counted,  *)
(* either by the caller itself (prefetch = 0) or by a worker thread that   *)
(* receives the batches through a channel of capacity 0 (prefetch = 1), so *)
(* that the caller pulls the next batch while the worker counts. Both run  *)
(* without the interpreter lock while they wait for each other.            *)
(*                                                                         *)
(* A record is [size, words, fate]: its bytes, how often each word is in   *)
(* it, and what happens to it: "fine", "raises" (the iterator fails there, *)
(* or yields no string), "fails" or "panics" (the pre-tokenizer does).     *)
(***************************************************************************)
EXTENDS Integers, Sequences, Functions

CONSTANTS
  Word,
  Sources,         \* sequences of records add_source is called with
  Before,          \* counts a counter may have from earlier calls
  MaxRecords,      \* SourceBatchOptions.max_records
  MaxBytes,        \* SourceBatchOptions.max_bytes
  MaxFreq          \* the largest Freq (i64::MAX in the code)

\* SourceBatchOptions::validate
ASSUME BatchAssumption ==
  /\ MaxRecords \in Nat \ {0}
  /\ MaxBytes \in Nat \ {0}
  /\ MaxFreq \in Nat

\* Sizes and counts are unsigned when a batch is counted.
ASSUME RecordAssumption ==
  /\ Sources \subseteq Seq([size : Nat, words : [Word -> Nat],
                            fate : {"fine", "raises", "fails", "panics"}])
  /\ Before \subseteq [Word -> Nat]

VARIABLES
  source,          \* the records
  before,          \* the counts at the call
  prefetch,        \* 0 or 1
  next,            \* the record to pull next
  batch,           \* records pulled and not handed over
  offered,         \* the batch consume was called with
  caller,          \* "pulling", "offering", "joining", "returned"
  produced,        \* producer_result
  worker,          \* "waiting", "counting", "ok", "failed", "panicked"
  held,            \* the batch the worker counts
  counts,          \* WordCounter.counts
  result           \* what add_source returned

vars == <<source, before, prefetch, next, batch, offered, caller, produced,
          worker, held, counts, result>>

Size(b) == SumFunction([i \in DOMAIN b |-> b[i].size])

-----------------------------------------------------------------------------
(* Counting a batch. *)

TotalOf(b) == [w \in Word |-> SumFunction([i \in DOMAIN b |-> b[i].words[w]])]

Has(b, fate) == \E i \in DOMAIN b : b[i].fate = fate

\* Counting the batch by itself ends in one of these. Records are counted in
\* parallel, and of several failures any may be the one that is seen.
Tallies(b) ==
     (IF Has(b, "panics") THEN {"panicked"} ELSE {})
  \cup (IF Has(b, "fails") \/ \E w \in Word : TotalOf(b)[w] > MaxFreq
        THEN {"failed"} ELSE {})

\* merge_borrowed_into_word_counts adds word by word, in no particular order,
\* up to the first word that overflows.
Merged(c, t) ==
  LET over == {w \in Word : c[w] + t[w] > MaxFreq}
      first == IF over = {} THEN {Word} ELSE SUBSET (Word \ over)
  IN {[w \in Word |-> IF w \in done THEN c[w] + t[w] ELSE c[w]] : done \in first}

\* add_batch on the counts c: the outcomes [counts, state].
Added(c, b) ==
  IF Tallies(b) # {}
  THEN {[counts |-> c, state |-> s] : s \in Tallies(b)}
  ELSE LET over == \E w \in Word : c[w] + TotalOf(b)[w] > MaxFreq
       IN {[counts |-> d, state |-> IF over THEN "failed" ELSE "waiting"] :
             d \in Merged(c, TotalOf(b))}

-----------------------------------------------------------------------------
(* The caller. *)

Init ==
  /\ source \in Sources
  /\ before \in Before
  /\ prefetch \in {0, 1}
  /\ next = 1
  /\ batch = << >>
  /\ offered = << >>
  /\ caller = "pulling"
  /\ produced = "ok"
  /\ worker = "waiting"
  /\ held = << >>
  /\ counts = before
  /\ result = "none"

\* Mutant of Flushes: a batch takes one record too many.
FlushesLate(b, text) ==
  /\ b # << >>
  /\ \/ Len(b) > MaxRecords
     \/ Size(b) + text.size > MaxBytes

\* should_flush_batch
Flushes(b, text) ==
  /\ b # << >>
  /\ \/ Len(b) >= MaxRecords
     \/ Size(b) + text.size > MaxBytes

Raises == next \in DOMAIN source /\ source[next].fate = "raises"

\* One record is pulled, and handed over with what was collected before it if
\* it does not fit any more.
Pull ==
  /\ caller = "pulling"
  /\ next \in DOMAIN source
  /\ ~Raises
  /\ next' = next + 1
  /\ IF Flushes(batch, source[next])
     THEN /\ offered' = batch
          /\ batch' = <<source[next]>>
          /\ caller' = "offering"
     ELSE batch' = Append(batch, source[next]) /\ UNCHANGED <<offered, caller>>
  /\ UNCHANGED <<source, before, prefetch, produced, worker, held, counts, result>>

\* The iterator ends: the last batch is handed over.
PullLast ==
  /\ caller = "pulling"
  /\ next \notin DOMAIN source
  /\ batch # << >>
  /\ offered' = batch
  /\ batch' = << >>
  /\ caller' = "offering"
  /\ UNCHANGED <<source, before, prefetch, next, produced, worker, held, counts, result>>

\* The loop of for_each_source_batch is left, because nothing is left, or with
\* the error of the iterator: then what was collected is dropped. The sender is
\* dropped after it.
Leave ==
  /\ caller = "pulling"
  /\ \/ next \notin DOMAIN source /\ batch = << >> /\ produced' = "ok"
     \/ Raises /\ produced' = "source error"
  /\ caller' = "joining"
  /\ UNCHANGED <<source, before, prefetch, next, batch, offered, worker, held, counts, result>>

\* Without a worker the caller counts its batch itself.
CountHere ==
  /\ prefetch = 0
  /\ caller = "offering"
  /\ \E outcome \in Added(counts, offered) :
       /\ counts' = outcome.counts
       /\ IF outcome.state = "waiting"
          THEN caller' = "pulling" /\ UNCHANGED produced
          ELSE caller' = "joining" /\ produced' = outcome.state
  /\ UNCHANGED <<source, before, prefetch, next, batch, offered, worker, held, result>>

\* send returns an error once the receiver is gone.
SendFails ==
  /\ prefetch = 1
  /\ caller = "offering"
  /\ worker \in {"failed", "panicked"}
  /\ produced' = "stopped"
  /\ caller' = "joining"
  /\ UNCHANGED <<source, before, prefetch, next, batch, offered, worker, held, counts, result>>

\* Mutant of JoinResult: the producer's error hides the worker's.
ProducerFirst == IF produced # "ok" THEN produced ELSE worker

\* The worker's error hides the producer's, which may only be its consequence.
JoinResult == IF worker = "ok" THEN produced ELSE worker

Return ==
  /\ caller = "joining"
  /\ IF prefetch = 0
     THEN result' = produced
     ELSE worker \in {"ok", "failed", "panicked"} /\ result' = JoinResult
  /\ caller' = "returned"
  /\ UNCHANGED <<source, before, prefetch, next, batch, offered, produced, worker, held, counts>>

-----------------------------------------------------------------------------
(* The worker. *)

\* A batch goes from the blocked sender to the waiting receiver.
Receive ==
  /\ prefetch = 1
  /\ caller = "offering"
  /\ worker = "waiting"
  /\ held' = offered
  /\ worker' = "counting"
  /\ caller' = "pulling"
  /\ UNCHANGED <<source, before, prefetch, next, batch, offered, produced, counts, result>>

Count ==
  /\ worker = "counting"
  /\ \E outcome \in Added(counts, held) :
       counts' = outcome.counts /\ worker' = outcome.state
  /\ UNCHANGED <<source, before, prefetch, next, batch, offered, caller, produced, held, result>>

\* Mutant of SenderGone: the sender lives until add_source returns.
SenderDroppedLate == caller = "returned"

SenderGone == caller \in {"joining", "returned"}

\* The loop over the receiver ends when the sender is gone.
Finish ==
  /\ prefetch = 1
  /\ worker = "waiting"
  /\ SenderGone
  /\ worker' = "ok"
  /\ UNCHANGED <<source, before, prefetch, next, batch, offered, caller, produced, held, counts, result>>

Caller == Pull \/ PullLast \/ Leave \/ CountHere \/ SendFails \/ Return

Worker == Receive \/ Count \/ Finish

Next == Caller \/ Worker

\* Two threads, each of which is scheduled while it can run. The iterator is
\* assumed to answer.
Spec == Init /\ [][Next]_vars /\ WF_vars(Caller) /\ WF_vars(Worker)

-----------------------------------------------------------------------------
(* What add_source promises, told without batches in flight. *)

\* The records before the first one that raises.
Readable ==
  IF \E i \in DOMAIN source : source[i].fate = "raises"
  THEN (CHOOSE i \in DOMAIN source :
          source[i].fate = "raises" /\ \A j \in 1..i - 1 : source[j].fate # "raises") - 1
  ELSE Len(source)

Fits(i, j) ==
  \/ i = j
  \/ j - i < MaxRecords /\ Size(SubSeq(source, i, j)) <= MaxBytes

\* Where the batch that starts at record i ends: it fits, and would not with one
\* record more.
EndOf(i) ==
  CHOOSE e \in i..Readable :
    /\ \A j \in i..e : Fits(i, j)
    /\ e < Readable => ~Fits(i, e + 1)

\* A batch that starts at record i is counted: not if it starts behind the last
\* record, and not if the iterator raises before the batch is handed over.
Counted(i) == i <= Readable /\ (EndOf(i) = Readable => Readable = Len(source))

BatchAt(i) == SubSeq(source, i, EndOf(i))

\* The outcomes of counting what is left from record i on, one batch after the
\* other, up to the first that fails, starting from the counts c.
From[i \in Nat \ {0}] ==
  [c \in [Word -> Int] |->
     IF Counted(i)
     THEN UNION {IF o.state = "waiting" THEN From[EndOf(i) + 1][o.counts] ELSE {o} :
                   o \in Added(c, BatchAt(i))}
     ELSE {[counts |-> c, state |-> "waiting"]}]

Outcomes == From[1][before]

\* With or without the worker add_source counts the batches of the source in
\* order, each once, up to the first that fails, and reports that failure,
\* although the caller may have run into another error meanwhile; the error of
\* the iterator is reported when every batch before it was counted.
OutcomeIsSequential ==
  caller = "returned" =>
    \E o \in Outcomes :
      /\ counts = o.counts
      /\ result = IF o.state # "waiting" THEN o.state
                  ELSE IF Readable < Len(source) THEN "source error" ELSE "ok"

\* The "bounded look-ahead batch" (README): what the caller holds while the
\* worker counts is within both limits, unless a single record is beyond them.
LookaheadIsBounded ==
  caller = "offering" =>
    \/ Len(offered) = 1
    \/ Len(offered) <= MaxRecords /\ Size(offered) <= MaxBytes

\* add_source returns: neither thread waits for the other for ever, whichever of
\* them stops first.
AddSourceReturns == <>(caller = "returned")

=============================================================================
