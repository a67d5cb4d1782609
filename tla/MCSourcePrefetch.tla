-------------------------- MODULE MCSourcePrefetch --------------------------
(* Sources of up to four records: small and large ones, records that raise,
   fail or panic, and counts that may overflow. *)
EXTENDS SourcePrefetch

Tally(a, b) == [w \in Word |-> IF w = "a" THEN a ELSE b]

Record(size, words, fate) == [size |-> size, words |-> words, fate |-> fate]

Records ==
  {Record(1, Tally(1, 0), "fine"), Record(2, Tally(1, 1), "fine"),
   Record(4, Tally(0, 2), "fine"), Record(1, Tally(0, 0), "raises"),
   Record(1, Tally(1, 0), "fails"), Record(1, Tally(1, 0), "panics")}

MCSources == UNION {[1..n -> Records] : n \in 0..4}

MCBefore == {Tally(0, 0), Tally(1, 1)}

=============================================================================
