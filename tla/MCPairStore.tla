----------------------------- MODULE MCPairStore -----------------------------
(* The four pairs of two ids, one initial unit; the smallest pair id wins a
   tie. With a window of one, the three pairs that are left while one is merged
   are enough residents for a prune. WordId is empty: what a handle contains is
   no concern of the store, which only needs to know who holds one. *)
EXTENDS PairStoreSpec

MCId == 1..2
MCPair == MCId \X MCId
MCUnitKey == {<<9, 4>>}
MCContent == {"text"}
MCWordId == {}
MCCountFreq == 1..2
MCFreq == 0..2
MCDelta == {-1, 1}

SmallestPairId(c, d) ==
  \/ d.tp[1] < c.tp[1]
  \/ d.tp[1] = c.tp[1] /\ d.tp[2] < c.tp[2]

=============================================================================
