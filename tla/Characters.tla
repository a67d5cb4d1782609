----------------------------- MODULE Characters -----------------------------
(***************************************************************************)
(* Contents of tokens as bytes and back (CharSplit for Character in        *)
(* src/bpe/mod.rs). A content is a sequence of scalars and bytes           *)
(* (Character::Unicode, Character::Byte).                                  *)
(***************************************************************************)
EXTENDS BpeWords, SequencesExt

CONSTANT Utf8      \* the bytes of every scalar

Scalar == DOMAIN Utf8
Lead == {Utf8[u][1] : u \in {v \in Scalar : Len(Utf8[v]) > 1}}
Continuation == UNION {Elements(Tail(Utf8[u])) : u \in Scalar}

Byte == 0..255
Char == Byte \cup Scalar

ASSUME CharactersAssumption ==
  /\ Scalar \cap Byte = {}
  /\ \A u \in Scalar : Utf8[u] \in Seq(Byte) /\ Utf8[u] # << >>
  /\ \A u, v \in Scalar : Utf8[u] = Utf8[v] => u = v
  /\ {Utf8[u][1] : u \in Scalar} \cap Continuation = {}

\* (The singletons only make TLC evaluate a sequence once.)
Flat(seqs) == CHOOSE flat \in {FlattenSeq(s) : s \in {seqs \o << >>}} : TRUE

\* bbpe_word_to_bytes
ToBytes(content) ==
  Flat([i \in DOMAIN content |->
          IF content[i] \in Scalar THEN Utf8[content[i]] ELSE <<content[i]>>])

\* _try_combine: a lead byte takes every continuation byte after it.
ChunkStarts(bytes) ==
  {i \in DOMAIN bytes : \/ i = 1
                        \/ bytes[i] \notin Continuation
                        \/ bytes[i - 1] \notin Lead \cup Continuation}

\* bbpe_word_from_bytes: a chunk is a scalar only as a whole.
FromBytes(bytes) ==
  LET Read(chunk) == IF \E u \in Scalar : Utf8[u] = chunk
                     THEN <<CHOOSE u \in Scalar : Utf8[u] = chunk>> ELSE chunk
      Contents(v, starts) ==
        Flat([k \in DOMAIN starts |->
                Read(SubSeq(v, starts[k],
                            IF k = Len(starts) THEN Len(v) ELSE starts[k + 1] - 1))])
  IN CHOOSE content \in {Contents(v, InOrder(ChunkStarts(v))) : v \in {bytes}} : TRUE

=============================================================================
