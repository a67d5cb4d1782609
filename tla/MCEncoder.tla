----------------------------- MODULE MCEncoder -----------------------------
(* Models over two or three scalars. Scalars are 1001, 1002, ...; a and b are
   one byte each, n and h (say U+4F60 and U+597D) two. *)
EXTENDS Encoder

a == 1001
b == 1002
n == 1003
h == 1004

TwoUtf8 == a :> <<1>> @@ b :> <<2>> @@ n :> <<11, 21>> @@ h :> <<12, 22>>

Word(text) == [special |-> FALSE, text |-> text]
Mark(text) == [special |-> TRUE, text |-> text]

Merge(l, r, t) == [pair |-> <<l, r>>, target |-> t]

(* Byte models: 1 to 7 are a, b, ab, aa, aba, abab, ba. *)
ByteVocab == <<<<1>>, <<2>>, <<1, 2>>, <<1, 1>>, <<1, 2, 1>>, <<1, 2, 1, 2>>, <<2, 1>>>>

ab == Merge(1, 2, 3)
aa == Merge(1, 1, 4)
ba == Merge(2, 1, 7)
ab_a == Merge(3, 1, 5)
a_ba == Merge(1, 7, 5)
ab_ab == Merge(3, 3, 6)

\* Chains and competing merges, a merge before the one it depends on, two
\* merges of one target, one pair merged twice.
MergeLists ==
  {<<ab, ab_a, ab_ab>>, <<aa, ab, ab_a>>, <<ab_a, ba, ab>>, <<ba, ab, a_ba, ab_a>>,
   <<ba, aa, ba>>}

ByteModels ==
  {[unicode |-> FALSE, vocab |-> ByteVocab, merges |-> s, special |-> p, split |-> TRUE] :
     s \in MergeLists, p \in {{}, {3}}}

(* Unicode models: a, n, the bytes of h, h rebuilt from them, nh. *)
UnicodeVocab == <<<<a>>, <<n>>, <<12>>, <<22>>, <<h>>, <<n, h>>, <<a, n>>>>
nh == Merge(2, 5, 6)
an == Merge(1, 2, 7)
h_h == Merge(3, 4, 5)
UnicodeModels ==
  {[unicode |-> TRUE, vocab |-> UnicodeVocab, merges |-> s, special |-> {6}, split |-> o] :
     s \in {<<h_h, nh, an>>, <<an, nh, h_h>>}, o \in BOOLEAN}

AllModels == ByteModels \cup UnicodeModels

\* The Unicode models have no b, the byte models no byte of n or h, so that one
\* word of the last text can be encoded and the other cannot.
Texts ==
  {<<Word(<<a, a, b, a, b>>)>>,
   <<Word(<<a, a, a, b>>), Word(<<a, b, a, b, a>>), Word(<<a, a, a, b>>)>>,
   <<Word(<<a, b>>), Mark(<<a, b>>), Word(<<a, b>>)>>,
   <<Word(<<n, h, a>>), Word(<<a, n, h, h>>)>>,
   <<Mark(<<n, h>>), Word(<<n, h>>)>>,
   <<Word(<<n, h, a>>), Word(<<a, b>>)>>}

(* A Unicode model whose merge joins the last byte of n and the first of h:
   neither has a token of its own. *)
FragmentModels ==
  {[unicode |-> TRUE, vocab |-> <<<<11>>, <<21>>, <<12>>, <<22>>, <<21, 12>>>>,
    merges |-> <<Merge(2, 3, 5)>>, special |-> {}, split |-> o] : o \in BOOLEAN}
FragmentTexts == {<<Word(<<n, h>>)>>, <<Word(<<h, n, h>>)>>}

(* Merges whose target is another byte, as in the encoder's own test
   test_malformed_merge_disables_vocab_bigram_splitting. *)
MalformedModels ==
  {[unicode |-> FALSE, vocab |-> <<<<1>>, <<2>>, <<3>>, <<4>>>>,
    merges |-> <<Merge(1, 2, 3), Merge(3, 1, 4)>>, special |-> {}, split |-> TRUE]}
MalformedUtf8 == a :> <<1>> @@ b :> <<2>> @@ 1005 :> <<3>>
MalformedTexts == {<<Word(<<a, b, a>>), Word(<<1005, a, b>>)>>, <<Word(<<a, b, a>>)>>}

=============================================================================
