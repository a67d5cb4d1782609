------------------------------ MODULE MCChunks ------------------------------
(* Small files: a letter, the blanks, an end-of-text token of two bytes, and two
   scalars of three bytes each that make bigrams. *)
EXTENDS Chunks

MCUtf8 ==
  "a" :> <<"a">> @@ "sp" :> <<"sp">> @@ "nl" :> <<"nl">> @@ "<" :> <<"<">> @@ ">" :> <<">">>
    @@ "ni" :> <<"e4", "bd", "a0">> @@ "hao" :> <<"e5", "a5", "bd">>

MCScript == {"ni", "hao"}
MCLetters == {"a", "ni", "hao"}
MCEndOfText == <<"<", ">">>


Upto(S, n) == {FlattenSeq(s) : s \in BoundedSeq(S, n)}
Filed(texts) == {Bytes(t) : t \in texts}

Chunked(n) == [by |-> "count", n |-> n]
Sized(n) == [by |-> "size", n |-> n]
Job(op, file, hint, boundary, special) ==
  [op |-> op, file |-> file, hint |-> hint, boundary |-> boundary, special |-> special,
   topK |-> 1, minFreq |-> 2]

\* Documents of up to six pieces, cut at tokens or lines. In the last list
\* another token takes the first half of the end of text.
Documents ==
  {Job("words", f, h, b, s) :
     f \in Filed(Upto({<<"a">>, <<"sp">>, <<"nl">>, MCEndOfText}, 4)),
     h \in {Chunked(2), Chunked(3), Sized(2)}, b \in {"auto", "eot", "line"},
     s \in {<<MCEndOfText>>}}

Overlapping ==
  {Job("ids", f, Chunked(3), b, s) :
     f \in Filed(Upto({<<"a">>, <<"sp">>, <<"<">>, MCEndOfText}, 4)), b \in {"auto", "eot"},
     s \in {<< >>, <<MCEndOfText>>, <<<<"a", "<">>, MCEndOfText>>}}

\* Bigrams, and bytes that are no scalar.
Bigrams ==
  {[Job("bigrams", f, Chunked(3), "eot", <<MCEndOfText>>) EXCEPT !.topK = k, !.minFreq = m] :
     f \in Filed(Upto({<<"ni">>, <<"hao">>, MCEndOfText}, 5)), k \in 0..2, m \in 1..2}

Broken ==
  {Job("words", FlattenSeq(f), h, b, <<MCEndOfText>>) :
     f \in BoundedSeq({<<"a">>, <<"e4", "bd", "a0">>, <<"bd">>, <<"e5", "a5">>}, 4),
     h \in {Chunked(2), Sized(3)}, b \in {"utf8", "line"}}

MCJobs == Documents \cup Overlapping \cup Bigrams \cup Broken
MCKept == {<<"ni", "hao">>}

=============================================================================
