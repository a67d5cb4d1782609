--------------------------- MODULE MCBbpeFallback ---------------------------
(* Three scalars beside one ASCII byte: -1 and -2 share their first two bytes,
   -3 has a lead byte of its own and the last byte of -1. *)
EXTENDS BbpeFallback

ThreeScalars == {-1, -2, -3}

ScalarBytes == [u \in ThreeScalars |-> CASE u = -1 -> <<5, 7, 8>>
                                         [] u = -2 -> <<5, 7, 7>>
                                         [] u = -3 -> <<6, 8>>]

EndOfText == <<<<0>>>>
AsciiAndBytes == <<<<1>>, <<5>>, <<6>>, <<7>>, <<8>>>>

Texts(alphabet, n) == UNION {[1..m -> alphabet] : m \in 1..n}

\* Id 2 is the ASCII byte.
FallbackInventories ==
  {<<[idxs |-> s, freq |-> f], [idxs |-> t, freq |-> 2], [idxs |-> <<-3>>, freq |-> 4 - f]>> :
     s \in Texts({2, -1, -2}, 3), t \in {<<-1, 2, -2>>, <<2, -3>>}, f \in {1, 3}}

FallbackTargets == {9, 11}
FallbackShares == {<<0, 1>>, <<1, 3>>, <<2, 3>>}

=============================================================================
