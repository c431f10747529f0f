--------------------------- MODULE MCHermesStream ---------------------------
(* Two envelopes whose markers begin alike, as those of the service do, and *)
(* pieces of up to two characters.                                          *)
EXTENDS HermesStream

Letters == {"<", "/", "a", "c"}

Envelope(letter) == [opening |-> <<"<", letter>>, closing |-> <<"<", "/", letter>>]

TwoEnvelopes == {Envelope("a"), Envelope("c")}

ShortPieces == UNION {[1..n -> Letters] : n \in 1..2}

FinalTexts == {<<"a">>}
=============================================================================
