---------------------------- MODULE PrivateText ----------------------------
(***************************************************************************)
(* Machine envelopes in the text of a model (_PrivateProtocolDeltaFilter   *)
(* in api/sessions.py): the filter is fed a text piece by piece and shows  *)
(* what lies outside the envelopes; a marker may be split anywhere.        *)
(*                                                                         *)
(* What loops in the code is a recursive function here: those can be       *)
(* reasoned about.                                                         *)
(*                                                                         *)
(* An operator marked as a mutant is a faulty form of the definition after *)
(* it; no definition uses it.                                              *)
(***************************************************************************)
EXTENDS Integers, Sequences, FiniteSets, SequencesExt

CONSTANTS Characters,
          Blocks      \* the envelopes: an opening and a closing marker each

Text == Seq(Characters)

(* Where a marker starts in a text. *)
Starts(s, marker) ==
    {i \in 1..(Len(s) - Len(marker) + 1) :
        \A k \in DOMAIN marker : s[i + k - 1] = marker[k]}

(* No opening marker holds another, as for the two of the service. *)
ASSUME BlocksAssumption ==
    /\ \A b \in Blocks : {b.opening, b.closing} \subseteq Text \ {<<>>}
    /\ \A b, c \in Blocks : b # c => Starts(b.opening, c.opening) = {}

Openings == {b.opening : b \in Blocks}

(* The filter holds text back, and knows the marker that ends the envelope *)
(* it is in, if it is in one.                                              *)
Outside == <<>>
Filter  == [held : Text, until : {Outside} \cup {b.closing : b \in Blocks}, shown : Text]
Fresh   == [held |-> <<>>, until |-> Outside, shown |-> <<>>]

First(s, marker) == Min(Starts(s, marker))
From(s, i)       == SubSeq(s, i, Len(s))
Before(s, i)     == SubSeq(s, 1, i - 1)

(* The length of the longest end of a text that may become a marker.       *)
Nothing(s, markers) == 0                                         (* mutant *)

Undecided(s, markers) ==
    Max({0} \cup {n \in 1..Len(s) : \E m \in markers :
                     n < Len(m) /\ \A k \in 1..n : s[Len(s) - n + k] = m[k]})

(* The markers that the filter looks for, and the one that comes first.    *)
Awaited(f) == IF f.until = Outside THEN Openings ELSE {f.until}

Found(f) == \E m \in Awaited(f) : Starts(f.held, m) # {}

Leading(f) == CHOOSE m \in Awaited(f) :
    /\ Starts(f.held, m) # {}
    /\ \A n \in Awaited(f) :
          Starts(f.held, n) # {} => First(f.held, m) <= First(f.held, n)

(* A marker opens an envelope or ends it. *)
Beyond(f, marker) ==
    IF f.until = Outside THEN (CHOOSE b \in Blocks : b.opening = marker).closing ELSE Outside

(* What precedes a place is shown, unless it is in an envelope. *)
Shown(f, i) == IF f.until = Outside THEN f.shown \o Before(f.held, i) ELSE f.shown

(* A turn of the loop, and the last one. *)
Pass(f) == LET m == Leading(f)
               i == First(f.held, m)
           IN  [held  |-> From(f.held, i + Len(m)),
                until |-> Beyond(f, m),
                shown |-> Shown(f, i)]

Rest(f) == LET i == Len(f.held) - Undecided(f.held, Awaited(f)) + 1
           IN  [held |-> From(f.held, i), until |-> f.until, shown |-> Shown(f, i)]

sift[f \in Filter] == IF Found(f) THEN sift[Pass(f)] ELSE Rest(f)

Feed(f, piece) == sift[[f EXCEPT !.held = @ \o piece]]

(* What is held at the end is dropped: it may be private. *)
Visible(content) == Feed(Fresh, content).shown

-----------------------------------------------------------------------------
(* Reference: the text outside the envelopes, read one character at a time.*)

StartsWith(s, marker) == 1 \in Starts(s, marker)

ReadOne(f) ==
    IF \E m \in Awaited(f) : StartsWith(f.held, m)
    THEN LET m == CHOOSE m \in Awaited(f) : StartsWith(f.held, m)
         IN  [f EXCEPT !.held = From(f.held, Len(m) + 1), !.until = Beyond(f, m)]
    ELSE [f EXCEPT !.held = From(f.held, 2), !.shown = Shown(f, 2)]

reading[f \in Filter] == IF f.held = <<>> THEN f.shown ELSE reading[ReadOne(f)]

Public(s) == reading[[Fresh EXCEPT !.held = s]]
=============================================================================
