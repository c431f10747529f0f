------------------------- MODULE HermesStreamProofs -------------------------
(***************************************************************************)
(* Proofs about HermesStream and PrivateText, for every set of characters, *)
(* every set of envelopes of which no opening marker holds another, every  *)
(* text, and every bound.                                                  *)
(*                                                                         *)
(* First the filter: it makes smaller and smaller what it holds, so its    *)
(* loop ends; a text fed in two pieces leaves it as the text fed at once   *)
(* (FeedsJoin); and with what it still holds it has shown what the         *)
(* reference reads (SiftReads).  Then frames: what is split from a stream  *)
(* that was cut anywhere is whole frames, and what is left starts after    *)
(* the end of one (SplitCuts).  Then what a run reads, what a chat tells   *)
(* of files, where each part of a frame stands among all that Hermes sent  *)
(* (InPlace), the invariant Inv and the steps, and last the theorems.      *)
(*                                                                         *)
(* A property that is to be shown by induction is given as a set, since a  *)
(* theorem that takes an operator cannot be applied.                       *)
(***************************************************************************)
EXTENDS HermesStream, FiniteSetTheorems, FunctionTheorems, SequenceTheorems, WellFoundedInduction, TLAPS

-----------------------------------------------------------------------------
(* Induction. *)

(* Induction on numbers for a given set: what holds at 0 and goes up to    *)
(* the next holds everywhere.                                              *)
LEMMA FromZero ==
  ASSUME NEW T, 0 \in T, \A n \in Nat : n \in T => n + 1 \in T
  PROVE  \A n \in Nat : n \in T
<1>1. SUFFICES ASSUME {n \in Nat : n \notin T} # {} PROVE FALSE OBVIOUS
<1> DEFINE F == {n \in Nat : n \notin T}
<1>2. F \subseteq Nat /\ F # {} BY <1>1
<1>3. PICK n \in F : \A m \in F : ~(<<m, n>> \in OpToRel(<, Nat))
  <2> HIDE DEF F
  <2> QED BY <1>2, NatLessThanWellFounded, WFMin, Zenon
<1>4. \A m \in F : ~(m < n) BY <1>2, <1>3 DEF OpToRel
<1>5. n \in Nat /\ n \notin T BY <1>3
<1>6. n # 0 BY <1>5
<1>7. n - 1 \in Nat /\ n - 1 < n /\ n - 1 + 1 = n BY <1>5, <1>6
<1>8. n - 1 \in T BY <1>4, <1>7
<1> QED BY <1>5, <1>7, <1>8

(* It may stop at a number.                                                *)
LEMMA UpFromZero ==
  ASSUME NEW L \in Nat, NEW T, 0 \in T, \A n \in 0 .. L - 1 : n \in T => n + 1 \in T
  PROVE  \A n \in 0 .. L : n \in T
<1> DEFINE U == {n \in Nat : n <= L => n \in T}
<1>1. 0 \in U OBVIOUS
<1>2. ASSUME NEW n \in Nat, n \in U PROVE n + 1 \in U
  <2>1. SUFFICES ASSUME n + 1 <= L PROVE n + 1 \in T OBVIOUS
  <2>2. n \in 0 .. L - 1 /\ n <= L BY <2>1
  <2> QED BY <1>2, <2>2
<1>3. \A n \in Nat : n \in U
  <2> HIDE DEF U
  <2> QED BY <1>1, <1>2, FromZero
<1> QED BY <1>3

(* Induction on the measure of the elements of a set.                      *)
LEMMA ByMeasure ==
  ASSUME NEW S, NEW M \in [S -> Nat], NEW T,
         \A x \in S : (\A y \in S : M[y] < M[x] => y \in T) => x \in T
  PROVE  \A x \in S : x \in T
<1> DEFINE U == {n \in Nat : \A x \in S : M[x] < n => x \in T}
<1>1. 0 \in U BY M \in [S -> Nat]
<1>2. ASSUME NEW n \in Nat, n \in U PROVE n + 1 \in U
  <2>1. ASSUME NEW x \in S, M[x] < n + 1 PROVE x \in T
    <3>1. M[x] \in Nat OBVIOUS
    <3>2. M[x] <= n BY <2>1, <3>1
    <3>3. ASSUME NEW y \in S, M[y] < M[x] PROVE y \in T
      <4>1. M[y] \in Nat OBVIOUS
      <4>2. M[y] < n BY <3>1, <3>2, <3>3, <4>1
      <4> QED BY <1>2, <4>2
    <3> QED BY <3>3
  <2> QED BY <2>1
<1>3. \A n \in Nat : n \in U
  <2> HIDE DEF U
  <2> QED BY <1>1, <1>2, FromZero
<1>4. ASSUME NEW x \in S PROVE x \in T
  <2>1. M[x] \in Nat /\ M[x] + 1 \in Nat /\ M[x] < M[x] + 1 OBVIOUS
  <2>2. M[x] + 1 \in U BY <1>3, <2>1
  <2> QED BY <2>1, <2>2
<1> QED BY <1>4

(* A loop that ends has a result: the values of its recursive function on  *)
(* what takes less than n turns.                                           *)
Turns(g, S, M, More, next, last, n) ==
  g = [x \in {y \in S : M[y] < n} |-> IF x \in More THEN g[next[x]] ELSE last[x]]

(* The values for n turns do not depend on n.                              *)
LEMMA TurnsAgree ==
  ASSUME NEW S, NEW M \in [S -> Nat], NEW More, NEW next, NEW last,
         \A x \in S : x \in More => next[x] \in S /\ M[next[x]] < M[x],
         NEW n \in Nat, NEW k \in Nat, NEW g, NEW h,
         Turns(g, S, M, More, next, last, n), Turns(h, S, M, More, next, last, k)
  PROVE  \A x \in S : M[x] < n /\ M[x] < k => g[x] = h[x]
<1> DEFINE T == {x \in S : M[x] < n /\ M[x] < k => g[x] = h[x]}
<1>1. ASSUME NEW x \in S, \A y \in S : M[y] < M[x] => y \in T PROVE x \in T
  <2>1. SUFFICES ASSUME M[x] < n, M[x] < k PROVE g[x] = h[x] OBVIOUS
  <2>2. /\ g[x] = IF x \in More THEN g[next[x]] ELSE last[x]
        /\ h[x] = IF x \in More THEN h[next[x]] ELSE last[x]
    BY <2>1 DEF Turns
  <2>3. ASSUME x \in More PROVE g[next[x]] = h[next[x]]
    <3>1. next[x] \in S /\ M[next[x]] < M[x] BY <2>3
    <3>2. M[next[x]] \in Nat /\ M[x] \in Nat BY <3>1
    <3>3. M[next[x]] < n /\ M[next[x]] < k BY <2>1, <3>1, <3>2
    <3> QED BY <1>1, <3>1, <3>3
  <2> QED BY <2>2, <2>3
<1>2. \A x \in S : x \in T
  <2> HIDE DEF T
  <2> QED BY <1>1, ByMeasure
<1> QED BY <1>2

(* The recursive function of a loop. *)
Loop(f, S, More, next, last) == f = [x \in S |-> IF x \in More THEN f[next[x]] ELSE last[x]]

(* The recursive function of a loop whose turns make a measure smaller     *)
(* exists: sift and reading are such functions.                            *)
LEMMA LoopEnds ==
  ASSUME NEW S, NEW M \in [S -> Nat], NEW More, NEW next, NEW last,
         \A x \in S : x \in More => next[x] \in S /\ M[next[x]] < M[x]
  PROVE  \E f : Loop(f, S, More, next, last)
<1> DEFINE Ends(g, n) == Turns(g, S, M, More, next, last, n)
           T == {n \in Nat : \E g : Ends(g, n)}
<1>1. 0 \in T
  <2>1. PICK g : g = [x \in {} |-> {}] OBVIOUS
  <2>2. {y \in S : M[y] < 0} = {} BY M \in [S -> Nat]
  <2>3. Ends(g, 0) BY <2>1, <2>2 DEF Turns
  <2> QED BY <2>3
<1>2. ASSUME NEW n \in Nat, n \in T PROVE n + 1 \in T
  <2>1. PICK g : Ends(g, n) BY <1>2
  <2>2. PICK h : h = [x \in {y \in S : M[y] < n + 1} |->
                         IF x \in More THEN g[next[x]] ELSE last[x]]
    OBVIOUS
  <2>3. ASSUME NEW x \in S, M[x] < n + 1, x \in More PROVE h[next[x]] = g[next[x]]
    <3>1. next[x] \in S /\ M[next[x]] < M[x] BY <2>3
    <3>2. M[next[x]] \in Nat /\ M[x] \in Nat BY <3>1
    <3>3. M[next[x]] < n /\ M[next[x]] < n + 1 BY <2>3, <3>1, <3>2
    <3>4. h[next[x]] = IF next[x] \in More THEN g[next[next[x]]] ELSE last[next[x]]
      BY <2>2, <3>1, <3>3
    <3>5. g[next[x]] = IF next[x] \in More THEN g[next[next[x]]] ELSE last[next[x]]
      BY <2>1, <3>1, <3>3 DEF Turns
    <3> QED BY <3>4, <3>5
  <2>4. h = [x \in {y \in S : M[y] < n + 1} |-> IF x \in More THEN h[next[x]] ELSE last[x]]
    BY <2>2, <2>3
  <2>5. Ends(h, n + 1) BY <2>4 DEF Turns
  <2> QED BY <2>5
<1>3. \A n \in Nat : n \in T
  <2> HIDE DEF T
  <2> QED BY <1>1, <1>2, FromZero
<1>4. \A n \in Nat : Ends(CHOOSE g : Ends(g, n), n) BY <1>3
<1>5. PICK f : f = [x \in S |-> (CHOOSE g : Ends(g, M[x] + 1))[x]] OBVIOUS
<1>6. ASSUME NEW x \in S PROVE f[x] = IF x \in More THEN f[next[x]] ELSE last[x]
  <2>1. PICK n \in Nat : n = M[x] + 1 /\ M[x] < n BY M[x] \in Nat
  <2>2. PICK g : Ends(g, n) /\ f[x] = g[x] BY <1>4, <1>5, <2>1
  <2>3. f[x] = IF x \in More THEN g[next[x]] ELSE last[x] BY <2>1, <2>2 DEF Turns
  <2>4. ASSUME x \in More PROVE g[next[x]] = f[next[x]]
    <3>1. next[x] \in S /\ M[next[x]] < M[x] BY <2>4
    <3>2. PICK k \in Nat : k = M[next[x]] + 1 /\ M[next[x]] < k BY <3>1
    <3>3. PICK h : Ends(h, k) /\ f[next[x]] = h[next[x]] BY <1>4, <1>5, <3>1, <3>2
    <3>4. M[next[x]] < n BY <2>1, <3>1, <3>2
    <3>5. g[next[x]] = h[next[x]]
      <4> HIDE DEF T
      <4> QED BY <2>2, <3>1, <3>2, <3>3, <3>4, TurnsAgree
    <3> QED BY <3>3, <3>5
  <2> QED BY <2>3, <2>4
<1>7. Loop(f, S, More, next, last) BY <1>5, <1>6 DEF Loop
<1> QED BY <1>7

(* A set of numbers that is not empty has a smallest.                      *)
LEMMA Smallest ==
  ASSUME NEW S \in SUBSET Nat, S # {}
  PROVE  Min(S) \in S /\ \A n \in S : Min(S) <= n
<1>1. PICK x \in S : \A y \in S : ~(<<y, x>> \in OpToRel(<, Nat))
  BY NatLessThanWellFounded, WFMin, Zenon
<1>2. \A y \in S : x <= y
  <2>1. \A y \in S : ~(y < x) BY <1>1 DEF OpToRel
  <2> QED BY <2>1
<1> QED BY <1>2 DEF Min

(* A set of numbers up to L that is not empty has a largest.               *)
LEMMA Largest ==
  ASSUME NEW L \in Nat, NEW S \in SUBSET (0 .. L), S # {}
  PROVE  Max(S) \in S /\ \A n \in S : n <= Max(S)
<1> DEFINE D == {d \in 0 .. L : L - d \in S}
<1>0. \A n \in S : n \in Nat /\ n <= L
  <2>1. \A n \in 0 .. L : n \in Nat /\ n <= L OBVIOUS
  <2> QED BY <2>1
<1>1. PICK a \in Nat : a \in S /\ a <= L BY <1>0
<1>2. L - a \in 0 .. L /\ L - (L - a) = a BY <1>1
<1>3. D \in SUBSET Nat /\ D # {}
  <2>1. D \subseteq 0 .. L /\ 0 .. L \subseteq Nat OBVIOUS
  <2>2. L - a \in D BY <1>1, <1>2
  <2> QED BY <2>1, <2>2
<1>4. PICK d \in D : \A e \in D : d <= e
  <2> HIDE DEF D
  <2> QED BY <1>3, Smallest
<1>5. L - d \in S OBVIOUS
<1>6. ASSUME NEW n \in S PROVE L - d >= n
  <2>1. L - n \in 0 .. L /\ L - (L - n) = n BY <1>0
  <2>2. L - n \in D BY <2>1
  <2>3. d <= L - n BY <1>4, <2>2
  <2> QED BY <1>0, <2>3
<1>7. Max(S) \in S /\ \A n \in S : Max(S) >= n BY <1>5, <1>6 DEF Max
<1>8. \A n \in S : n \in Nat /\ Max(S) \in Nat BY <1>0, <1>7
<1> QED BY <1>7, <1>8

-----------------------------------------------------------------------------
(* Texts and places in them. *)

(* A text is told by its length and its characters.                        *)
LEMMA SameText ==
  ASSUME NEW s \in Text, NEW t \in Text, Len(s) = Len(t), \A i \in 1 .. Len(s) : s[i] = t[i]
  PROVE  s = t
BY SeqEqual DEF Text

(* What a place cuts a text into.                                          *)
LEMMA Cuts ==
  ASSUME NEW s \in Text, NEW i \in 1 .. Len(s) + 1
  PROVE  /\ From(s, i) \in Text /\ Len(From(s, i)) = Len(s) - i + 1
         /\ \A k \in 1 .. Len(s) - i + 1 : From(s, i)[k] = s[i + k - 1]
         /\ Before(s, i) \in Text /\ Len(Before(s, i)) = i - 1
         /\ \A k \in 1 .. i - 1 : Before(s, i)[k] = s[k]
<1>1. Len(s) \in Nat /\ i \in Int /\ 1 <= i /\ i <= Len(s) + 1 BY LenProperties DEF Text
<1>2. \A k \in 1 .. Len(s) : s[k] \in Characters BY ElementOfSeq DEF Text
<1>3. \A k \in i .. Len(s) : s[k] \in Characters BY <1>1, <1>2
<1>4. \A k \in 1 .. i - 1 : s[k] \in Characters BY <1>1, <1>2
<1>5. /\ From(s, i) \in Text
      /\ Len(From(s, i)) = IF i <= Len(s) THEN Len(s) - i + 1 ELSE 0
      /\ \A k \in 1 .. Len(s) - i + 1 : From(s, i)[k] = s[i + k - 1]
  BY <1>1, <1>3, SubSeqProperties DEF From, Text
<1>6. /\ Before(s, i) \in Text
      /\ Len(Before(s, i)) = IF 1 <= i - 1 THEN i - 1 - 1 + 1 ELSE 0
      /\ \A k \in 1 .. i - 1 - 1 + 1 : Before(s, i)[k] = s[1 + k - 1]
  <2>1. 1 \in Int /\ i - 1 \in Int BY <1>1
  <2> QED BY <1>4, <2>1, SubSeqProperties DEF Before, Text
<1>7. Len(From(s, i)) = Len(s) - i + 1 /\ Len(Before(s, i)) = i - 1 BY <1>1, <1>5, <1>6
<1>8. \A k \in 1 .. i - 1 : Before(s, i)[k] = s[k]
  <2>1. ASSUME NEW k \in 1 .. i - 1 PROVE Before(s, i)[k] = s[k]
    <3>1. k \in 1 .. i - 1 - 1 + 1 /\ 1 + k - 1 = k BY <1>1
    <3>2. Before(s, i)[k] = s[1 + k - 1] BY <1>6, <3>1
    <3> QED BY <3>1, <3>2
  <2> QED BY <2>1
<1> QED BY <1>5, <1>6, <1>7, <1>8

(* The characters of a text that goes on.                                  *)
LEMMA Joins ==
  ASSUME NEW s \in Text, NEW q \in Text
  PROVE  /\ Len(s) \in Nat /\ Len(q) \in Nat
         /\ s \o q \in Text /\ Len(s \o q) = Len(s) + Len(q)
         /\ \A k \in 1 .. Len(s) : (s \o q)[k] = s[k]
         /\ \A k \in Len(s) + 1 .. Len(s) + Len(q) : (s \o q)[k] = q[k - Len(s)]
<1>1. Len(s) \in Nat /\ Len(q) \in Nat BY LenProperties DEF Text
<1>2. /\ s \o q \in Text /\ Len(s \o q) = Len(s) + Len(q)
      /\ \A k \in 1 .. Len(s) + Len(q) :
            (s \o q)[k] = IF k <= Len(s) THEN s[k] ELSE q[k - Len(s)]
  BY ConcatProperties DEF Text
<1>3. \A k \in 1 .. Len(s) : k \in 1 .. Len(s) + Len(q) /\ k <= Len(s) BY <1>1
<1>4. \A k \in Len(s) + 1 .. Len(s) + Len(q) : k \in 1 .. Len(s) + Len(q) /\ ~(k <= Len(s))
  BY <1>1
<1> QED BY <1>1, <1>2, <1>3, <1>4

(* Texts that are joined in any order.                                     *)
LEMMA Associates ==
  ASSUME NEW s \in Text, NEW q \in Text, NEW t \in Text
  PROVE  /\ (s \o q) \o t = s \o (q \o t)
         /\ s \o <<>> = s /\ <<>> \o s = s /\ <<>> \in Text /\ Len(<<>>) = 0
BY ConcatAssociative, ConcatEmptySeq, EmptySeq DEF Text

(* A place in a text cuts the text that goes on likewise.                  *)
LEMMA CutsJoined ==
  ASSUME NEW s \in Text, NEW q \in Text, NEW i \in 1 .. Len(s) + 1
  PROVE  From(s \o q, i) = From(s, i) \o q /\ Before(s \o q, i) = Before(s, i)
<1>1. PICK L \in Nat, K \in Nat : L = Len(s) /\ K = Len(q) BY Joins
<1>2. PICK w \in Text : /\ w = s \o q /\ Len(w) = L + K
                        /\ \A k \in 1 .. L : w[k] = s[k]
                        /\ \A k \in L + 1 .. L + K : w[k] = q[k - L]
  BY <1>1, Joins, ZenonT(60)
<1>3. i \in Nat /\ 1 <= i /\ i <= L + 1 /\ i \in 1 .. Len(w) + 1 BY <1>1, <1>2
<1>4. PICK F \in Nat : F = L - i + 1 BY <1>1, <1>3
<1>5. PICK f \in Text : /\ f = From(s, i) /\ Len(f) = F
                        /\ \A k \in 1 .. F : f[k] = s[i + k - 1]
  BY <1>1, <1>4, Cuts
<1>13. PICK G \in Nat : G = F + K OBVIOUS
<1>6. PICK g \in Text : g = From(w, i) /\ Len(g) = G /\ \A k \in 1 .. G : g[k] = w[i + k - 1]
  <2>1. Len(w) - i + 1 = G BY <1>1, <1>2, <1>3, <1>4, <1>13
  <2> QED BY <1>3, <2>1, Cuts
<1>7. PICK b \in Text : b = Before(s, i) /\ Len(b) = i - 1 /\ \A k \in 1 .. i - 1 : b[k] = s[k]
  BY <1>1, Cuts
<1>8. PICK c \in Text : c = Before(w, i) /\ Len(c) = i - 1 /\ \A k \in 1 .. i - 1 : c[k] = w[k]
  BY <1>3, Cuts
<1>9. PICK h \in Text : /\ h = f \o q /\ Len(h) = F + K
                        /\ \A k \in 1 .. F : h[k] = f[k]
                        /\ \A k \in F + 1 .. F + K : h[k] = q[k - F]
  <2>1. F = Len(f) /\ K = Len(q) BY <1>1, <1>5
  <2>2. /\ f \o q \in Text /\ Len(f \o q) = Len(f) + Len(q)
        /\ \A k \in 1 .. Len(f) : (f \o q)[k] = f[k]
        /\ \A k \in Len(f) + 1 .. Len(f) + Len(q) : (f \o q)[k] = q[k - Len(f)]
    BY Joins
  <2> QED BY <2>1, <2>2
<1>10. ASSUME NEW k \in 1 .. F + K PROVE g[k] = h[k]
  <2>0. k \in Nat /\ k \in 1 .. G BY <1>13
  <2>1. CASE k <= F
    <3>1. k \in 1 .. F /\ i + k - 1 \in 1 .. L BY <1>1, <1>3, <1>4, <2>0, <2>1
    <3>2. g[k] = w[i + k - 1] BY <1>6, <2>0
    <3>3. w[i + k - 1] = s[i + k - 1] BY <1>2, <3>1
    <3>4. f[k] = s[i + k - 1] BY <1>5, <3>1
    <3>5. h[k] = f[k] BY <1>9, <3>1
    <3> QED BY <3>2, <3>3, <3>4, <3>5
  <2>2. CASE k > F
    <3>1. k \in F + 1 .. F + K /\ i + k - 1 \in L + 1 .. L + K /\ k - F = i + k - 1 - L
      BY <1>1, <1>3, <1>4, <2>0, <2>2
    <3>2. g[k] = w[i + k - 1] BY <1>6, <2>0
    <3>3. w[i + k - 1] = q[i + k - 1 - L]
      <4>1. PICK n \in L + 1 .. L + K : n = i + k - 1 BY <3>1
      <4>2. w[n] = q[n - L] BY <1>2
      <4> QED BY <4>1, <4>2
    <3>4. h[k] = q[k - F] BY <1>9, <3>1
    <3> QED BY <3>1, <3>2, <3>3, <3>4
  <2> QED BY <1>4, <2>0, <2>1, <2>2
<1>11. g = h
  <2>1. Len(g) = Len(h) /\ Len(g) = F + K BY <1>6, <1>9, <1>13
  <2> QED BY <1>10, <2>1, SameText
<1>12. b = c
  <2>1. \A k \in 1 .. i - 1 : k \in 1 .. L BY <1>1, <1>3
  <2>2. Len(b) = Len(c) /\ Len(b) = i - 1 BY <1>7, <1>8
  <2>3. \A k \in 1 .. i - 1 : b[k] = c[k] BY <1>2, <1>7, <1>8, <2>1
  <2> QED BY <2>2, <2>3, SameText
<1> QED BY <1>2, <1>5, <1>6, <1>7, <1>8, <1>9, <1>11, <1>12

(* A place in what follows a place.                                        *)
LEMMA CutsTwice ==
  ASSUME NEW s \in Text, NEW i \in 1 .. Len(s) + 1, NEW j \in 1 .. Len(s) - i + 2
  PROVE  /\ i + j - 1 \in 1 .. Len(s) + 1
         /\ From(From(s, i), j) = From(s, i + j - 1)
         /\ Before(s, i) \o Before(From(s, i), j) = Before(s, i + j - 1)
<1>1. PICK L \in Nat : L = Len(s) BY LenProperties DEF Text
<1>2. i \in Nat /\ j \in Nat /\ 1 <= i /\ i <= L + 1 /\ 1 <= j /\ j <= L - i + 2 BY <1>1
<1>3. PICK n \in Nat : n = i + j - 1 /\ 1 <= n /\ n <= L + 1 BY <1>1, <1>2
<1>16. PICK F \in Nat : F = L - i + 1 BY <1>1, <1>2
<1>4. PICK f \in Text : /\ f = From(s, i) /\ Len(f) = F
                        /\ \A k \in 1 .. F : f[k] = s[i + k - 1]
  BY <1>1, <1>16, Cuts
<1>5. PICK b \in Text : b = Before(s, i) /\ Len(b) = i - 1 /\ \A k \in 1 .. i - 1 : b[k] = s[k]
  BY <1>1, Cuts
<1>6. n \in 1 .. Len(s) + 1 BY <1>1, <1>3
<1>7. PICK g \in Text : /\ g = From(s, n) /\ Len(g) = L - n + 1
                        /\ \A k \in 1 .. L - n + 1 : g[k] = s[n + k - 1]
  BY <1>1, <1>6, Cuts
<1>8. PICK c \in Text : c = Before(s, n) /\ Len(c) = n - 1 /\ \A k \in 1 .. n - 1 : c[k] = s[k]
  BY <1>1, <1>6, Cuts
<1>9. j \in 1 .. Len(f) + 1 BY <1>2, <1>4, <1>16
<1>10. PICK h \in Text : /\ h = From(f, j) /\ Len(h) = F - j + 1
                         /\ \A k \in 1 .. F - j + 1 : h[k] = f[j + k - 1]
  BY <1>4, <1>9, Cuts
<1>11. PICK d \in Text : d = Before(f, j) /\ Len(d) = j - 1 /\ \A k \in 1 .. j - 1 : d[k] = f[k]
  BY <1>4, <1>9, Cuts
<1>12. h = g
  <2>1. Len(h) = Len(g) /\ Len(h) = L - n + 1 BY <1>1, <1>2, <1>3, <1>7, <1>10, <1>16
  <2>2. ASSUME NEW k \in 1 .. L - n + 1 PROVE h[k] = g[k]
    <3>1. /\ k \in 1 .. F - j + 1 /\ j + k - 1 \in 1 .. F
          /\ i + (j + k - 1) - 1 = n + k - 1
      BY <1>1, <1>2, <1>3, <1>16
    <3> QED BY <1>4, <1>7, <1>10, <3>1
  <2> QED BY <2>1, <2>2, SameText
<1>13. b \o d = c
  <2>1. PICK I \in Nat, J \in Nat : I = i - 1 /\ J = j - 1 BY <1>2
  <2>2. PICK e \in Text : /\ e = b \o d /\ Len(e) = I + J
                          /\ \A k \in 1 .. I : e[k] = b[k]
                          /\ \A k \in I + 1 .. I + J : e[k] = d[k - I]
    <3>1. I = Len(b) /\ J = Len(d) BY <1>5, <1>11, <2>1
    <3>2. /\ b \o d \in Text /\ Len(b \o d) = Len(b) + Len(d)
          /\ \A k \in 1 .. Len(b) : (b \o d)[k] = b[k]
          /\ \A k \in Len(b) + 1 .. Len(b) + Len(d) : (b \o d)[k] = d[k - Len(b)]
      BY Joins
    <3> QED BY <3>1, <3>2
  <2>3. Len(e) = Len(c) /\ Len(e) = n - 1 BY <1>2, <1>3, <1>8, <2>1, <2>2
  <2>4. ASSUME NEW k \in 1 .. n - 1 PROVE e[k] = c[k]
    <3>0. k \in Nat /\ 1 <= k /\ k <= I + J BY <1>2, <1>3, <2>1
    <3>1. CASE k <= I
      <4>1. k \in 1 .. I /\ k \in 1 .. i - 1 BY <2>1, <3>0, <3>1
      <4> QED BY <1>5, <1>8, <2>2, <4>1
    <3>2. CASE k > I
      <4>1. /\ k \in I + 1 .. I + J /\ k - I \in 1 .. j - 1
            /\ k - I \in 1 .. F /\ i + (k - I) - 1 = k
        BY <1>2, <1>16, <2>1, <3>0, <3>2
      <4> QED BY <1>4, <1>8, <1>11, <2>2, <4>1, ZenonT(60)
    <3> QED BY <2>1, <3>0, <3>1, <3>2
  <2> QED BY <2>2, <2>3, <2>4, SameText
<1>14. From(From(s, i), j) = From(s, n) BY <1>4, <1>7, <1>10, <1>12
<1>15. Before(s, i) \o Before(From(s, i), j) = Before(s, n) BY <1>4, <1>5, <1>8, <1>11, <1>13
<1> QED BY <1>1, <1>3, <1>6, <1>14, <1>15

(* Both ends of a text, and what a place cuts it into.                     *)
LEMMA CutsEnds ==
  ASSUME NEW s \in Text
  PROVE  /\ From(s, 1) = s /\ Before(s, 1) = <<>>
         /\ From(s, Len(s) + 1) = <<>> /\ Before(s, Len(s) + 1) = s
         /\ \A i \in 1 .. Len(s) + 1 : Before(s, i) \o From(s, i) = s
<1>1. PICK L \in Nat : L = Len(s) BY LenProperties DEF Text
<1>2. 1 \in 1 .. Len(s) + 1 /\ Len(s) + 1 \in 1 .. Len(s) + 1 BY <1>1
<1>3. From(s, 1) = s BY SubSeqFull DEF From, Text
<1>4. Before(s, 1) = <<>> BY SubSeqEmpty DEF Before
<1>5. From(s, Len(s) + 1) = <<>>
  <2>1. Len(s) + 1 \in Int /\ Len(s) \in Int /\ Len(s) < Len(s) + 1 BY <1>1
  <2> QED BY <2>1, SubSeqEmpty DEF From
<1>6. Before(s, Len(s) + 1) = s
  <2>1. Len(s) + 1 - 1 = Len(s) BY <1>1
  <2> QED BY <2>1, SubSeqFull DEF Before, Text
<1>7. ASSUME NEW i \in 1 .. Len(s) + 1 PROVE Before(s, i) \o From(s, i) = s
  <2>1. i \in Nat /\ 1 <= i /\ i <= L + 1 BY <1>1
  <2>2. PICK I \in Nat, F \in Nat : I = i - 1 /\ F = L - i + 1 BY <2>1
  <2>3. PICK b \in Text : b = Before(s, i) /\ Len(b) = I /\ \A k \in 1 .. I : b[k] = s[k]
    BY <2>2, Cuts
  <2>4. PICK f \in Text : /\ f = From(s, i) /\ Len(f) = F
                          /\ \A k \in 1 .. F : f[k] = s[i + k - 1]
    BY <1>1, <2>2, Cuts
  <2>5. PICK e \in Text : /\ e = b \o f /\ Len(e) = I + F
                          /\ \A k \in 1 .. I : e[k] = b[k]
                          /\ \A k \in I + 1 .. I + F : e[k] = f[k - I]
    <3>1. I = Len(b) /\ F = Len(f) BY <2>3, <2>4
    <3>2. /\ b \o f \in Text /\ Len(b \o f) = Len(b) + Len(f)
          /\ \A k \in 1 .. Len(b) : (b \o f)[k] = b[k]
          /\ \A k \in Len(b) + 1 .. Len(b) + Len(f) : (b \o f)[k] = f[k - Len(b)]
      BY Joins
    <3> QED BY <3>1, <3>2
  <2>6. Len(e) = Len(s) /\ Len(e) = L BY <1>1, <2>1, <2>2, <2>5
  <2>7. ASSUME NEW k \in 1 .. L PROVE e[k] = s[k]
    <3>0. k \in Nat /\ 1 <= k /\ k <= I + F BY <2>1, <2>2
    <3>1. CASE k <= I
      <4>1. k \in 1 .. I BY <2>2, <3>0, <3>1
      <4> QED BY <2>3, <2>5, <4>1
    <3>2. CASE k > I
      <4>1. k \in I + 1 .. I + F /\ k - I \in 1 .. F /\ i + (k - I) - 1 = k
        BY <2>1, <2>2, <3>0, <3>2
      <4> QED BY <2>4, <2>5, <4>1
    <3> QED BY <2>2, <3>0, <3>1, <3>2
  <2>8. e = s BY <2>6, <2>7, SameText
  <2> QED BY <2>3, <2>4, <2>5, <2>8
<1> QED BY <1>3, <1>4, <1>5, <1>6, <1>7

-----------------------------------------------------------------------------
(* Markers in texts. *)

Markers == Text \ {<<>>}

(* What it is for a marker to start at a place.                            *)
LEMMA StartsAt ==
  ASSUME NEW s \in Text, NEW m \in Markers
  PROVE  /\ Len(s) \in Nat /\ Len(m) \in Nat /\ 1 <= Len(m)
         /\ Starts(s, m) \subseteq 1 .. Len(s)
         /\ \A i \in Starts(s, m) : i \in Nat /\ 1 <= i /\ i + Len(m) <= Len(s) + 1
         /\ \A i \in Starts(s, m) : \A k \in 1 .. Len(m) : s[i + k - 1] = m[k]
         /\ \A i \in Nat : 1 <= i /\ i + Len(m) <= Len(s) + 1
                           /\ (\A k \in 1 .. Len(m) : s[i + k - 1] = m[k]) => i \in Starts(s, m)
<1>1. Len(s) \in Nat /\ Len(m) \in Nat /\ DOMAIN m = 1 .. Len(m) /\ 1 <= Len(m)
  <2>1. Len(s) \in Nat /\ Len(m) \in Nat /\ DOMAIN m = 1 .. Len(m)
    BY LenProperties DEF Text, Markers
  <2>2. Len(m) \in Nat \ {0} BY EmptySeq DEF Text, Markers
  <2> QED BY <2>1, <2>2
<1>2. PICK L \in Nat, K \in Nat : L = Len(s) /\ K = Len(m) /\ 1 <= K BY <1>1
<1>3. \A i : i \in Starts(s, m) <=>
                i \in 1 .. L - K + 1 /\ \A k \in 1 .. K : s[i + k - 1] = m[k]
  BY <1>1, <1>2 DEF Starts
<1>4. \A i \in 1 .. L - K + 1 : i \in Nat /\ 1 <= i /\ i + K <= L + 1 /\ i \in 1 .. L BY <1>2
<1>5. \A i \in Nat : 1 <= i /\ i + K <= L + 1 => i \in 1 .. L - K + 1 OBVIOUS
<1> QED BY <1>2, <1>3, <1>4, <1>5

(* A marker in a text is one in the text that goes on, and the other way   *)
(* around if it ends in it.                                                *)
LEMMA StartsJoined ==
  ASSUME NEW s \in Text, NEW q \in Text, NEW m \in Markers, NEW i
  PROVE  /\ i \in Starts(s, m) => i \in Starts(s \o q, m)
         /\ i \in Starts(s \o q, m) /\ i + Len(m) <= Len(s) + 1 => i \in Starts(s, m)
<1>1. PICK L \in Nat, K \in Nat, M \in Nat : L = Len(s) /\ K = Len(q) /\ M = Len(m)
  BY Joins, StartsAt
<1>2. PICK w \in Text : w = s \o q /\ Len(w) = L + K /\ \A k \in 1 .. L : w[k] = s[k]
  BY <1>1, Joins
<1>3. \A n \in Nat : 1 <= n /\ n + M <= L + 1 =>
          \A k \in 1 .. M : n + k - 1 \in 1 .. L /\ w[n + k - 1] = s[n + k - 1]
  <2>1. \A n \in Nat : 1 <= n /\ n + M <= L + 1 => \A k \in 1 .. M : n + k - 1 \in 1 .. L
    OBVIOUS
  <2> QED BY <1>2, <2>1
<1>4. ASSUME i \in Starts(s, m) PROVE i \in Starts(w, m)
  <2>1. /\ i \in Nat /\ 1 <= i /\ i + M <= L + 1
        /\ \A k \in 1 .. M : s[i + k - 1] = m[k]
    BY <1>1, <1>4, StartsAt
  <2>2. \A k \in 1 .. M : w[i + k - 1] = m[k] BY <1>3, <2>1
  <2>3. i + M <= Len(w) + 1 BY <1>1, <1>2, <2>1
  <2> QED BY <1>1, <2>1, <2>2, <2>3, StartsAt
<1>5. ASSUME i \in Starts(w, m), i + M <= L + 1 PROVE i \in Starts(s, m)
  <2>1. i \in Nat /\ 1 <= i /\ \A k \in 1 .. M : w[i + k - 1] = m[k] BY <1>1, <1>5, StartsAt
  <2>2. \A k \in 1 .. M : s[i + k - 1] = m[k] BY <1>3, <1>5, <2>1
  <2> QED BY <1>1, <1>5, <2>1, <2>2, StartsAt
<1> QED BY <1>1, <1>2, <1>4, <1>5

(* A marker in what follows a place.                                       *)
LEMMA StartsWithin ==
  ASSUME NEW s \in Text, NEW m \in Markers, NEW p \in 1 .. Len(s) + 1, NEW n \in Nat, 1 <= n
  PROVE  n \in Starts(From(s, p), m) <=> p + n - 1 \in Starts(s, m)
<1>1. PICK L \in Nat, M \in Nat : L = Len(s) /\ M = Len(m) BY StartsAt
<1>2. p \in Nat /\ 1 <= p /\ p <= L + 1 BY <1>1
<1>3. PICK F \in Nat : F = L - p + 1 BY <1>2
<1>4. PICK f \in Text : f = From(s, p) /\ Len(f) = F /\ \A k \in 1 .. F : f[k] = s[p + k - 1]
  BY <1>1, <1>3, Cuts
<1>5. PICK r \in Nat : r = p + n - 1 /\ 1 <= r /\ (n + M <= F + 1 <=> r + M <= L + 1)
  BY <1>2, <1>3
<1>6. ASSUME n + M <= F + 1, NEW k \in 1 .. M PROVE f[n + k - 1] = s[r + k - 1]
  <2>1. n + k - 1 \in 1 .. F /\ p + (n + k - 1) - 1 = r + k - 1 BY <1>2, <1>5, <1>6
  <2> QED BY <1>4, <2>1
<1>7. ASSUME n \in Starts(f, m) PROVE r \in Starts(s, m)
  <2>1. n + M <= F + 1 /\ \A k \in 1 .. M : f[n + k - 1] = m[k] BY <1>1, <1>4, <1>7, StartsAt
  <2>2. \A k \in 1 .. M : s[r + k - 1] = m[k] BY <1>6, <2>1
  <2> QED BY <1>1, <1>5, <2>1, <2>2, StartsAt
<1>8. ASSUME r \in Starts(s, m) PROVE n \in Starts(f, m)
  <2>1. r + M <= L + 1 /\ \A k \in 1 .. M : s[r + k - 1] = m[k] BY <1>1, <1>8, StartsAt
  <2>2. n + M <= F + 1 BY <1>5, <2>1
  <2>3. \A k \in 1 .. M : f[n + k - 1] = m[k] BY <1>6, <2>1, <2>2
  <2> QED BY <1>1, <1>4, <2>2, <2>3, StartsAt
<1> QED BY <1>4, <1>5, <1>7, <1>8

(* A marker that starts and ends within another one is held by it.         *)
LEMMA HeldMarker ==
  ASSUME NEW s \in Text, NEW m \in Markers, NEW n \in Markers,
         NEW i \in Starts(s, m), NEW j \in Starts(s, n), j <= i, i + Len(m) <= j + Len(n)
  PROVE  i - j + 1 \in Starts(n, m)
<1>1. PICK M \in Nat, N \in Nat : M = Len(m) /\ N = Len(n) BY StartsAt
<1>2. i \in Nat /\ \A k \in 1 .. M : s[i + k - 1] = m[k] BY <1>1, StartsAt
<1>3. j \in Nat /\ \A k \in 1 .. N : s[j + k - 1] = n[k] BY <1>1, StartsAt
<1>4. PICK d \in Nat : d = i - j + 1 /\ 1 <= d /\ d + M <= N + 1 BY <1>1, <1>2, <1>3
<1>5. ASSUME NEW k \in 1 .. M PROVE n[d + k - 1] = m[k]
  <2>1. d + k - 1 \in 1 .. N /\ j + (d + k - 1) - 1 = i + k - 1 BY <1>2, <1>3, <1>4
  <2>2. s[j + (d + k - 1) - 1] = n[d + k - 1] BY <1>3, <2>1
  <2>3. s[i + k - 1] = m[k] BY <1>2
  <2> QED BY <2>1, <2>2, <2>3
<1>6. n \in Text BY DEF Markers
<1> QED BY <1>1, <1>4, <1>5, <1>6, StartsAt

(* Markers none of which holds another.                                    *)
Apart(A) == A \subseteq Markers /\ \A m, n \in A : m # n => Starts(m, n) = {}

(* A marker comes first in a text, at a place. *)
Leads(t, A, m, i) == /\ m \in A /\ i \in Starts(t, m)
                     /\ \A n \in A : \A j \in Starts(t, n) : i <= j

(* Only one marker comes first.                                            *)
LEMMA OneLeads ==
  ASSUME NEW t \in Text, NEW A, Apart(A), NEW m, NEW n, NEW i, NEW j,
         Leads(t, A, m, i), Leads(t, A, n, j)
  PROVE  i = j /\ m = n
<1>1. /\ m \in Markers /\ n \in Markers /\ i \in Starts(t, m) /\ j \in Starts(t, n)
      /\ m \in A /\ n \in A
  BY DEF Leads, Apart
<1>2. i \in Nat /\ j \in Nat /\ Len(m) \in Nat /\ Len(n) \in Nat BY <1>1, StartsAt
<1>3. i = j
  <2>1. i <= j /\ j <= i BY <1>1 DEF Leads
  <2> QED BY <1>2, <2>1
<1>4. CASE Len(m) <= Len(n)
  <2>1. i + Len(m) <= j + Len(n) /\ j <= i BY <1>2, <1>3, <1>4
  <2>2. Starts(n, m) # {} BY <1>1, <2>1, HeldMarker
  <2> QED BY <1>1, <1>3, <2>2 DEF Apart
<1>5. CASE Len(n) <= Len(m)
  <2>1. j + Len(n) <= i + Len(m) /\ i <= j BY <1>2, <1>3, <1>5
  <2>2. Starts(m, n) # {} BY <1>1, <2>1, HeldMarker
  <2> QED BY <1>1, <1>3, <2>2 DEF Apart
<1> QED BY <1>2, <1>4, <1>5

(* If there is a marker, one comes first.                                  *)
LEMMA SomeLeads ==
  ASSUME NEW t \in Text, NEW A \in SUBSET Markers, NEW n \in A, Starts(t, n) # {}
  PROVE  \E m : \E i : Leads(t, A, m, i)
<1> DEFINE S == UNION {Starts(t, m) : m \in A}
<1>1. \A m \in A : Starts(t, m) \subseteq Nat BY StartsAt
<1>2. S \in SUBSET Nat BY <1>1
<1>3. S # {} OBVIOUS
<1>4. PICK i \in S : \A j \in S : i <= j
  <2> HIDE DEF S
  <2> QED BY <1>2, <1>3, Smallest
<1>5. PICK m \in A : i \in Starts(t, m) OBVIOUS
<1>6. \A k \in A : \A j \in Starts(t, k) : i <= j BY <1>4
<1>7. Leads(t, A, m, i) BY <1>5, <1>6 DEF Leads
<1> QED BY <1>7

(* What comes first does so however the text goes on.                      *)
LEMMA LeadsOn ==
  ASSUME NEW t \in Text, NEW q \in Text, NEW A, Apart(A), NEW m, NEW i, Leads(t, A, m, i)
  PROVE  Leads(t \o q, A, m, i)
<1>1. m \in A /\ m \in Markers /\ i \in Starts(t, m) BY DEF Leads, Apart
<1>2. i \in Starts(t \o q, m) BY <1>1, StartsJoined
<1>3. ASSUME NEW n \in A, NEW j \in Starts(t \o q, n) PROVE i <= j
  <2>1. SUFFICES ASSUME ~(i <= j) PROVE FALSE OBVIOUS
  <2>2. n \in Markers /\ t \o q \in Text BY Joins DEF Apart
  <2>3. PICK L \in Nat, M \in Nat, N \in Nat : L = Len(t) /\ M = Len(m) /\ N = Len(n) /\ 1 <= M
    BY <1>1, <2>2, StartsAt
  <2>4. i \in Nat /\ i + M <= L + 1 BY <1>1, <2>3, StartsAt
  <2>5. j \in Nat BY <2>2, StartsAt
  <2>6. j < i BY <2>1, <2>4, <2>5
  <2>7. ~(j + N <= L + 1)
    <3>1. SUFFICES ASSUME j + N <= L + 1 PROVE FALSE OBVIOUS
    <3>2. j \in Starts(t, n) BY <2>2, <2>3, <3>1, StartsJoined
    <3> QED BY <2>1, <3>2 DEF Leads
  <2>8. i + M <= j + N /\ j <= i BY <2>3, <2>4, <2>5, <2>6, <2>7
  <2>9. i - j + 1 \in Starts(n, m) BY <1>1, <1>2, <2>2, <2>3, <2>8, HeldMarker
  <2>10. m = n BY <1>1, <2>9 DEF Apart
  <2>11. i + M <= j + M BY <2>3, <2>8, <2>10
  <2> QED BY <2>3, <2>4, <2>5, <2>6, <2>11
<1> QED BY <1>1, <1>2, <1>3 DEF Leads

(* What comes first comes first in what follows a place before it.         *)
LEMMA LeadsWithin ==
  ASSUME NEW t \in Text, NEW A \in SUBSET Markers, NEW m, NEW i, Leads(t, A, m, i),
         NEW p \in 1 .. Len(t) + 1, p <= i
  PROVE  i - p + 1 \in Nat /\ Leads(From(t, p), A, m, i - p + 1)
<1>1. m \in A /\ m \in Markers /\ i \in Starts(t, m) BY DEF Leads
<1>2. i \in Nat /\ p \in Nat /\ 1 <= p /\ From(t, p) \in Text
  <2>1. i \in Nat /\ Len(t) \in Nat BY <1>1, StartsAt
  <2> QED BY <2>1, Cuts
<1>3. PICK d \in Nat : d = i - p + 1 /\ 1 <= d /\ p + d - 1 = i BY <1>2
<1>4. d \in Starts(From(t, p), m) BY <1>1, <1>3, StartsWithin
<1>5. ASSUME NEW n \in A, NEW j \in Starts(From(t, p), n) PROVE d <= j
  <2>1. n \in Markers /\ j \in Nat /\ 1 <= j BY <1>2, StartsAt
  <2>2. p + j - 1 \in Starts(t, n) BY <1>5, <2>1, StartsWithin
  <2>3. i <= p + j - 1 BY <2>2 DEF Leads
  <2> QED BY <1>2, <1>3, <2>1, <2>3
<1> QED BY <1>1, <1>3, <1>4, <1>5 DEF Leads

(* Nothing comes first in what follows a place unless it does so in all.   *)
LEMMA NoneWithin ==
  ASSUME NEW t \in Text, NEW A \in SUBSET Markers, NEW p \in 1 .. Len(t) + 1,
         \A m \in A : Starts(t, m) = {}
  PROVE  \A m \in A : Starts(From(t, p), m) = {}
<1>1. SUFFICES ASSUME NEW m \in A, NEW j \in Starts(From(t, p), m) PROVE FALSE OBVIOUS
<1>2. From(t, p) \in Text /\ m \in Markers BY Cuts
<1>3. j \in Nat /\ 1 <= j BY <1>2, StartsAt
<1>4. p + j - 1 \in Starts(t, m) BY <1>1, <1>2, <1>3, StartsWithin
<1> QED BY <1>4

(* A text ends with the beginning of a marker. *)
Pending(s, A, n) == \E m \in A : n < Len(m) /\ \A k \in 1 .. n : s[Len(s) - n + k] = m[k]

(* What is undecided is the longest such end.                              *)
LEMMA UndecidedEnd ==
  ASSUME NEW s \in Text, NEW A
  PROVE  /\ Undecided(s, A) \in Nat /\ Undecided(s, A) <= Len(s)
         /\ Undecided(s, A) = 0 \/ Pending(s, A, Undecided(s, A))
         /\ \A n \in 1 .. Len(s) : Pending(s, A, n) => n <= Undecided(s, A)
<1>1. PICK L \in Nat : L = Len(s) BY LenProperties DEF Text
<1>2. PICK E : E = {0} \cup {n \in 1 .. L : Pending(s, A, n)} OBVIOUS
<1>3. E \subseteq 0 .. L /\ E # {}
  <2>1. 0 \in 0 .. L /\ 1 .. L \subseteq 0 .. L OBVIOUS
  <2> QED BY <1>2, <2>1
<1>4. Max(E) \in E /\ \A n \in E : n <= Max(E) BY <1>3, Largest
<1>5. Undecided(s, A) = Max(E) BY <1>1, <1>2 DEF Undecided, Pending
<1>6. \A n \in 0 .. L : n \in Nat /\ n <= L OBVIOUS
<1>7. Max(E) \in Nat /\ Max(E) <= L BY <1>3, <1>4, <1>6
<1>8. Max(E) = 0 \/ Pending(s, A, Max(E)) BY <1>2, <1>4
<1>9. \A n \in 1 .. L : Pending(s, A, n) => n <= Max(E) BY <1>2, <1>4
<1> QED BY <1>1, <1>5, <1>7, <1>8, <1>9

(* If a text holds no marker, one that shows as the text goes on starts in *)
(* what was undecided, or later.                                           *)
LEMMA StartsUndecided ==
  ASSUME NEW t \in Text, NEW q \in Text, NEW A \in SUBSET Markers, NEW m \in A,
         Starts(t, m) = {}, NEW j \in Starts(t \o q, m)
  PROVE  Len(t) - Undecided(t, A) + 1 <= j
<1>1. PICK L \in Nat, K \in Nat, M \in Nat : L = Len(t) /\ K = Len(q) /\ M = Len(m)
  BY Joins, StartsAt
<1>2. PICK w \in Text : w = t \o q /\ Len(w) = L + K /\ \A k \in 1 .. L : w[k] = t[k]
  BY <1>1, Joins
<1>3. PICK u \in Nat : u = Undecided(t, A) /\ u <= L
                       /\ \A n \in 1 .. L : Pending(t, A, n) => n <= u
  BY <1>1, UndecidedEnd
<1>4. j \in Nat /\ 1 <= j /\ \A k \in 1 .. M : w[j + k - 1] = m[k]
  <2>1. j \in Starts(w, m) /\ m \in Markers BY <1>2
  <2> QED BY <1>1, <2>1, StartsAt
<1>5. CASE j > L BY <1>1, <1>3, <1>4, <1>5
<1>6. CASE j <= L
  <2>1. PICK n \in 1 .. L : n = L - j + 1 BY <1>4, <1>6
  <2>2. ~(j + M <= L + 1) BY <1>1, StartsJoined
  <2>3. n \in Nat /\ n < M BY <1>1, <1>4, <2>1, <2>2
  <2>4. ASSUME NEW k \in 1 .. n PROVE t[L - n + k] = m[k]
    <3>1. k \in 1 .. M /\ L - n + k = j + k - 1 /\ j + k - 1 \in 1 .. L
      BY <1>1, <1>4, <2>1, <2>3
    <3>2. w[j + k - 1] = t[j + k - 1] BY <1>2, <3>1
    <3> QED BY <1>4, <3>1, <3>2
  <2>5. Pending(t, A, n) BY <1>1, <2>3, <2>4 DEF Pending
  <2>6. n <= u BY <1>3, <2>5
  <2> QED BY <1>1, <1>3, <1>4, <2>1, <2>3, <2>6
<1> QED BY <1>1, <1>4, <1>5, <1>6

(* Nothing but what is undecided matters to what will be.                  *)
LEMMA UndecidedOn ==
  ASSUME NEW t \in Text, NEW q \in Text, NEW A \in SUBSET Markers
  PROVE  Undecided(From(t \o q, Len(t) - Undecided(t, A) + 1), A) = Undecided(t \o q, A)
<1>1. PICK L \in Nat, K \in Nat : L = Len(t) /\ K = Len(q) BY Joins
<1>2. PICK W \in Nat : W = L + K OBVIOUS
<1>3. PICK w \in Text : w = t \o q /\ Len(w) = W /\ \A k \in 1 .. L : w[k] = t[k]
  BY <1>1, <1>2, Joins
<1>4. PICK u \in Nat : u = Undecided(t, A) /\ u <= L
                       /\ \A n \in 1 .. L : Pending(t, A, n) => n <= u
  BY <1>1, UndecidedEnd
<1>5. PICK p \in Nat : p = L - u + 1 /\ 1 <= p /\ p <= L + 1 BY <1>4
<1>6. PICK Y \in Nat : Y = u + K /\ W - p + 1 = Y /\ Y <= W BY <1>2, <1>4, <1>5
<1>7. p \in 1 .. Len(w) + 1 BY <1>2, <1>3, <1>5
<1>8. PICK y \in Text : y = From(w, p) /\ Len(y) = Y /\ \A k \in 1 .. Y : y[k] = w[p + k - 1]
  <2>1. Len(w) - p + 1 = Y BY <1>3, <1>6
  <2> QED BY <1>7, <2>1, Cuts
<1>9. ASSUME NEW n \in Nat, n <= Y PROVE Pending(y, A, n) <=> Pending(w, A, n)
  <2>1. ASSUME NEW k \in 1 .. n PROVE y[Y - n + k] = w[W - n + k]
    <3>1. Y - n + k \in 1 .. Y /\ p + (Y - n + k) - 1 = W - n + k BY <1>5, <1>6, <1>9
    <3> QED BY <1>8, <3>1
  <2>2. \A m : (\A k \in 1 .. n : y[Y - n + k] = m[k]) <=> \A k \in 1 .. n : w[W - n + k] = m[k]
    BY <2>1
  <2>3. Len(y) = Y /\ Len(w) = W BY <1>3, <1>8
  <2> QED BY <2>2, <2>3 DEF Pending
<1>10. ASSUME NEW n \in 1 .. W, Pending(w, A, n) PROVE n <= Y
  <2>0. n \in Nat /\ 1 <= n /\ n <= W BY <1>2
  <2>1. CASE n <= K BY <1>6, <2>0, <2>1
  <2>2. CASE n > K
    <3>1. PICK d \in 1 .. L : d = n - K /\ d \in Nat BY <1>2, <2>0, <2>2
    <3>2. PICK m \in A : n < Len(m) /\ \A k \in 1 .. n : w[W - n + k] = m[k]
      BY <1>3, <1>10 DEF Pending
    <3>3. PICK M \in Nat : M = Len(m) BY StartsAt, <1>3
    <3>4. d < Len(m) BY <1>1, <2>0, <3>1, <3>2, <3>3
    <3>5. ASSUME NEW k \in 1 .. d PROVE t[L - d + k] = m[k]
      <4>1. k \in 1 .. n /\ L - d + k \in 1 .. L /\ L - d + k = W - n + k
        BY <1>2, <2>0, <3>1
      <4>2. w[L - d + k] = t[L - d + k] BY <1>3, <4>1
      <4> QED BY <3>2, <4>1, <4>2
    <3>6. Pending(t, A, d) BY <1>1, <3>4, <3>5 DEF Pending
    <3>7. d <= u BY <1>4, <3>6
    <3> QED BY <1>6, <2>0, <3>1, <3>7
  <2> QED BY <2>0, <2>1, <2>2
<1>11. PICK a \in Nat : /\ a = Undecided(y, A) /\ a <= Y /\ (a = 0 \/ Pending(y, A, a))
                        /\ \A n \in 1 .. Y : Pending(y, A, n) => n <= a
  BY <1>8, UndecidedEnd
<1>12. PICK b \in Nat : /\ b = Undecided(w, A) /\ b <= W /\ (b = 0 \/ Pending(w, A, b))
                        /\ \A n \in 1 .. W : Pending(w, A, n) => n <= b
  BY <1>3, UndecidedEnd
<1>13. a <= b
  <2>1. CASE a = 0 BY <2>1
  <2>2. CASE a # 0
    <3>1. a \in 1 .. W BY <1>6, <1>11, <2>2
    <3>2. Pending(w, A, a) BY <1>9, <1>11, <2>2
    <3> QED BY <1>12, <3>1, <3>2
  <2> QED BY <2>1, <2>2
<1>14. b <= a
  <2>1. CASE b = 0 BY <2>1
  <2>2. CASE b # 0
    <3>1. b \in 1 .. W BY <1>12, <2>2
    <3>2. b <= Y BY <1>10, <1>12, <2>2, <3>1
    <3>3. Pending(y, A, b) BY <1>9, <1>12, <2>2, <3>2
    <3>4. b \in 1 .. Y BY <2>2, <3>2
    <3> QED BY <1>11, <3>3, <3>4
  <2> QED BY <2>1, <2>2
<1> QED BY <1>1, <1>3, <1>4, <1>5, <1>8, <1>11, <1>12, <1>13, <1>14

-----------------------------------------------------------------------------
(* The filter. *)

(* A filter is known by its three fields.                                  *)
LEMMA FilterFields ==
  ASSUME NEW f \in Filter
  PROVE  /\ f.held \in Text /\ f.shown \in Text
         /\ f.until \in {Outside} \cup {b.closing : b \in Blocks}
         /\ \A g \in Filter : f.held = g.held /\ f.until = g.until /\ f.shown = g.shown => f = g
BY DEF Filter

(* The markers that a filter looks for do not hold one another.            *)
LEMMA AwaitedApart ==
  ASSUME NEW f \in Filter
  PROVE  Apart(Awaited(f)) /\ Awaited(f) \in SUBSET Markers
<1>1. CASE f.until = Outside
  <2>1. Awaited(f) = Openings BY <1>1 DEF Awaited
  <2>2. Openings \in SUBSET Markers BY BlocksAssumption DEF Openings, Markers
  <2>3. ASSUME NEW m \in Openings, NEW n \in Openings, m # n PROVE Starts(m, n) = {}
    <3>1. PICK b \in Blocks, c \in Blocks : m = b.opening /\ n = c.opening BY DEF Openings
    <3>2. b # c BY <2>3, <3>1
    <3> QED BY <3>1, <3>2, BlocksAssumption
  <2> QED BY <2>1, <2>2, <2>3 DEF Apart
<1>2. CASE f.until # Outside
  <2>1. Awaited(f) = {f.until} BY <1>2 DEF Awaited
  <2>2. PICK b \in Blocks : f.until = b.closing BY <1>2, FilterFields
  <2>3. f.until \in Markers BY <2>2, BlocksAssumption DEF Markers
  <2> QED BY <2>1, <2>3 DEF Apart
<1> QED BY <1>1, <1>2

(* Where a marker leads the filter.                                        *)
LEMMA BeyondTyped ==
  ASSUME NEW f \in Filter, NEW m \in Awaited(f)
  PROVE  Beyond(f, m) \in {Outside} \cup {b.closing : b \in Blocks}
<1>1. CASE f.until = Outside
  <2>1. PICK b \in Blocks : b.opening = m BY <1>1 DEF Awaited, Openings
  <2>2. (CHOOSE c \in Blocks : c.opening = m) \in Blocks BY <2>1
  <2> QED BY <1>1, <2>2 DEF Beyond
<1>2. CASE f.until # Outside BY <1>2 DEF Beyond
<1> QED BY <1>1, <1>2

(* What is shown of what is held is a text.                                *)
LEMMA ShownTyped ==
  ASSUME NEW f \in Filter, NEW i \in 1 .. Len(f.held) + 1
  PROVE  Shown(f, i) \in Text
<1>1. f.held \in Text /\ f.shown \in Text BY FilterFields
<1>2. Before(f.held, i) \in Text BY <1>1, Cuts
<1>3. f.shown \o Before(f.held, i) \in Text BY <1>1, <1>2, Joins
<1> QED BY <1>1, <1>3 DEF Shown

(* A turn of the loop takes the marker that comes first.                   *)
LEMMA PassTaken ==
  ASSUME NEW f \in Filter, NEW m, NEW i, Leads(f.held, Awaited(f), m, i)
  PROVE  /\ Found(f) /\ i \in 1 .. Len(f.held) /\ i + Len(m) \in 1 .. Len(f.held) + 1
         /\ m \in Markers /\ m \in Awaited(f)
         /\ Pass(f) = [held |-> From(f.held, i + Len(m)), until |-> Beyond(f, m),
                       shown |-> Shown(f, i)]
         /\ Pass(f) \in Filter /\ Len(Pass(f).held) < Len(f.held)
<1>1. f.held \in Text /\ Apart(Awaited(f)) /\ Awaited(f) \in SUBSET Markers
  BY FilterFields, AwaitedApart
<1>2. m \in Awaited(f) /\ m \in Markers /\ i \in Starts(f.held, m) BY <1>1 DEF Leads
<1>3. \A n \in Awaited(f) : Starts(f.held, n) # {} =>
          First(f.held, n) \in Starts(f.held, n) /\ i <= First(f.held, n)
  <2>1. \A n \in Awaited(f) : Starts(f.held, n) \in SUBSET Nat BY <1>1, StartsAt
  <2>2. \A n \in Awaited(f) : Starts(f.held, n) # {} => First(f.held, n) \in Starts(f.held, n)
    BY <2>1, Smallest DEF First
  <2> QED BY <2>2 DEF Leads
<1>4. i = First(f.held, m)
  <2>1. Starts(f.held, m) \in SUBSET Nat BY <1>1, <1>2, StartsAt
  <2>2. First(f.held, m) <= i /\ First(f.held, m) \in Nat /\ i \in Nat
    BY <1>2, <2>1, Smallest DEF First
  <2> QED BY <1>2, <1>3, <2>2
<1>5. Found(f) BY <1>2 DEF Found
<1>6. \A n : /\ n \in Awaited(f) /\ Starts(f.held, n) # {}
             /\ \A k \in Awaited(f) :
                   Starts(f.held, k) # {} => First(f.held, n) <= First(f.held, k)
             => n = m
  <2>1. SUFFICES ASSUME NEW n \in Awaited(f), Starts(f.held, n) # {},
                        First(f.held, n) <= First(f.held, m)
                 PROVE  n = m
    BY <1>2
  <2>2. First(f.held, n) \in Starts(f.held, n) /\ i <= First(f.held, n) BY <1>3, <2>1
  <2>3. First(f.held, n) = i
    <3>1. First(f.held, n) \in Nat /\ i \in Nat BY <1>1, <1>2, <2>2, StartsAt
    <3> QED BY <1>4, <2>1, <2>2, <3>1
  <2>4. Leads(f.held, Awaited(f), n, i) BY <2>2, <2>3 DEF Leads
  <2> QED BY <1>1, <2>4, OneLeads
<1>7. Leading(f) = m
  <2>1. /\ m \in Awaited(f) /\ Starts(f.held, m) # {}
        /\ \A k \in Awaited(f) : Starts(f.held, k) # {} => First(f.held, m) <= First(f.held, k)
    BY <1>2, <1>3, <1>4
  <2> QED BY <1>6, <2>1 DEF Leading
<1>8. Pass(f) = [held |-> From(f.held, i + Len(m)), until |-> Beyond(f, m), shown |-> Shown(f, i)]
  BY <1>4, <1>7 DEF Pass
<1>9. PICK L \in Nat, M \in Nat : L = Len(f.held) /\ M = Len(m) /\ 1 <= M BY <1>1, <1>2, StartsAt
<1>10. i \in Nat /\ 1 <= i /\ i + M <= L + 1 BY <1>1, <1>2, <1>9, StartsAt
<1>11. i \in 1 .. L /\ i \in 1 .. L + 1 /\ i + M \in 1 .. L + 1 /\ L - (i + M) + 1 < L
  BY <1>9, <1>10
<1>12. From(f.held, i + M) \in Text /\ Len(From(f.held, i + M)) = L - (i + M) + 1
  BY <1>1, <1>9, <1>11, Cuts
<1>13. Pass(f) \in Filter
  <2>1. Shown(f, i) \in Text BY <1>9, <1>11, ShownTyped
  <2>2. Beyond(f, m) \in {Outside} \cup {b.closing : b \in Blocks} BY <1>2, BeyondTyped
  <2> QED BY <1>8, <1>9, <1>12, <2>1, <2>2 DEF Filter
<1>14. Len(Pass(f).held) < Len(f.held) BY <1>8, <1>9, <1>11, <1>12
<1> QED BY <1>2, <1>5, <1>8, <1>9, <1>11, <1>13, <1>14

(* A filter finds a marker if one comes first.                             *)
LEMMA FoundLeads ==
  ASSUME NEW f \in Filter, Found(f)
  PROVE  \E m : \E i : Leads(f.held, Awaited(f), m, i)
<1>1. PICK n \in Awaited(f) : Starts(f.held, n) # {} BY DEF Found
<1> QED BY <1>1, FilterFields, AwaitedApart, SomeLeads

(* The last turn keeps what is undecided.                                  *)
LEMMA RestTyped ==
  ASSUME NEW f \in Filter
  PROVE  /\ Len(f.held) - Undecided(f.held, Awaited(f)) + 1 \in 1 .. Len(f.held) + 1
         /\ Rest(f) \in Filter
         /\ Len(Rest(f).held) = Undecided(f.held, Awaited(f))
<1>1. PICK L \in Nat, u \in Nat : L = Len(f.held) /\ u = Undecided(f.held, Awaited(f)) /\ u <= L
  BY FilterFields, UndecidedEnd, LenProperties DEF Text
<1>2. PICK p \in 1 .. L + 1 : p = L - u + 1 /\ L - p + 1 = u BY <1>1
<1>3. From(f.held, p) \in Text /\ Len(From(f.held, p)) = L - p + 1
  BY <1>1, <1>2, FilterFields, Cuts
<1>4. Shown(f, p) \in Text BY <1>1, <1>2, ShownTyped
<1>5. Rest(f) = [held |-> From(f.held, p), until |-> f.until, shown |-> Shown(f, p)]
  BY <1>1, <1>2 DEF Rest
<1>6. Rest(f) \in Filter BY <1>3, <1>4, <1>5, FilterFields DEF Filter
<1> QED BY <1>1, <1>2, <1>3, <1>5, <1>6

(* The loop ends: sift does what its turns do.                             *)
LEMMA Sifts ==
  \A f \in Filter : sift[f] = IF Found(f) THEN sift[Pass(f)] ELSE Rest(f)
<1>1. PICK M : M = [f \in Filter |-> Len(f.held)] OBVIOUS
<1>2. M \in [Filter -> Nat] BY <1>1, FilterFields, LenProperties DEF Text
<1>3. PICK turn : turn = [f \in Filter |-> Pass(f)] OBVIOUS
<1>4. PICK last : last = [f \in Filter |-> Rest(f)] OBVIOUS
<1>5. PICK More : More = {f \in Filter : Found(f)} OBVIOUS
<1>6. \A f \in Filter : f \in More => turn[f] \in Filter /\ M[turn[f]] < M[f]
  <2>1. ASSUME NEW f \in Filter, Found(f) PROVE Pass(f) \in Filter /\ Len(Pass(f).held) < Len(f.held)
    <3>1. PICK m : \E i : Leads(f.held, Awaited(f), m, i) BY <2>1, FoundLeads
    <3>2. PICK i : Leads(f.held, Awaited(f), m, i) BY <3>1
    <3> QED BY <3>2, PassTaken
  <2> QED BY <1>1, <1>3, <1>5, <2>1
<1>7. PICK s : Loop(s, Filter, More, turn, last) BY <1>2, <1>6, LoopEnds
<1>8. s = [f \in Filter |-> IF Found(f) THEN s[Pass(f)] ELSE Rest(f)] 
  BY <1>3, <1>4, <1>5, <1>7 DEF Loop
<1>9. sift = [f \in Filter |-> IF Found(f) THEN sift[Pass(f)] ELSE Rest(f)] BY <1>8 DEF sift
<1> QED BY <1>9

(* A turn that finds a marker makes what is held shorter.                  *)
LEMMA PassSmaller ==
  ASSUME NEW f \in Filter, Found(f)
  PROVE  Pass(f) \in Filter /\ Len(Pass(f).held) < Len(f.held)
<1>1. PICK m : \E i : Leads(f.held, Awaited(f), m, i) BY FoundLeads
<1>2. PICK i : Leads(f.held, Awaited(f), m, i) BY <1>1
<1> QED BY <1>2, PassTaken

(* Induction on what is held: to show of every filter what is shown of one *)
(* in which nothing is found, and of one if it holds of its next turn.     *)
LEMMA ByTurns ==
  ASSUME NEW T,
         \A f \in Filter : ~Found(f) => f \in T,
         \A f \in Filter : Found(f) /\ Pass(f) \in T => f \in T
  PROVE  \A f \in Filter : f \in T
<1>1. PICK M : M = [f \in Filter |-> Len(f.held)] OBVIOUS
<1>2. M \in [Filter -> Nat] BY <1>1, FilterFields, LenProperties DEF Text
<1>3. ASSUME NEW f \in Filter, \A g \in Filter : M[g] < M[f] => g \in T PROVE f \in T
  <2>1. CASE Found(f)
    <3>1. Pass(f) \in Filter /\ M[Pass(f)] < M[f] BY <1>1, <2>1, PassSmaller
    <3> QED BY <1>3, <2>1, <3>1
  <2>2. CASE ~Found(f) BY <2>2
  <2> QED BY <2>1, <2>2
<1> QED BY <1>2, <1>3, ByMeasure

(* What is left of a filter is one, that holds back no more than the start *)
(* of a marker.                                                            *)
LEMMA SiftTyped ==
  \A f \in Filter :
     /\ sift[f] \in Filter
     /\ sift[f].held = <<>> \/ \E m \in Awaited(sift[f]) : Len(sift[f].held) < Len(m)
<1> DEFINE T == {f \in Filter :
                   /\ sift[f] \in Filter
                   /\ sift[f].held = <<>> \/ \E m \in Awaited(sift[f]) : Len(sift[f].held) < Len(m)}
<1>1. ASSUME NEW f \in Filter, ~Found(f) PROVE f \in T
  <2>1. PICK r : r = Rest(f) /\ sift[f] = r BY <1>1, Sifts
  <2>2. PICK u \in Nat : /\ u = Undecided(f.held, Awaited(f))
                         /\ u = 0 \/ Pending(f.held, Awaited(f), u)
    BY FilterFields, UndecidedEnd
  <2>3. r \in Filter /\ Len(r.held) = u BY <2>1, <2>2, RestTyped
  <2>4. Awaited(r) = Awaited(f) BY <2>1 DEF Rest, Awaited
  <2>5. CASE u = 0
    <3>1. r.held = <<>> BY <2>3, <2>5, FilterFields, EmptySeq DEF Text
    <3> QED BY <2>1, <2>3, <3>1
  <2>6. CASE u # 0
    <3>1. \E m \in Awaited(r) : Len(r.held) < Len(m) BY <2>2, <2>3, <2>4, <2>6 DEF Pending
    <3> QED BY <2>1, <2>3, <3>1
  <2> QED BY <2>5, <2>6
<1>2. ASSUME NEW f \in Filter, Found(f), Pass(f) \in T PROVE f \in T
  <2>1. sift[f] = sift[Pass(f)] BY <1>2, Sifts
  <2> QED BY <1>2, <2>1
<1>3. \A f \in Filter : f \in T
  <2> HIDE DEF T
  <2> QED BY <1>1, <1>2, ByTurns
<1> QED BY <1>3

(* What a filter holds goes on. *)
Fed(f, q) == [f EXCEPT !.held = @ \o q]

(* A text that goes on changes nothing else of a filter.                   *)
LEMMA FedFields ==
  ASSUME NEW f \in Filter, NEW q \in Text
  PROVE  /\ Fed(f, q) = [held |-> f.held \o q, until |-> f.until, shown |-> f.shown]
         /\ Fed(f, q) \in Filter
         /\ Fed(f, q).held = f.held \o q /\ Fed(f, q).until = f.until
         /\ Fed(f, q).shown = f.shown /\ Awaited(Fed(f, q)) = Awaited(f)
<1>1. PICK h \in Text : h = f.held \o q BY FilterFields, Joins
<1>2. Fed(f, q) = [held |-> f.held \o q, until |-> f.until, shown |-> f.shown]
  <2>1. [f EXCEPT !.held = h] = [held |-> h, until |-> f.until, shown |-> f.shown]
    BY DEF Filter
  <2> QED BY <1>1, <2>1 DEF Fed
<1>3. f.held \o q \in Text BY FilterFields, Joins
<1>4. Fed(f, q) \in Filter BY <1>2, <1>3, FilterFields DEF Filter
<1>5. Fed(f, q).until = f.until BY <1>2
<1>6. Awaited(Fed(f, q)) = Awaited(f) BY <1>5 DEF Awaited
<1> QED BY <1>2, <1>4, <1>6

(* A turn is the same however the text goes on.                            *)
LEMMA PassFed ==
  ASSUME NEW f \in Filter, Found(f), NEW q \in Text
  PROVE  Found(Fed(f, q)) /\ Pass(Fed(f, q)) = Fed(Pass(f), q)
<1>1. PICK m : \E i : Leads(f.held, Awaited(f), m, i) BY FoundLeads
<1>2. PICK i : Leads(f.held, Awaited(f), m, i) BY <1>1
<1>3. PICK g : g = Fed(f, q) OBVIOUS
<1>4. /\ g \in Filter /\ g.held = f.held \o q /\ g.until = f.until /\ g.shown = f.shown
      /\ Awaited(g) = Awaited(f)
  BY <1>3, FedFields
<1>5. Leads(g.held, Awaited(g), m, i) BY <1>2, <1>4, FilterFields, AwaitedApart, LeadsOn
<1>6. /\ i \in 1 .. Len(f.held) /\ i + Len(m) \in 1 .. Len(f.held) + 1
      /\ Pass(f) = [held |-> From(f.held, i + Len(m)), until |-> Beyond(f, m),
                    shown |-> Shown(f, i)]
      /\ Pass(f) \in Filter
  BY <1>2, PassTaken
<1>7. /\ Found(g)
      /\ Pass(g) = [held |-> From(g.held, i + Len(m)), until |-> Beyond(g, m),
                    shown |-> Shown(g, i)]
  BY <1>4, <1>5, PassTaken
<1>8. From(g.held, i + Len(m)) = From(f.held, i + Len(m)) \o q
  <2>1. PICK n \in 1 .. Len(f.held) + 1 : n = i + Len(m) BY <1>6
  <2>2. From(f.held \o q, n) = From(f.held, n) \o q BY FilterFields, CutsJoined
  <2> QED BY <1>4, <2>1, <2>2
<1>9. Beyond(g, m) = Beyond(f, m) BY <1>4 DEF Beyond
<1>10. Shown(g, i) = Shown(f, i)
  <2>1. i \in 1 .. Len(f.held) + 1
    <3>1. Len(f.held) \in Nat BY FilterFields, LenProperties DEF Text
    <3> QED BY <1>6, <3>1
  <2>2. Before(g.held, i) = Before(f.held, i) BY <1>4, <2>1, FilterFields, CutsJoined
  <2> QED BY <1>4, <2>2 DEF Shown
<1>11. Fed(Pass(f), q) = [held |-> From(f.held, i + Len(m)) \o q, until |-> Beyond(f, m),
                          shown |-> Shown(f, i)]
  <2>1. Fed(Pass(f), q) = [held |-> Pass(f).held \o q, until |-> Pass(f).until,
                           shown |-> Pass(f).shown]
    BY <1>6, FedFields
  <2>2. /\ Pass(f).held = From(f.held, i + Len(m)) /\ Pass(f).until = Beyond(f, m)
        /\ Pass(f).shown = Shown(f, i)
    BY <1>6
  <2> QED BY <2>1, <2>2
<1> QED BY <1>3, <1>7, <1>8, <1>9, <1>10, <1>11

(* What was shown and what is shown of the rest.                           *)
LEMMA ShownTwice ==
  ASSUME NEW f \in Filter, NEW p \in 1 .. Len(f.held) + 1, NEW g \in Filter,
         g.held = From(f.held, p), g.until = f.until, g.shown = Shown(f, p),
         NEW i \in 1 .. Len(f.held) - p + 2
  PROVE  Shown(g, i) = Shown(f, p + i - 1)
<1>1. f.held \in Text /\ f.shown \in Text BY FilterFields
<1>2. CASE f.until # Outside BY <1>2 DEF Shown
<1>3. CASE f.until = Outside
  <2>1. Before(f.held, p) \in Text /\ From(f.held, p) \in Text BY <1>1, Cuts
  <2>2. Before(f.held, p) \o Before(From(f.held, p), i) = Before(f.held, p + i - 1)
    BY <1>1, CutsTwice
  <2>3. Before(From(f.held, p), i) \in Text
    <3>1. PICK L \in Nat : L = Len(f.held) BY <1>1, LenProperties DEF Text
    <3>2. Len(From(f.held, p)) = L - p + 1 BY <1>1, <3>1, Cuts
    <3>3. i \in 1 .. Len(From(f.held, p)) + 1 BY <3>1, <3>2
    <3> QED BY <2>1, <3>3, Cuts
  <2>4. Shown(g, i) = (f.shown \o Before(f.held, p)) \o Before(From(f.held, p), i)
    BY <1>3 DEF Shown
  <2>5. (f.shown \o Before(f.held, p)) \o Before(From(f.held, p), i)
          = f.shown \o (Before(f.held, p) \o Before(From(f.held, p), i))
    BY <1>1, <2>1, <2>3, Associates, ZenonT(60)
  <2>6. Shown(f, p + i - 1) = f.shown \o Before(f.held, p + i - 1) BY <1>3 DEF Shown
  <2> QED BY <2>2, <2>4, <2>5, <2>6
<1> QED BY <1>2, <1>3

(* The last turn of a text comes to nothing if the text goes on.           *)
LEMMA RestFed ==
  ASSUME NEW f \in Filter, ~Found(f), NEW q \in Text
  PROVE  sift[Fed(Rest(f), q)] = sift[Fed(f, q)]
<1>1. PICK h \in Text, A \in SUBSET Markers : h = f.held /\ A = Awaited(f) /\ Apart(A)
  BY FilterFields, AwaitedApart
<1>2. PICK L \in Nat, K \in Nat : L = Len(h) /\ K = Len(q) BY Joins
<1>3. PICK u \in Nat : u = Undecided(h, A) /\ u <= L BY <1>2, UndecidedEnd
<1>4. PICK p \in Nat : p = L - u + 1 /\ 1 <= p /\ p <= L + 1 BY <1>3
<1>5. PICK w \in Text : w = h \o q /\ Len(w) = L + K BY <1>2, Joins
<1>6. p \in 1 .. Len(h) + 1 /\ p \in 1 .. Len(w) + 1 BY <1>2, <1>4, <1>5
<1>7. PICK r \in Filter : /\ r = Rest(f) /\ r.held = From(h, p) /\ r.until = f.until
                          /\ r.shown = Shown(f, p)
  <2>1. Rest(f) = [held |-> From(h, p), until |-> f.until, shown |-> Shown(f, p)]
    BY <1>1, <1>2, <1>3, <1>4 DEF Rest
  <2> QED BY <2>1, RestTyped
<1>8. Awaited(r) = A BY <1>1, <1>7 DEF Awaited
<1>9. PICK a \in Filter : /\ a = Fed(f, q) /\ a.held = w /\ a.until = f.until
                          /\ a.shown = f.shown /\ Awaited(a) = A
  BY <1>1, <1>5, FedFields
<1>10. PICK b \in Filter : /\ b = Fed(r, q) /\ b.held = From(w, p) /\ b.until = f.until
                           /\ b.shown = Shown(f, p) /\ Awaited(b) = A
  <2>1. From(h, p) \o q = From(w, p) BY <1>5, <1>6, CutsJoined
  <2>2. /\ Fed(r, q) \in Filter /\ Fed(r, q).held = r.held \o q /\ Fed(r, q).until = r.until
        /\ Fed(r, q).shown = r.shown /\ Awaited(Fed(r, q)) = Awaited(r)
    BY FedFields
  <2> QED BY <1>7, <1>8, <2>1, <2>2
<1>11. Shown(f, p) = Shown(a, p)
  <2>1. Before(w, p) = Before(h, p) BY <1>5, <1>6, CutsJoined
  <2> QED BY <1>1, <1>9, <2>1 DEF Shown
<1>12. CASE Found(a)
  <2>1. PICK m : \E i : Leads(w, A, m, i) BY <1>9, <1>12, FoundLeads
  <2>2. PICK i : Leads(w, A, m, i) BY <2>1
  <2>3. PICK M \in Nat : M = Len(m) /\ 1 <= M /\ i \in Nat /\ 1 <= i /\ i + M <= L + K + 1
    BY <1>5, <2>2, StartsAt DEF Leads
  <2>4. p <= i
    <3>1. m \in A /\ i \in Starts(h \o q, m) /\ Starts(h, m) = {}
      BY <1>1, <1>5, <2>2 DEF Leads, Found
    <3>2. Len(h) - Undecided(h, A) + 1 <= i BY <3>1, StartsUndecided
    <3> QED BY <1>2, <1>3, <1>4, <3>2
  <2>5. PICK j \in Nat : j = i - p + 1 /\ Leads(From(w, p), A, m, j)
    BY <1>6, <2>2, <2>4, LeadsWithin
  <2>6. Found(a) /\ Pass(a) = [held |-> From(w, i + M), until |-> Beyond(a, m),
                               shown |-> Shown(a, i)]
    <3>1. Leads(a.held, Awaited(a), m, i) BY <1>9, <2>2
    <3>2. /\ Found(a)
          /\ Pass(a) = [held |-> From(a.held, i + Len(m)), until |-> Beyond(a, m),
                        shown |-> Shown(a, i)]
      BY <3>1, PassTaken
    <3> QED BY <1>9, <2>3, <3>2
  <2>7. Found(b) /\ Pass(b) = [held |-> From(From(w, p), j + M), until |-> Beyond(b, m),
                               shown |-> Shown(b, j)]
    <3>1. Leads(b.held, Awaited(b), m, j) BY <1>10, <2>5
    <3>2. /\ Found(b)
          /\ Pass(b) = [held |-> From(b.held, j + Len(m)), until |-> Beyond(b, m),
                        shown |-> Shown(b, j)]
      BY <3>1, PassTaken
    <3> QED BY <1>10, <2>3, <3>2
  <2>8. From(From(w, p), j + M) = From(w, i + M)
    <3>1. j + M \in 1 .. Len(w) - p + 2 /\ p + (j + M) - 1 = i + M
      BY <1>4, <1>5, <2>3, <2>4, <2>5
    <3> QED BY <1>6, <3>1, CutsTwice
  <2>9. Beyond(b, m) = Beyond(a, m) BY <1>9, <1>10 DEF Beyond
  <2>10. Shown(b, j) = Shown(a, i)
    <3>1. j \in 1 .. Len(a.held) - p + 2 /\ p + j - 1 = i
      BY <1>4, <1>5, <1>9, <2>3, <2>4, <2>5
    <3>2. p \in 1 .. Len(a.held) + 1 BY <1>6, <1>9
    <3>3. b.held = From(a.held, p) /\ b.until = a.until /\ b.shown = Shown(a, p)
      BY <1>9, <1>10, <1>11
    <3> QED BY <3>1, <3>2, <3>3, ShownTwice
  <2>11. sift[a] = sift[Pass(a)] /\ sift[b] = sift[Pass(b)] BY <2>6, <2>7, Sifts
  <2> QED BY <1>7, <1>9, <1>10, <2>6, <2>7, <2>8, <2>9, <2>10, <2>11
<1>13. CASE ~Found(a)
  <2>1. \A m \in A : Starts(w, m) = {} BY <1>9, <1>13 DEF Found
  <2>2. \A m \in A : Starts(From(w, p), m) = {} BY <1>6, <2>1, NoneWithin
  <2>3. ~Found(b) BY <1>10, <2>2 DEF Found
  <2>4. PICK v \in Nat : v = Undecided(w, A) /\ v <= L + K BY <1>5, UndecidedEnd
  <2>5. Undecided(From(w, p), A) = v BY <1>2, <1>3, <1>4, <1>5, <2>4, UndecidedOn
  <2>6. PICK Y \in Nat : Y = L + K - p + 1 BY <1>4
  <2>7. From(w, p) \in Text /\ Len(From(w, p)) = Y
    <3>1. Len(w) - p + 1 = Y BY <1>5, <2>6
    <3> QED BY <1>6, <3>1, Cuts
  <2>8. v <= Y BY <2>5, <2>7, UndecidedEnd
  <2>9. PICK j \in Nat : j = Y - v + 1 /\ 1 <= j BY <2>6, <2>8
  <2>10. PICK i \in Nat : i = L + K - v + 1 /\ p + j - 1 = i BY <1>4, <2>4, <2>6, <2>9
  <2>11. j \in 1 .. Len(w) - p + 2 BY <1>4, <1>5, <2>6, <2>9, <2>4
  <2>12. Rest(a) = [held |-> From(w, i), until |-> f.until, shown |-> Shown(a, i)]
    BY <1>5, <1>9, <2>4, <2>10, SMTT(60) DEF Rest
  <2>13. Rest(b) = [held |-> From(From(w, p), j), until |-> f.until, shown |-> Shown(b, j)]
    BY <1>10, <2>5, <2>7, <2>9 DEF Rest
  <2>14. From(From(w, p), j) = From(w, i) BY <1>6, <2>10, <2>11, CutsTwice
  <2>15. Shown(b, j) = Shown(a, i)
    <3>1. j \in 1 .. Len(a.held) - p + 2 /\ p \in 1 .. Len(a.held) + 1 BY <1>6, <1>9, <2>11
    <3>2. b.held = From(a.held, p) /\ b.until = a.until /\ b.shown = Shown(a, p)
      BY <1>9, <1>10, <1>11
    <3>3. Shown(b, j) = Shown(a, p + j - 1) BY <3>1, <3>2, ShownTwice
    <3> QED BY <2>10, <3>3
  <2>16. sift[a] = Rest(a) /\ sift[b] = Rest(b) BY <1>13, <2>3, Sifts
  <2> QED BY <1>7, <1>9, <1>10, <2>12, <2>13, <2>14, <2>15, <2>16
<1> QED BY <1>12, <1>13

(* What was fed in pieces is as if fed at once.                            *)
LEMMA SiftFed ==
  ASSUME NEW q \in Text
  PROVE  \A f \in Filter : sift[Fed(sift[f], q)] = sift[Fed(f, q)]
<1> DEFINE T == {f \in Filter : sift[Fed(sift[f], q)] = sift[Fed(f, q)]}
<1>1. ASSUME NEW f \in Filter, ~Found(f) PROVE f \in T
  <2>1. sift[f] = Rest(f) BY <1>1, Sifts
  <2> QED BY <1>1, <2>1, RestFed
<1>2. ASSUME NEW f \in Filter, Found(f), Pass(f) \in T PROVE f \in T
  <2>1. sift[f] = sift[Pass(f)] BY <1>2, Sifts
  <2>2. sift[Fed(Pass(f), q)] = sift[Fed(f, q)]
    <3>1. Fed(f, q) \in Filter BY FedFields
    <3> QED BY <1>2, <3>1, PassFed, Sifts
  <2> QED BY <1>2, <2>1, <2>2
<1>3. \A f \in Filter : f \in T
  <2> HIDE DEF T
  <2> QED BY <1>1, <1>2, ByTurns
<1> QED BY <1>3

(* It does not matter where a text is cut into pieces.                     *)
LEMMA FeedsJoin ==
  ASSUME NEW f \in Filter, NEW a \in Text, NEW b \in Text
  PROVE  Feed(f, a) \in Filter /\ Feed(Feed(f, a), b) = Feed(f, a \o b)
<1>1. Fed(f, a) \in Filter BY FedFields
<1>2. Feed(f, a) = sift[Fed(f, a)] /\ Feed(f, a) \in Filter BY <1>1, SiftTyped DEF Feed, Fed
<1>3. Feed(Feed(f, a), b) = sift[Fed(sift[Fed(f, a)], b)] BY <1>2 DEF Feed, Fed
<1>4. sift[Fed(sift[Fed(f, a)], b)] = sift[Fed(Fed(f, a), b)] BY <1>1, SiftFed
<1>5. Fed(Fed(f, a), b) = Fed(f, a \o b)
  <2>1. PICK h \in Text : h = f.held BY FilterFields
  <2>2. PICK g \in Filter : /\ g = Fed(f, a) /\ g.held = h \o a /\ g.until = f.until
                            /\ g.shown = f.shown
    BY <2>1, FedFields
  <2>3. Fed(g, b) = [held |-> g.held \o b, until |-> g.until, shown |-> g.shown] BY FedFields
  <2>4. a \o b \in Text BY Joins
  <2>5. Fed(f, a \o b) = [held |-> h \o (a \o b), until |-> f.until, shown |-> f.shown]
    BY <2>1, <2>4, FedFields
  <2>6. (h \o a) \o b = h \o (a \o b) BY Associates
  <2> QED BY <2>2, <2>3, <2>5, <2>6
<1>6. Feed(f, a \o b) = sift[Fed(f, a \o b)] BY DEF Feed, Fed
<1> QED BY <1>2, <1>3, <1>4, <1>5, <1>6

-----------------------------------------------------------------------------
(* What is shown is what the reference reads. *)

(* The reference reads a character, or a marker.                           *)
LEMMA ReadOneTyped ==
  ASSUME NEW f \in Filter, f.held # <<>>
  PROVE  ReadOne(f) \in Filter /\ Len(ReadOne(f).held) < Len(f.held)
<1>1. PICK L \in Nat : L = Len(f.held) /\ 1 <= L
  <2>1. Len(f.held) \in Nat \ {0} BY FilterFields, EmptySeq DEF Text
  <2> QED BY <2>1
<1>2. f.held \in Text /\ Awaited(f) \in SUBSET Markers BY FilterFields, AwaitedApart
<1>3. ASSUME NEW m \in Awaited(f), StartsWith(f.held, m)
      PROVE  /\ From(f.held, Len(m) + 1) \in Text
             /\ Len(From(f.held, Len(m) + 1)) < L
  <2>1. PICK M \in Nat : M = Len(m) /\ 1 <= M /\ 1 + M <= L + 1
    BY <1>1, <1>2, <1>3, StartsAt DEF StartsWith
  <2>2. M + 1 \in 1 .. L + 1 /\ L - (M + 1) + 1 < L BY <2>1
  <2>3. From(f.held, M + 1) \in Text /\ Len(From(f.held, M + 1)) = L - (M + 1) + 1
    BY <1>1, <1>2, <2>2, Cuts
  <2> QED BY <2>1, <2>2, <2>3
<1>4. CASE \E m \in Awaited(f) : StartsWith(f.held, m)
  <2>1. PICK m \in Awaited(f) : /\ m = CHOOSE n \in Awaited(f) : StartsWith(f.held, n)
                                /\ StartsWith(f.held, m)
    BY <1>4
  <2>2. PICK h \in Text : h = From(f.held, Len(m) + 1) /\ Len(h) < L BY <1>3, <2>1
  <2>3. ReadOne(f) = [f EXCEPT !.held = h, !.until = Beyond(f, m)] BY <1>4, <2>1, <2>2 DEF ReadOne
  <2>4. Beyond(f, m) \in {Outside} \cup {b.closing : b \in Blocks} BY BeyondTyped
  <2>5. ReadOne(f) = [held |-> h, until |-> Beyond(f, m), shown |-> f.shown]
    BY <2>3 DEF Filter
  <2> QED BY <1>1, <2>2, <2>4, <2>5, FilterFields DEF Filter
<1>5. CASE ~ \E m \in Awaited(f) : StartsWith(f.held, m)
  <2>1. 2 \in 1 .. L + 1 /\ L - 2 + 1 < L BY <1>1
  <2>2. PICK h \in Text : h = From(f.held, 2) /\ Len(h) < L
    <3>1. From(f.held, 2) \in Text /\ Len(From(f.held, 2)) = L - 2 + 1 BY <1>1, <1>2, <2>1, Cuts
    <3> QED BY <2>1, <3>1
  <2>3. PICK s \in Text : s = Shown(f, 2) BY <1>1, <2>1, ShownTyped
  <2>4. ReadOne(f) = [f EXCEPT !.held = h, !.shown = s] BY <1>5, <2>2, <2>3 DEF ReadOne
  <2>5. ReadOne(f) = [held |-> h, until |-> f.until, shown |-> s] BY <2>4 DEF Filter
  <2> QED BY <1>1, <2>2, <2>5, FilterFields DEF Filter
<1> QED BY <1>4, <1>5

(* The reference reads to the end.                                         *)
LEMMA Reads ==
  \A f \in Filter : reading[f] = IF f.held = <<>> THEN f.shown ELSE reading[ReadOne(f)]
<1>1. PICK M : M = [f \in Filter |-> Len(f.held)] OBVIOUS
<1>2. M \in [Filter -> Nat] BY <1>1, FilterFields, LenProperties DEF Text
<1>3. PICK turn : turn = [f \in Filter |-> ReadOne(f)] OBVIOUS
<1>4. PICK last : last = [f \in Filter |-> f.shown] OBVIOUS
<1>5. PICK More : More = {f \in Filter : f.held # <<>>} OBVIOUS
<1>6. \A f \in Filter : f \in More => turn[f] \in Filter /\ M[turn[f]] < M[f]
  BY <1>1, <1>3, <1>5, ReadOneTyped
<1>7. PICK r : Loop(r, Filter, More, turn, last) BY <1>2, <1>6, LoopEnds
<1>8. r = [f \in Filter |-> IF f.held = <<>> THEN f.shown ELSE r[ReadOne(f)]]
  BY <1>3, <1>4, <1>5, <1>7 DEF Loop
<1>9. reading = [f \in Filter |-> IF f.held = <<>> THEN f.shown ELSE reading[ReadOne(f)]]
  BY <1>8 DEF reading
<1> QED BY <1>9

(* A filter that has read up to a place without a marker. *)
Skipped(f, i) == [held |-> From(f.held, i), until |-> f.until, shown |-> Shown(f, i)]

(* It is a filter.                                                         *)
LEMMA SkippedTyped ==
  ASSUME NEW f \in Filter, NEW i \in 1 .. Len(f.held) + 1
  PROVE  /\ Skipped(f, i) \in Filter /\ Awaited(Skipped(f, i)) = Awaited(f)
         /\ Len(Skipped(f, i).held) = Len(f.held) - i + 1
<1>1. From(f.held, i) \in Text /\ Len(From(f.held, i)) = Len(f.held) - i + 1
  BY FilterFields, Cuts
<1>2. Shown(f, i) \in Text BY ShownTyped
<1>3. Skipped(f, i) \in Filter BY <1>1, <1>2, FilterFields DEF Skipped, Filter
<1> QED BY <1>1, <1>3 DEF Skipped, Awaited

(* The reference reads on up to the next marker.                           *)
LEMMA ReadsOn ==
  ASSUME NEW f \in Filter, NEW n \in Nat, n <= Len(f.held),
         \A m \in Awaited(f) : \A j \in Starts(f.held, m) : j > n
  PROVE  reading[f] = reading[Skipped(f, n + 1)]
<1>1. PICK h \in Text, L \in Nat, A \in SUBSET Markers : h = f.held /\ L = Len(h) /\ A = Awaited(f)
  BY FilterFields, AwaitedApart, LenProperties DEF Text
<1> DEFINE T == {k \in Nat : reading[f] = reading[Skipped(f, k + 1)]}
<1>2. 0 \in T
  <2>1. Before(h, 1) = <<>> /\ From(h, 1) = h BY CutsEnds
  <2>2. Shown(f, 1) = f.shown
    BY <1>1, <2>1, FilterFields, Associates DEF Shown
  <2>3. 0 + 1 = 1 OBVIOUS
  <2>4. 1 \in 1 .. Len(f.held) + 1 BY <1>1
  <2>5. Skipped(f, 1) = f
    <3>1. Skipped(f, 1) = [held |-> h, until |-> f.until, shown |-> f.shown]
      BY <1>1, <2>1, <2>2 DEF Skipped
    <3> QED BY <1>1, <3>1 DEF Filter
  <2> QED BY <2>3, <2>5
<1>3. ASSUME NEW k \in 0 .. n - 1, k \in T PROVE k + 1 \in T
  <2>1. PICK i \in Nat : i = k + 1 /\ 1 <= i /\ i <= n /\ i <= L
    <3>1. k \in Nat /\ k + 1 <= n BY <1>1
    <3> QED BY <1>1, <3>1
  <2>2. i \in 1 .. Len(f.held) + 1 BY <1>1, <2>1
  <2>3. PICK g \in Filter : g = Skipped(f, i) /\ Awaited(g) = A /\ Len(g.held) = L - i + 1
    BY <1>1, <2>2, SkippedTyped
  <2>4. g.held = From(h, i) /\ g.until = f.until /\ g.shown = Shown(f, i)
    BY <1>1, <2>3 DEF Skipped
  <2>5. g.held # <<>>
    <3>1. Len(g.held) # 0 BY <2>1, <2>3
    <3> QED BY <3>1, Associates
  <2>6. ASSUME NEW m \in A PROVE ~StartsWith(g.held, m)
    <3>1. SUFFICES ASSUME 1 \in Starts(From(h, i), m) PROVE FALSE BY <2>4 DEF StartsWith
    <3>2. i + 1 - 1 \in Starts(h, m) BY <1>1, <2>2, <3>1, StartsWithin
    <3>3. i \in Starts(h, m) BY <2>1, <3>2
    <3>4. i > n BY <1>1, <3>3
    <3> QED BY <2>1, <3>4
  <2>7. ReadOne(g) = [g EXCEPT !.held = From(g.held, 2), !.shown = Shown(g, 2)]
    BY <2>3, <2>6 DEF ReadOne
  <2>8. From(g.held, 2) = From(h, i + 1)
    <3>1. 2 \in 1 .. Len(h) - i + 2 /\ i + 2 - 1 = i + 1 BY <1>1, <2>1
    <3>2. From(From(h, i), 2) = From(h, i + 2 - 1) BY <1>1, <2>2, <3>1, CutsTwice
    <3> QED BY <2>4, <3>1, <3>2
  <2>9. Shown(g, 2) = Shown(f, i + 1)
    <3>1. 2 \in 1 .. Len(f.held) - i + 2 /\ i + 2 - 1 = i + 1 BY <1>1, <2>1
    <3>2. Shown(g, 2) = Shown(f, i + 2 - 1) BY <1>1, <2>2, <2>4, <3>1, ShownTwice
    <3> QED BY <3>1, <3>2
  <2>10. ReadOne(g) = Skipped(f, i + 1)
    <3>1. PICK a, b : a = From(h, i + 1) /\ b = Shown(f, i + 1) OBVIOUS
    <3>2. ReadOne(g) = [g EXCEPT !.held = a, !.shown = b] BY <2>7, <2>8, <2>9, <3>1
    <3>3. ReadOne(g) = [held |-> a, until |-> g.until, shown |-> b] BY <2>3, <3>2 DEF Filter
    <3> QED BY <1>1, <2>4, <3>1, <3>3 DEF Skipped
  <2>11. reading[g] = reading[Skipped(f, i + 1)] BY <2>5, <2>10, Reads
  <2> QED BY <1>3, <2>1, <2>3, <2>11
<1>4. \A k \in 0 .. n : k \in T
  <2> HIDE DEF T
  <2> QED BY <1>2, <1>3, UpFromZero
<1>5. n \in 0 .. n OBVIOUS
<1> QED BY <1>4, <1>5

(* The reference reads what a turn of the filter does.                     *)
LEMMA ReadsPass ==
  ASSUME NEW f \in Filter, Found(f)
  PROVE  reading[f] = reading[Pass(f)]
<1>1. PICK h \in Text, A \in SUBSET Markers : h = f.held /\ A = Awaited(f) /\ Apart(A)
  BY FilterFields, AwaitedApart
<1>2. PICK m : \E i : Leads(h, A, m, i) BY <1>1, FoundLeads
<1>3. PICK i : Leads(h, A, m, i) BY <1>2
<1>4. PICK L \in Nat, M \in Nat : /\ L = Len(h) /\ M = Len(m) /\ 1 <= M /\ i \in Nat /\ 1 <= i
                                  /\ i + M <= L + 1 /\ m \in A /\ m \in Markers
  BY <1>3, StartsAt DEF Leads
<1>5. Pass(f) = [held |-> From(h, i + M), until |-> Beyond(f, m), shown |-> Shown(f, i)]
  BY <1>1, <1>3, <1>4, PassTaken
<1>6. PICK n \in Nat : n = i - 1 /\ n + 1 = i /\ n <= L BY <1>4
<1>7. \A k \in A : \A j \in Starts(h, k) : j > n
  <2>1. \A k \in A : \A j \in Starts(h, k) : i <= j /\ j \in Nat
    BY <1>3, StartsAt DEF Leads
  <2> QED BY <1>6, <2>1
<1>8. reading[f] = reading[Skipped(f, i)] BY <1>1, <1>4, <1>6, <1>7, ReadsOn
<1>9. i \in 1 .. Len(f.held) + 1 BY <1>1, <1>4
<1>10. PICK g \in Filter : g = Skipped(f, i) /\ Awaited(g) = A /\ Len(g.held) = L - i + 1
  BY <1>1, <1>4, <1>9, SkippedTyped
<1>11. g.held = From(h, i) /\ g.until = f.until /\ g.shown = Shown(f, i)
  BY <1>1, <1>10 DEF Skipped
<1>12. Leads(g.held, A, m, 1)
  <2>1. i - i + 1 = 1 BY <1>4
  <2>2. Leads(From(h, i), A, m, i - i + 1)
    <3>1. i \in 1 .. Len(h) + 1 /\ i <= i BY <1>4
    <3> QED BY <1>3, <3>1, LeadsWithin
  <2> QED BY <1>11, <2>1, <2>2
<1>13. StartsWith(g.held, m) BY <1>12 DEF Leads, StartsWith
<1>14. ASSUME NEW k \in A, StartsWith(g.held, k) PROVE k = m
  <2>1. Leads(g.held, A, k, 1) BY <1>12, <1>14 DEF Leads, StartsWith
  <2> QED BY <1>1, <1>12, <2>1, FilterFields, OneLeads
<1>15. (CHOOSE k \in A : StartsWith(g.held, k)) = m BY <1>4, <1>13, <1>14
<1>16. ReadOne(g) = [g EXCEPT !.held = From(g.held, M + 1), !.until = Beyond(g, m)]
  BY <1>4, <1>10, <1>13, <1>15 DEF ReadOne
<1>17. From(g.held, M + 1) = From(h, i + M)
  <2>1. M + 1 \in 1 .. Len(h) - i + 2 /\ i + (M + 1) - 1 = i + M BY <1>4
  <2>2. From(From(h, i), M + 1) = From(h, i + (M + 1) - 1) BY <1>1, <1>9, <2>1, CutsTwice
  <2> QED BY <1>11, <2>1, <2>2
<1>18. Beyond(g, m) = Beyond(f, m) BY <1>11 DEF Beyond
<1>19. ReadOne(g) = Pass(f)
  <2>1. PICK a, b : a = From(h, i + M) /\ b = Beyond(f, m) OBVIOUS
  <2>2. ReadOne(g) = [g EXCEPT !.held = a, !.until = b] BY <1>16, <1>17, <1>18, <2>1
  <2>3. ReadOne(g) = [held |-> a, until |-> b, shown |-> g.shown] BY <1>10, <2>2 DEF Filter
  <2> QED BY <1>5, <1>11, <2>1, <2>3
<1>20. g.held # <<>>
  <2>1. Len(g.held) # 0 BY <1>4, <1>10
  <2> QED BY <2>1, Associates
<1> QED BY <1>8, <1>10, <1>19, <1>20, Reads

(* What a filter has shown, with what it still holds outside an envelope. *)
Told(f) == f.shown \o (IF f.until = Outside THEN f.held ELSE <<>>)

(* What is shown of a text is what the reference reads of it.              *)
LEMMA SiftReads ==
  \A f \in Filter : Told(sift[f]) = reading[f]
<1> DEFINE T == {f \in Filter : Told(sift[f]) = reading[f]}
<1>1. ASSUME NEW f \in Filter, ~Found(f) PROVE f \in T
  <2>1. PICK h \in Text, L \in Nat : h = f.held /\ L = Len(h)
    BY FilterFields, LenProperties DEF Text
  <2>2. \A m \in Awaited(f) : Starts(f.held, m) = {} BY <1>1 DEF Found
  <2>3. reading[f] = reading[Skipped(f, L + 1)] BY <2>1, <2>2, ReadsOn
  <2>4. L + 1 \in 1 .. Len(f.held) + 1 BY <2>1
  <2>5. Skipped(f, L + 1) \in Filter BY <2>4, SkippedTyped
  <2>6. From(h, L + 1) = <<>> /\ Before(h, L + 1) = h BY <2>1, CutsEnds
  <2>7. reading[f] = Shown(f, L + 1)
    <3>1. Skipped(f, L + 1).held = <<>> /\ Skipped(f, L + 1).shown = Shown(f, L + 1)
      BY <2>1, <2>6 DEF Skipped
    <3> QED BY <2>3, <2>5, <3>1, Reads
  <2>8. PICK p \in 1 .. Len(h) + 1 : p = L - Undecided(h, Awaited(f)) + 1
    BY <2>1, RestTyped
  <2>9. sift[f] = [held |-> From(h, p), until |-> f.until, shown |-> Shown(f, p)]
    BY <1>1, <2>1, <2>8, Sifts DEF Rest
  <2>10. CASE f.until = Outside
    <3>1. PICK b \in Text, c \in Text, d \in Text :
              b = Before(h, p) /\ c = From(h, p) /\ d = f.shown
      BY FilterFields, Cuts
    <3>2. Told(sift[f]) = d \o (b \o c)
      <4>1. Shown(f, p) = d \o b BY <2>1, <2>10, <3>1 DEF Shown
      <4>2. sift[f] = [held |-> c, until |-> Outside, shown |-> d \o b]
        BY <2>9, <2>10, <3>1, <4>1
      <4>3. Told(sift[f]) = (d \o b) \o c BY <4>2 DEF Told
      <4>4. b \in Text /\ c \in Text /\ d \in Text BY <3>1
      <4>5. (d \o b) \o c = d \o (b \o c) BY <4>4, Associates, ZenonT(60)
      <4> QED BY <4>3, <4>5
    <3>3. Before(h, p) \o From(h, p) = h BY CutsEnds
    <3>4. Shown(f, L + 1) = f.shown \o h BY <2>1, <2>6, <2>10 DEF Shown
    <3> QED BY <2>7, <3>1, <3>2, <3>3, <3>4
  <2>11. CASE f.until # Outside
    <3>1. Told(sift[f]) = f.shown \o <<>> BY <2>9, <2>11 DEF Told, Shown
    <3>2. Shown(f, L + 1) = f.shown BY <2>11 DEF Shown
    <3> QED BY <2>7, <3>1, <3>2, FilterFields, Associates
  <2> QED BY <2>10, <2>11
<1>2. ASSUME NEW f \in Filter, Found(f), Pass(f) \in T PROVE f \in T
  <2>1. sift[f] = sift[Pass(f)] BY <1>2, Sifts
  <2> QED BY <1>2, <2>1, ReadsPass
<1>3. \A f \in Filter : f \in T
  <2> HIDE DEF T
  <2> QED BY <1>1, <1>2, ByTurns
<1> QED BY <1>3

(* A fresh filter shows the public part of what it is fed.                 *)
LEMMA FreshShows ==
  ASSUME NEW s \in Text
  PROVE  Fresh \in Filter /\ Feed(Fresh, s) \in Filter /\ Told(Feed(Fresh, s)) = Public(s)
<1>1. Fresh \in Filter BY Associates DEF Fresh, Filter
<1>2. Feed(Fresh, s) \in Filter BY <1>1, FeedsJoin
<1>3. <<>> \o s = s BY Associates
<1>4. PICK f \in Filter : f = Fed(Fresh, s) BY <1>1, FedFields
<1>5. f = [Fresh EXCEPT !.held = s] BY <1>3, <1>4 DEF Fed, Fresh
<1>6. Feed(Fresh, s) = sift[f] BY <1>4 DEF Feed, Fed
<1> QED BY <1>1, <1>2, <1>5, <1>6, SiftReads DEF Public

(* Nothing that was shown is taken back, whatever is fed.                  *)
Extends(t, s) == \E q \in Text : t = s \o q

LEMMA ShownStays ==
  \A f \in Filter : Extends(sift[f].shown, f.shown)
<1> DEFINE T == {f \in Filter : Extends(sift[f].shown, f.shown)}
<1>1. ASSUME NEW f \in Filter, NEW i \in 1 .. Len(f.held) + 1
      PROVE  Extends(Shown(f, i), f.shown)
  <2>1. PICK d \in Text, b \in Text : d = f.shown /\ b = Before(f.held, i) BY FilterFields, Cuts
  <2>2. PICK e \in Text : e = <<>> /\ d \o e = d BY <2>1, Associates
  <2>3. Shown(f, i) = d \o b \/ Shown(f, i) = d BY <2>1 DEF Shown
  <2> QED BY <2>1, <2>2, <2>3 DEF Extends
<1>2. ASSUME NEW f \in Filter, ~Found(f) PROVE f \in T
  <2>1. PICK i \in 1 .. Len(f.held) + 1 : i = Len(f.held) - Undecided(f.held, Awaited(f)) + 1
    BY RestTyped
  <2>2. sift[f] = Rest(f) BY <1>2, Sifts
  <2>3. sift[f].shown = Shown(f, i) BY <2>1, <2>2 DEF Rest
  <2> QED BY <1>1, <2>3
<1>3. ASSUME NEW f \in Filter, Found(f), Pass(f) \in T PROVE f \in T
  <2>1. PICK m : \E i : Leads(f.held, Awaited(f), m, i) BY <1>3, FoundLeads
  <2>2. PICK i : Leads(f.held, Awaited(f), m, i) BY <2>1
  <2>3. i \in 1 .. Len(f.held) /\ Pass(f).shown = Shown(f, i)
    <3>1. /\ i \in 1 .. Len(f.held)
          /\ Pass(f) = [held |-> From(f.held, i + Len(m)), until |-> Beyond(f, m),
                        shown |-> Shown(f, i)]
      BY <2>2, PassTaken
    <3> QED BY <3>1
  <2>4. i \in 1 .. Len(f.held) + 1 BY <2>3, FilterFields, LenProperties DEF Text
  <2>5. PICK d \in Text : d = f.shown BY FilterFields
  <2>6. PICK b \in Text : Pass(f).shown = d \o b BY <1>1, <2>3, <2>4, <2>5 DEF Extends
  <2>7. PICK c \in Text : sift[Pass(f)].shown = (d \o b) \o c BY <1>3, <2>6 DEF Extends
  <2>8. (d \o b) \o c = d \o (b \o c) BY Associates, ZenonT(60)
  <2>9. b \o c \in Text BY Joins
  <2>10. sift[f] = sift[Pass(f)] BY <1>3, Sifts
  <2> QED BY <2>5, <2>7, <2>8, <2>9, <2>10 DEF Extends
<1>4. \A f \in Filter : f \in T
  <2> HIDE DEF T
  <2> QED BY <1>2, <1>3, ByTurns
<1> QED BY <1>4

(* So what is shown of a text stays public, however the text goes on.      *)
LEMMA PublicStays ==
  ASSUME NEW s \in Text, NEW q \in Text
  PROVE  Extends(Public(s \o q), Feed(Fresh, s).shown)
<1>1. Fresh \in Filter /\ s \o q \in Text BY FreshShows, Joins
<1>2. PICK g \in Filter : g = Feed(Fresh, s) BY FreshShows
<1>3. PICK h \in Filter : h = Fed(g, q) /\ h.shown = g.shown BY FedFields
<1>4. PICK r \in Filter : r = sift[h] BY SiftTyped
<1>5. r = Feed(Fresh, s \o q)
  <2>1. Feed(Feed(Fresh, s), q) = Feed(Fresh, s \o q) BY <1>1, FeedsJoin
  <2> QED BY <1>2, <1>3, <1>4, <2>1 DEF Feed, Fed
<1>6. Told(r) = Public(s \o q) BY <1>1, <1>5, FreshShows
<1>7. PICK d \in Text, b \in Text : d = g.shown /\ r.shown = d \o b
  BY <1>3, <1>4, ShownStays, FilterFields DEF Extends
<1>8. PICK c \in Text : Told(r) = (d \o b) \o c
  <2>1. <<>> \in Text BY EmptySeq DEF Text
  <2> QED BY <1>7, <2>1, FilterFields DEF Told
<1>9. (d \o b) \o c = d \o (b \o c) /\ b \o c \in Text
  <2>1. (d \o b) \o c = d \o (b \o c) BY Associates, ZenonT(60)
  <2>2. b \o c \in Text BY Joins
  <2> QED BY <2>1, <2>2
<1> QED BY <1>2, <1>6, <1>7, <1>8, <1>9 DEF Extends

(* It holds nothing of an empty text.                                      *)
LEMMA FreshIsFed == Feed(Fresh, <<>>) = Fresh
<1>1. <<>> \in Text /\ Len(<<>>) = 0 /\ <<>> \o <<>> = <<>>
  BY EmptySeq, ConcatEmptySeq DEF Text
<1>2. Fresh \in Filter BY FreshShows, <1>1
<1>3. Fed(Fresh, <<>>) = Fresh BY <1>1, <1>2, FedFields DEF Fresh
<1>4. ~Found(Fresh)
  <2>1. \A m \in Markers : Starts(<<>>, m) \subseteq 1 .. 0 BY <1>1, StartsAt
  <2>2. \A m \in Awaited(Fresh) : m \in Markers BY <1>2, AwaitedApart
  <2>3. Fresh.held = <<>> BY DEF Fresh
  <2> QED BY <2>1, <2>2, <2>3 DEF Found
<1>5. Undecided(<<>>, Awaited(Fresh)) = 0 BY <1>1, UndecidedEnd
<1>6. From(<<>>, 1) = <<>> /\ Before(<<>>, 1) = <<>> BY <1>1, CutsEnds
<1>7. Rest(Fresh) = Fresh BY <1>1, <1>5, <1>6 DEF Rest, Fresh, Shown
<1> QED BY <1>2, <1>3, <1>4, <1>7, Sifts DEF Feed, Fed

-----------------------------------------------------------------------------
(* Frames. *)

(* The values of what goes from one number to the next.                    *)
Steps(f, S, base, op, k) == /\ f \in [0 .. k -> S] /\ f[0] = base
                            /\ \A n \in 1 .. k : f[n] = op[n][f[n - 1]]

(* They exist.                                                             *)
LEMMA StepsUpTo ==
  ASSUME NEW L \in Nat, NEW S, NEW base \in S, NEW op,
         \A v \in S : \A n \in 1 .. L : op[n][v] \in S
  PROVE  \E f : Steps(f, S, base, op, L)
<1> DEFINE T == {k \in Nat : \E f : Steps(f, S, base, op, k)}
<1>1. 0 \in T
  <2>1. PICK f : f = [n \in 0 .. 0 |-> base] OBVIOUS
  <2>2. Steps(f, S, base, op, 0) BY <2>1 DEF Steps
  <2> QED BY <2>2
<1>2. ASSUME NEW k \in 0 .. L - 1, k \in T PROVE k + 1 \in T
  <2>1. PICK f : Steps(f, S, base, op, k) BY <1>2
  <2>2. k \in Nat /\ k \in 0 .. k /\ k + 1 \in 1 .. L /\ k + 1 \in Nat OBVIOUS
  <2>3. PICK v \in S : v = op[k + 1][f[k]] BY <2>1, <2>2 DEF Steps
  <2>4. PICK g : g = [n \in 0 .. k + 1 |-> IF n = k + 1 THEN v ELSE f[n]] OBVIOUS
  <2>5. \A n \in 0 .. k : g[n] = f[n] /\ f[n] \in S BY <2>1, <2>2, <2>4 DEF Steps
  <2>6. g[k + 1] = v BY <2>2, <2>4
  <2>7. g \in [0 .. k + 1 -> S]
    <3>1. \A n \in 0 .. k + 1 : n = k + 1 \/ n \in 0 .. k BY <2>2
    <3> QED BY <2>4, <2>5, <3>1
  <2>8. ASSUME NEW n \in 1 .. k + 1 PROVE g[n] = op[n][g[n - 1]]
    <3>1. CASE n = k + 1
      <4>1. n - 1 = k BY <2>2, <3>1
      <4> QED BY <2>2, <2>3, <2>5, <2>6, <3>1, <4>1
    <3>2. CASE n # k + 1
      <4>1. n \in 1 .. k /\ n \in 0 .. k /\ n - 1 \in 0 .. k BY <2>2, <3>2
      <4> QED BY <2>1, <2>5, <4>1 DEF Steps
    <3> QED BY <3>1, <3>2
  <2>9. g[0] = base
    <3>1. 0 \in 0 .. k BY <2>2
    <3> QED BY <2>1, <2>5, <3>1 DEF Steps
  <2>10. Steps(g, S, base, op, k + 1) BY <2>7, <2>8, <2>9 DEF Steps
  <2> QED BY <2>2, <2>10
<1>3. \A k \in 0 .. L : k \in T
  <2> HIDE DEF T
  <2> QED BY <1>1, <1>2, UpFromZero
<1>4. L \in 0 .. L OBVIOUS
<1> QED BY <1>3, <1>4

KindsOf(r)   == IF r = "run" THEN {"delta", "content", "completed", "error"}
                ELSE {"text", "exported"}
Thirds       == {3 * n : n \in Nat}
FramesOf(r)  == [before : Thirds, kind : KindsOf(r), text : Text]
PacketsOf(r) == [frame : FramesOf(r), part : 1 .. 3]
EventsOf(r)  == PacketsOf(r) \cup [file : 1 .. MaxFiles] \cup {Notice}

(* No part of a frame is missing before another, and nothing is between    *)
(* two of them.                                                            *)
Whole(s) == \A i \in DOMAIN s : "part" \in DOMAIN s[i] /\ s[i].part > 1 =>
                i > 1 /\ s[i - 1] = [s[i] EXCEPT !.part = @ - 1]

(* The parts sent after the first a, up to b.                              *)
Spans(s, a, b) == Len(s) = b - a /\ \A i \in 1 .. Len(s) : Place(s[i]) = a + i

(* A frame of F ends where e says, and the next starts there.              *)
Marks(F, e) == /\ e \in [0 .. Len(F) -> Nat]
               /\ \A k \in 1 .. Len(F) : Spans(F[k], e[k - 1], e[k])

(* So the frames of F go from a to where rest starts, which goes to c.     *)
MarkedUpTo(F, rest, a, c) ==
    \E e : /\ Marks(F, e) /\ e[0] = a
           /\ \A k \in 1 .. Len(F) : e[k] \in Thirds
           /\ Spans(rest, e[Len(F)], c)

(* Of a, just the first parts were received, each after those before it.   *)
InOrder(o, a) ==
    /\ Passed(o, Len(o)) = 1 .. a
    /\ \A i \in 1 .. Len(o) : IsPart(o[i]) => Passed(o, i - 1) = 1 .. (Place(o[i]) - 1)

(* A part of a frame tells of no file, and what precedes it is one less.   *)
LEMMA Packets ==
  ASSUME NEW r, NEW x \in PacketsOf(r)
  PROVE  /\ "part" \in DOMAIN x /\ "file" \notin DOMAIN x
         /\ x.part \in 1 .. 3 /\ x.frame \in FramesOf(r)
         /\ [x EXCEPT !.part = @ - 1].part = x.part - 1
<1>1. x = [frame |-> x.frame, part |-> x.part] /\ x.part \in 1 .. 3 /\ x.frame \in FramesOf(r)
  BY DEF PacketsOf
<1>2. DOMAIN x = {"frame", "part"} BY <1>1
<1>3. [x EXCEPT !.part = @ - 1].part = x.part - 1 BY <1>2
<1> QED BY <1>1, <1>2, <1>3

(* What else a client is told has no parts.                                *)
LEMMA Others ==
  /\ \A x \in [file : 1 .. MaxFiles] :
        "file" \in DOMAIN x /\ "part" \notin DOMAIN x /\ x.file \in 1 .. MaxFiles
  /\ "file" \notin DOMAIN Notice /\ "part" \notin DOMAIN Notice
<1>1. ASSUME NEW x \in [file : 1 .. MaxFiles]
      PROVE  "file" \in DOMAIN x /\ "part" \notin DOMAIN x /\ x.file \in 1 .. MaxFiles
  <2>1. DOMAIN x = {"file"} /\ x.file \in 1 .. MaxFiles OBVIOUS
  <2> QED BY <2>1
<1>2. "file" \notin DOMAIN Notice /\ "part" \notin DOMAIN Notice BY DEF Notice
<1> QED BY <1>1, <1>2

(* What is whole and what is whole make a whole.                           *)
LEMMA WholeJoined ==
  ASSUME NEW S, NEW s \in Seq(S), NEW q \in Seq(S), Whole(s), Whole(q)
  PROVE  Whole(s \o q)
<1>1. PICK L \in Nat, K \in Nat : /\ L = Len(s) /\ K = Len(q)
                                  /\ DOMAIN s = 1 .. L /\ DOMAIN q = 1 .. K
  BY LenProperties
<1>2. PICK w \in Seq(S) : /\ w = s \o q /\ DOMAIN w = 1 .. L + K
                          /\ \A i \in 1 .. L + K : w[i] = IF i <= L THEN s[i] ELSE q[i - L]
  <2>1. /\ s \o q \in Seq(S) /\ Len(s \o q) = Len(s) + Len(q)
        /\ \A i \in 1 .. Len(s) + Len(q) :
              (s \o q)[i] = IF i <= Len(s) THEN s[i] ELSE q[i - Len(s)]
    BY ConcatProperties
  <2>2. DOMAIN (s \o q) = 1 .. L + K BY <1>1, <2>1, LenProperties
  <2> QED BY <1>1, <2>1, <2>2
<1>3. ASSUME NEW i \in 1 .. L + K, "part" \in DOMAIN w[i], w[i].part > 1
      PROVE  i > 1 /\ w[i - 1] = [w[i] EXCEPT !.part = @ - 1]
  <2>1. CASE i <= L
    <3>1. w[i] = s[i] /\ i \in 1 .. L BY <1>2, <2>1
    <3>2. i > 1 /\ s[i - 1] = [s[i] EXCEPT !.part = @ - 1] BY <1>1, <1>3, <3>1 DEF Whole
    <3>3. i - 1 \in 1 .. L + K /\ i - 1 <= L BY <2>1, <3>2
    <3> QED BY <1>2, <3>1, <3>2, <3>3
  <2>2. CASE i > L
    <3>0. i \in Nat /\ i - L \in 1 .. K BY <2>2
    <3>1. PICK j \in 1 .. K : j = i - L BY <3>0
    <3>2. w[i] = q[j] BY <1>2, <2>2, <3>1
    <3>3. j > 1 /\ q[j - 1] = [q[j] EXCEPT !.part = @ - 1] BY <1>1, <1>3, <3>2 DEF Whole
    <3>4. i - 1 \in 1 .. L + K /\ i > 1 /\ ~(i - 1 <= L) /\ i - 1 - L = j - 1
      BY <1>1, <3>1, <3>3
    <3>5. w[i - 1] = q[j - 1] BY <1>2, <3>4
    <3> QED BY <3>2, <3>3, <3>4, <3>5
  <2> QED BY <1>1, <2>1, <2>2
<1> QED BY <1>2, <1>3 DEF Whole

(* What is cut after the end of a frame, or at the start, is whole.        *)
LEMMA WholeCut ==
  ASSUME NEW r, NEW s \in Seq(PacketsOf(r)), Whole(s), NEW a \in Nat, NEW b \in Nat,
         a <= b, b <= Len(s), a = 0 \/ s[a].part = 3
  PROVE  SubSeq(s, a + 1, b) \in Seq(PacketsOf(r)) /\ Whole(SubSeq(s, a + 1, b))
<1>1. PICK L \in Nat : L = Len(s) /\ DOMAIN s = 1 .. L /\ \A i \in 1 .. L : s[i] \in PacketsOf(r)
  BY LenProperties, ElementOfSeq
<1>2. PICK K \in Nat : K = b - a OBVIOUS
<1>3. PICK q \in Seq(PacketsOf(r)) : /\ q = SubSeq(s, a + 1, b) /\ DOMAIN q = 1 .. K
                                     /\ \A i \in 1 .. K : q[i] = s[a + i]
  <2>1. \A i \in a + 1 .. b : s[i] \in PacketsOf(r)
    <3>1. \A i \in a + 1 .. b : i \in 1 .. L BY <1>1
    <3> QED BY <1>1, <3>1
  <2>2. a + 1 \in Int /\ b \in Int OBVIOUS
  <2>3. /\ SubSeq(s, a + 1, b) \in Seq(PacketsOf(r))
        /\ Len(SubSeq(s, a + 1, b)) = IF a + 1 <= b THEN b - (a + 1) + 1 ELSE 0
        /\ \A i \in 1 .. b - (a + 1) + 1 : SubSeq(s, a + 1, b)[i] = s[a + 1 + i - 1]
    BY <2>1, <2>2, SubSeqProperties
  <2>4. Len(SubSeq(s, a + 1, b)) = K BY <1>2, <2>3
  <2>5. DOMAIN SubSeq(s, a + 1, b) = 1 .. K BY <2>3, <2>4, LenProperties
  <2>6. ASSUME NEW i \in 1 .. K PROVE SubSeq(s, a + 1, b)[i] = s[a + i]
    <3>1. i \in 1 .. b - (a + 1) + 1 /\ a + 1 + i - 1 = a + i BY <1>2
    <3>2. SubSeq(s, a + 1, b)[i] = s[a + 1 + i - 1] BY <2>3, <3>1
    <3> QED BY <3>1, <3>2
  <2> QED BY <2>3, <2>5, <2>6
<1>4. ASSUME NEW i \in 1 .. K, q[i].part > 1
      PROVE  i > 1 /\ q[i - 1] = [q[i] EXCEPT !.part = @ - 1]
  <2>1. PICK j \in 1 .. L : j = a + i /\ i \in Nat /\ j \in Nat BY <1>1, <1>2
  <2>2. q[i] = s[j] BY <1>3, <2>1
  <2>3. s[j] \in PacketsOf(r) BY <1>1
  <2>4. j > 1 /\ s[j - 1] = [s[j] EXCEPT !.part = @ - 1]
    BY <1>1, <1>4, <2>2, <2>3, Packets DEF Whole
  <2>5. i > 1
    <3>1. SUFFICES ASSUME i = 1 PROVE FALSE BY <2>1
    <3>2. j - 1 = a /\ a # 0 BY <2>1, <2>4, <3>1
    <3>3. s[j - 1].part = 3 BY <3>2
    <3>4. s[j - 1].part = s[j].part - 1 BY <2>3, <2>4, Packets
    <3>5. s[j].part \in 1 .. 3 BY <2>3, Packets
    <3> QED BY <3>3, <3>4, <3>5
  <2>6. i - 1 \in 1 .. K /\ a + (i - 1) = j - 1 BY <2>1, <2>5
  <2>7. q[i - 1] = s[j - 1] BY <1>3, <2>6
  <2> QED BY <2>2, <2>4, <2>5, <2>7
<1> QED BY <1>3, <1>4 DEF Whole

(* A frame that is sent is whole.                                          *)
LEMMA PartsWhole ==
  ASSUME NEW r, NEW f \in FramesOf(r)
  PROVE  Parts(f) \in Seq(PacketsOf(r)) /\ Whole(Parts(f))
<1>1. PICK q : q = Parts(f) OBVIOUS
<1>2. q \in [1 .. 3 -> PacketsOf(r)] BY <1>1 DEF Parts, PacketsOf
<1>3. q \in Seq(PacketsOf(r))
  <2>1. 3 \in Nat OBVIOUS
  <2> QED BY <1>2, <2>1, SeqDef
<1>4. ASSUME NEW i \in 1 .. 3, q[i].part > 1 PROVE i > 1 /\ q[i - 1] = [q[i] EXCEPT !.part = @ - 1]
  <2>1. q[i] = [frame |-> f, part |-> i] BY <1>1 DEF Parts
  <2>2. i > 1 /\ i - 1 \in 1 .. 3 BY <1>4, <2>1
  <2>3. q[i - 1] = [frame |-> f, part |-> i - 1] BY <1>1, <2>2 DEF Parts
  <2> QED BY <2>1, <2>2, <2>3
<1>5. DOMAIN q = 1 .. 3 BY <1>2
<1> QED BY <1>1, <1>3, <1>4, <1>5 DEF Whole

(* The parts that are split from the first n.                              *)
SplitUpTo(f, parts) ==
  f = [n \in 0 .. Len(parts) |-> IF n = 0 THEN [frames |-> <<>>, rest |-> <<>>]
                                 ELSE Takes(f[n - 1], parts[n])]

(* They exist, and the last is what Split returns.                         *)
LEMMA Splits ==
  ASSUME NEW S, NEW parts \in Seq(S)
  PROVE  \E f : /\ Split(parts) = f[Len(parts)] /\ f[0] = [frames |-> <<>>, rest |-> <<>>]
                /\ \A n \in 1 .. Len(parts) : f[n] = Takes(f[n - 1], parts[n])
<1>1. PICK L \in Nat : L = Len(parts) /\ \A n \in 1 .. L : parts[n] \in S
  BY LenProperties, ElementOfSeq
<1>2. PICK V : V = [frames : Seq(Seq(S)), rest : Seq(S)] OBVIOUS
<1>3. ASSUME NEW v \in V, NEW x \in S PROVE Takes(v, x) \in V
  <2>1. v.frames \in Seq(Seq(S)) /\ v.rest \in Seq(S) BY <1>2
  <2>2. Append(v.rest, x) \in Seq(S) BY <2>1, AppendProperties
  <2>3. Append(v.frames, Append(v.rest, x)) \in Seq(Seq(S)) BY <2>1, <2>2, AppendProperties
  <2>4. <<>> \in Seq(S) BY EmptySeq
  <2>5. CASE x.part = 3 BY <1>2, <2>3, <2>4, <2>5 DEF Takes
  <2>6. CASE x.part # 3
    <3>1. PICK s \in Seq(S) : s = Append(v.rest, x) BY <2>2
    <3>2. Takes(v, x) = [v EXCEPT !.rest = s] BY <2>6, <3>1 DEF Takes
    <3>3. Takes(v, x) = [frames |-> v.frames, rest |-> s] BY <1>2, <3>2
    <3> QED BY <1>2, <2>1, <3>3
  <2> QED BY <2>5, <2>6
<1>4. PICK base \in V : base = [frames |-> <<>>, rest |-> <<>>] BY <1>2, EmptySeq
<1>5. PICK op : op = [n \in 1 .. L |-> [v \in V |-> Takes(v, parts[n])]] OBVIOUS
<1>6. ASSUME NEW v \in V, NEW n \in 1 .. L
      PROVE  op[n][v] = Takes(v, parts[n]) /\ op[n][v] \in V
  <2>1. op[n][v] = Takes(v, parts[n]) BY <1>5
  <2> QED BY <1>1, <1>3, <2>1
<1>7. PICK g : Steps(g, V, base, op, L) BY <1>1, <1>4, <1>6, StepsUpTo
<1>8. \A n \in 1 .. L : g[n] = Takes(g[n - 1], parts[n])
  <2>1. \A n \in 1 .. L : n - 1 \in 0 .. L OBVIOUS
  <2> QED BY <1>6, <1>7, <2>1 DEF Steps
<1>9. g = [n \in 0 .. L |-> IF n = 0 THEN base ELSE Takes(g[n - 1], parts[n])]
  <2>1. \A n \in 0 .. L : n = 0 \/ n \in 1 .. L OBVIOUS
  <2>2. \A n \in 0 .. L : g[n] = IF n = 0 THEN base ELSE Takes(g[n - 1], parts[n])
    BY <1>7, <1>8, <2>1 DEF Steps
  <2> QED BY <1>7, <2>2 DEF Steps
<1>10. SplitUpTo(g, parts) BY <1>1, <1>4, <1>9 DEF SplitUpTo
<1>11. PICK f : SplitUpTo(f, parts) /\ Split(parts) = f[Len(parts)]
  <2>1. SplitUpTo(CHOOSE f : SplitUpTo(f, parts), parts) BY <1>10
  <2>2. Split(parts) = (CHOOSE f : SplitUpTo(f, parts))[Len(parts)] BY DEF Split, SplitUpTo
  <2> QED BY <2>1, <2>2
<1>12. f[0] = [frames |-> <<>>, rest |-> <<>>]
  <2>1. 0 \in 0 .. Len(parts) BY <1>1
  <2> QED BY <1>11, <2>1 DEF SplitUpTo
<1>13. \A n \in 1 .. Len(parts) : f[n] = Takes(f[n - 1], parts[n])
  <2>1. \A n \in 1 .. Len(parts) : n \in 0 .. Len(parts) /\ n # 0 BY <1>1
  <2> QED BY <1>11, <2>1 DEF SplitUpTo
<1> QED BY <1>11, <1>12, <1>13

(* One part more of a cut.                                                 *)
LEMMA CutLonger ==
  ASSUME NEW S, NEW s \in Seq(S), NEW a \in Nat, NEW n \in Nat, a <= n, n + 1 <= Len(s)
  PROVE  /\ SubSeq(s, a + 1, n) \in Seq(S)
         /\ Append(SubSeq(s, a + 1, n), s[n + 1]) = SubSeq(s, a + 1, n + 1)
         /\ SubSeq(s, a + 1, n + 1) # <<>>
<1>1. PICK L \in Nat : L = Len(s) /\ \A i \in 1 .. L : s[i] \in S BY LenProperties, ElementOfSeq
<1>2. a + 1 \in 1 .. Len(s) /\ n + 1 \in a + 1 .. Len(s) /\ n + 1 - 1 = n /\ n + 1 \in 1 .. L
  BY <1>1
<1>3. SubSeq(s, a + 1, n + 1) = SubSeq(s, a + 1, n) \o <<s[n + 1]>>
  <2>1. SubSeq(s, a + 1, n + 1) = SubSeq(s, a + 1, n + 1 - 1) \o <<s[n + 1]>>
    BY <1>2, SubSeqRecursiveSecond
  <2> QED BY <1>2, <2>1
<1>4. SubSeq(s, a + 1, n) \in Seq(S)
  <2>1. a + 1 \in Int /\ n \in Int /\ \A i \in a + 1 .. n : i \in 1 .. L BY <1>1
  <2>2. \A i \in a + 1 .. n : s[i] \in S BY <1>1, <2>1
  <2> QED BY <2>1, <2>2, SubSeqProperties
<1>5. s[n + 1] \in S BY <1>1, <1>2
<1>6. Append(SubSeq(s, a + 1, n), s[n + 1]) = SubSeq(s, a + 1, n) \o <<s[n + 1]>>
  BY <1>4, <1>5, AppendIsConcat
<1>7. Append(SubSeq(s, a + 1, n), s[n + 1]) # <<>> BY <1>4, <1>5, AppendProperties
<1> QED BY <1>3, <1>4, <1>6, <1>7

(* What is split are frames, whole ones if they were, and what is left     *)
(* starts after the end of a frame.                                        *)
LEMMA SplitCuts ==
  ASSUME NEW r, NEW parts \in Seq(PacketsOf(r))
  PROVE  /\ Split(parts).frames \in Seq(Seq(PacketsOf(r)) \ {<<>>})
         /\ Split(parts).rest \in Seq(PacketsOf(r))
         /\ \E a \in Nat : /\ a <= Len(parts) /\ (a = 0 \/ parts[a].part = 3)
                           /\ Split(parts).rest = SubSeq(parts, a + 1, Len(parts))
         /\ Whole(parts) => \A k \in 1 .. Len(Split(parts).frames) : Whole(Split(parts).frames[k])
<1> DEFINE P == PacketsOf(r)
           Cut(v, a, n) == a <= n /\ (a = 0 \/ parts[a].part = 3) /\ v.rest = SubSeq(parts, a + 1, n)
           AllWhole(v) == Whole(parts) => \A k \in 1 .. Len(v.frames) : Whole(v.frames[k])
<1>1. PICK L \in Nat : L = Len(parts) BY LenProperties
<1>2. PICK f : /\ Split(parts) = f[L] /\ f[0] = [frames |-> <<>>, rest |-> <<>>]
               /\ \A n \in 1 .. L : f[n] = Takes(f[n - 1], parts[n])
  BY <1>1, Splits
<1>8. ASSUME NEW a \in Nat, NEW n \in Nat, a <= n, n + 1 <= Len(parts)
      PROVE  /\ Append(SubSeq(parts, a + 1, n), parts[n + 1]) = SubSeq(parts, a + 1, n + 1)
             /\ SubSeq(parts, a + 1, n + 1) # <<>>
  BY <1>8, CutLonger
<1> DEFINE V == [frames : Seq(Seq(P) \ {<<>>}), rest : Seq(P)]
           T == {n \in Nat : /\ f[n] \in V
                             /\ \E a \in Nat : Cut(f[n], a, n)
                             /\ AllWhole(f[n])}
<1>3. 0 \in T
  <2>1. f[0].frames = <<>> /\ f[0].rest = <<>> BY <1>2
  <2>2. <<>> \in Seq(Seq(P) \ {<<>>}) /\ <<>> \in Seq(P) /\ Len(<<>>) = 0 BY EmptySeq
  <2>6. f[0] \in V BY <1>2, <2>2
  <2>3. SubSeq(parts, 0 + 1, 0) = <<>>
    <3>1. 0 + 1 \in Int /\ 0 \in Int /\ 0 < 0 + 1 OBVIOUS
    <3> QED BY <3>1, SubSeqEmpty
  <2>4. Cut(f[0], 0, 0) BY <2>1, <2>3
  <2>5. AllWhole(f[0]) BY <2>1, <2>2
  <2> HIDE DEF P, V, Cut, AllWhole
  <2> QED BY <2>4, <2>5, <2>6
<1>4. ASSUME NEW n \in 0 .. L - 1, n \in T PROVE n + 1 \in T
  <2>1. n \in Nat /\ n + 1 \in 1 .. L /\ n + 1 - 1 = n /\ n + 1 \in Nat /\ n + 1 <= L OBVIOUS
  <2>2. PICK v \in V : v = f[n] /\ AllWhole(v) BY <1>4
  <2>10. v.frames \in Seq(Seq(P) \ {<<>>}) /\ v.rest \in Seq(P) OBVIOUS
  <2>3. PICK a \in Nat : Cut(v, a, n) BY <1>4, <2>2
  <2>4. PICK x \in P : x = parts[n + 1] BY <1>1, <2>1, ElementOfSeq
  <2>5. PICK w : w = f[n + 1] /\ w = Takes(v, x) BY <1>2, <2>1, <2>2, <2>4
  <2>6. PICK q : /\ q = SubSeq(parts, a + 1, n + 1) /\ q # <<>>
                 /\ q = Append(v.rest, x)
    <3>1. a <= n /\ n + 1 <= Len(parts) /\ v.rest = SubSeq(parts, a + 1, n) BY <1>1, <2>1, <2>3
    <3>2. /\ Append(SubSeq(parts, a + 1, n), parts[n + 1]) = SubSeq(parts, a + 1, n + 1)
          /\ SubSeq(parts, a + 1, n + 1) # <<>>
      <4>1. a \in Nat /\ n \in Nat /\ a <= n /\ n + 1 <= Len(parts) BY <2>1, <2>3, <3>1
      <4> QED BY <1>8, <4>1
    <3> QED BY <2>4, <3>1, <3>2
  <2>7. q \in Seq(P) /\ (Whole(parts) => Whole(q))
    <3>1. q \in Seq(P)
      <4>1. Append(v.rest, x) \in Seq(P) BY <2>4, <2>10, AppendProperties
      <4> QED BY <2>6, <4>1
    <3>2. ASSUME Whole(parts) PROVE Whole(q)
      <4>1. a <= n + 1 /\ n + 1 <= Len(parts) BY <1>1, <2>1, <2>3
      <4> QED BY <2>1, <2>3, <2>6, <3>2, <4>1, WholeCut
    <3> QED BY <3>1, <3>2
  <2>8. CASE x.part = 3
    <3>0. w = [frames |-> Append(v.frames, Append(v.rest, x)), rest |-> <<>>]
      BY <2>5, <2>8 DEF Takes
    <3>1. w = [frames |-> Append(v.frames, q), rest |-> <<>>] BY <2>6, <3>0
    <3>2. /\ w.frames \in Seq(Seq(P) \ {<<>>}) /\ Len(w.frames) = Len(v.frames) + 1
          /\ \A k \in 1 .. Len(v.frames) : w.frames[k] = v.frames[k]
          /\ w.frames[Len(v.frames) + 1] = q
      <4>1. q \in Seq(P) \ {<<>>} BY <2>6, <2>7
      <4> QED BY <2>10, <3>1, <4>1, AppendProperties
    <3>3. AllWhole(w)
      <4>1. PICK K \in Nat : K = Len(v.frames) BY <2>10, LenProperties
      <4>2. \A k \in 1 .. K + 1 : k \in 1 .. K \/ k = K + 1 BY <4>1
      <4> QED BY <2>2, <2>7, <3>2, <4>1, <4>2
    <3>4. Cut(w, n + 1, n + 1)
      <4>1. SubSeq(parts, n + 1 + 1, n + 1) = <<>>
        <5>1. n + 1 + 1 \in Int /\ n + 1 \in Int /\ n + 1 < n + 1 + 1 BY <2>1
        <5> QED BY <5>1, SubSeqEmpty
      <4> QED BY <2>1, <2>4, <2>8, <3>1, <4>1
    <3>5. w \in V
      <4>1. w.frames \in Seq(Seq(P) \ {<<>>}) /\ <<>> \in Seq(P) BY <3>2, EmptySeq
      <4> QED BY <3>1, <4>1
    <3> HIDE DEF P, V, Cut, AllWhole
    <3> QED BY <2>1, <2>5, <3>3, <3>4, <3>5
  <2>9. CASE x.part # 3
    <3>1. w = [v EXCEPT !.rest = Append(@, x)] BY <2>5, <2>9 DEF Takes
    <3>2. w = [frames |-> v.frames, rest |-> q] BY <2>6, <3>1
    <3>3. Cut(w, a, n + 1) BY <2>1, <2>3, <2>6, <3>2
    <3>4. AllWhole(w) BY <2>2, <3>2
    <3>5. w \in V BY <2>7, <2>10, <3>2
    <3> HIDE DEF P, V, Cut, AllWhole
    <3> QED BY <2>1, <2>5, <3>3, <3>4, <3>5
  <2> QED BY <2>8, <2>9
<1>5. \A n \in 0 .. L : n \in T
  <2> HIDE DEF T
  <2> QED BY <1>3, <1>4, UpFromZero
<1>6. L \in T
  <2>1. L \in 0 .. L OBVIOUS
  <2> QED BY <1>5, <2>1
<1>7. f[L].frames \in Seq(Seq(P) \ {<<>>}) /\ f[L].rest \in Seq(P) BY <1>6
<1> QED BY <1>1, <1>2, <1>6, <1>7

-----------------------------------------------------------------------------
(* What a run has read. *)

Answers == [text : Text, content : Text, done : BOOLEAN, failed : BOOLEAN,
            result : {"none", "accepted", "question", "refused"}]

(* The filter was fed what was streamed, and nothing is decided. *)
Following == {h \in [answer : Answers, filter : Filter] :
                 h.answer.result = "none" /\ h.filter = Feed(Fresh, h.answer.text)}

(* A frame that is read tells what it was sent with, or nothing.           *)
LEMMA ReadTyped ==
  ASSUME NEW r, NEW parts \in Seq(PacketsOf(r)), parts # <<>>
  PROVE  Read(parts) \in FramesOf(r)
<1>1. Len(parts) \in Nat \ {0} BY EmptySeq
<1>2. 1 \in 1 .. Len(parts) BY <1>1
<1>3. PICK f \in FramesOf(r) : f = parts[1].frame BY <1>2, ElementOfSeq, Packets
<1>4. <<>> \in Text BY EmptySeq DEF Text
<1>5. [f EXCEPT !.text = <<>>] \in FramesOf(r) BY <1>4 DEF FramesOf
<1> QED BY <1>3, <1>5 DEF Read

(* The reader of a run follows whatever frame comes.                       *)
LEMMA ProcessFollows ==
  ASSUME NEW h \in Following, NEW parts \in Seq(PacketsOf("run")), parts # <<>>
  PROVE  Process(h, parts) \in Following
<1>1. PICK f \in FramesOf("run") : f = Read(parts) BY ReadTyped
<1>2. f.kind \in {"delta", "content", "completed", "error"} /\ f.text \in Text
  BY DEF FramesOf, KindsOf
<1>3. PICK a \in Answers, g \in Filter :
          a = h.answer /\ g = h.filter /\ a.result = "none" /\ g = Feed(Fresh, a.text)
  BY DEF Following
<1>4. h = [answer |-> a, filter |-> g] BY <1>3 DEF Following
<1>5. a.text \in Text /\ a.content \in Text BY <1>3 DEF Answers
<1>6. CASE a.failed
  <2>1. Process(h, parts) = h BY <1>3, <1>6 DEF Process
  <2> QED BY <2>1
<1>7. CASE ~a.failed /\ f.kind = "delta"
  <2>1. PICK t \in Text, c \in Text : t = a.text \o f.text /\ c = a.content \o f.text
    BY <1>2, <1>5, Joins
  <2>2. PICK b : b = [a EXCEPT !.text = t, !.content = c] OBVIOUS
  <2>3. Process(h, parts) = [answer |-> b, filter |-> Feed(g, f.text)]
    BY <1>1, <1>3, <1>7, <2>1, <2>2 DEF Process
  <2>4. b \in Answers /\ b.result = "none" /\ b.text = t BY <1>3, <2>1, <2>2 DEF Answers
  <2>5. Feed(g, f.text) = Feed(Fresh, t) /\ Feed(g, f.text) \in Filter
    <3>1. Fresh \in Filter BY <1>5, FreshShows
    <3> QED BY <1>2, <1>3, <1>5, <2>1, <3>1, FeedsJoin
  <2> QED BY <2>3, <2>4, <2>5 DEF Following
<1>8. CASE ~a.failed /\ f.kind = "content"
  <2>1. Process(h, parts) = IF f.text = <<>> THEN h ELSE [h EXCEPT !.answer.content = f.text]
    BY <1>1, <1>3, <1>8 DEF Process
  <2>2. [h EXCEPT !.answer.content = f.text]
          = [answer |-> [a EXCEPT !.content = f.text], filter |-> g]
    BY <1>4
  <2>3. PICK b : b = [a EXCEPT !.content = f.text] OBVIOUS
  <2>4. b \in Answers /\ b.result = "none" /\ b.text = a.text BY <1>2, <1>3, <2>3 DEF Answers
  <2>5. [answer |-> b, filter |-> g] \in Following BY <1>3, <2>4 DEF Following
  <2> QED BY <2>1, <2>2, <2>3, <2>5
<1>9. CASE ~a.failed /\ f.kind = "completed"
  <2>1. PICK c \in Text : c = IF f.text = <<>> THEN a.content ELSE f.text BY <1>2, <1>5
  <2>2. Process(h, parts) = [h EXCEPT !.answer.done = TRUE, !.answer.content = c]
    BY <1>1, <1>3, <1>4, <1>9, <2>1 DEF Process
  <2>3. PICK b : b = [a EXCEPT !.done = TRUE, !.content = c] OBVIOUS
  <2>4. Process(h, parts) = [answer |-> b, filter |-> g] BY <1>4, <2>2, <2>3
  <2>5. b \in Answers /\ b.result = "none" /\ b.text = a.text BY <1>3, <2>1, <2>3 DEF Answers
  <2> QED BY <1>3, <2>4, <2>5 DEF Following
<1>10. CASE ~a.failed /\ f.kind = "error"
  <2>1. Process(h, parts) = [h EXCEPT !.answer.failed = TRUE] BY <1>1, <1>3, <1>10 DEF Process
  <2>2. PICK b : b = [a EXCEPT !.failed = TRUE] OBVIOUS
  <2>3. Process(h, parts) = [answer |-> b, filter |-> g] BY <1>4, <2>1, <2>2
  <2>4. b \in Answers /\ b.result = "none" /\ b.text = a.text BY <1>3, <2>2 DEF Answers
  <2> QED BY <1>3, <2>3, <2>4 DEF Following
<1> QED BY <1>2, <1>6, <1>7, <1>8, <1>9, <1>10

(* The values of Drained up to a frame.                                    *)
DrainedUpTo(f, h, list) ==
  f = [n \in 0 .. Len(list) |-> IF n = 0 THEN h ELSE Process(f[n - 1], list[n])]

(* It follows the frames that are drained, one after the other.            *)
LEMMA DrainedFollows ==
  ASSUME [answer |-> answer, filter |-> filter] \in Following,
         NEW list \in Seq(Seq(PacketsOf("run")) \ {<<>>})
  PROVE  Drained(list) \in Following
<1>1. PICK L \in Nat : L = Len(list) BY LenProperties
<1>2. \A n \in 1 .. L : list[n] \in Seq(PacketsOf("run")) /\ list[n] # <<>>
  BY <1>1, ElementOfSeq
<1>3. PICK h \in Following : h = [answer |-> answer, filter |-> filter] OBVIOUS
<1>4. PICK op : op = [n \in 1 .. L |-> [v \in Following |-> Process(v, list[n])]] OBVIOUS
<1>5. ASSUME NEW v \in Following, NEW n \in 1 .. L
      PROVE  op[n][v] = Process(v, list[n]) /\ op[n][v] \in Following
  <2>1. op[n][v] = Process(v, list[n]) BY <1>4
  <2> QED BY <1>2, <2>1, ProcessFollows
<1>6. PICK g : Steps(g, Following, h, op, L) BY <1>1, <1>3, <1>5, StepsUpTo
<1>7. \A n \in 0 .. L : g[n] = IF n = 0 THEN h ELSE Process(g[n - 1], list[n])
  <2>1. \A n \in 0 .. L : n = 0 \/ (n \in 1 .. L /\ n - 1 \in 0 .. L) OBVIOUS
  <2> QED BY <1>5, <1>6, <2>1 DEF Steps
<1>8. DrainedUpTo(g, h, list) BY <1>1, <1>6, <1>7 DEF DrainedUpTo, Steps
<1>9. PICK f : DrainedUpTo(f, h, list) /\ Drained(list) = f[L]
  <2>1. DrainedUpTo(CHOOSE f : DrainedUpTo(f, h, list), h, list) BY <1>8
  <2>2. Drained(list) = (CHOOSE f : DrainedUpTo(f, h, list))[Len(list)]
    BY <1>3 DEF Drained, DrainedUpTo
  <2> QED BY <1>1, <2>1, <2>2
<1>10. \A n \in 0 .. L : f[n] = IF n = 0 THEN h ELSE Process(f[n - 1], list[n])
  BY <1>1, <1>9 DEF DrainedUpTo
<1> DEFINE T == {n \in Nat : f[n] \in Following}
<1>11. 0 \in T
  <2>1. 0 \in 0 .. L BY <1>1
  <2> QED BY <1>3, <1>10, <2>1
<1>12. ASSUME NEW n \in 0 .. L - 1, n \in T PROVE n + 1 \in T
  <2>1. n + 1 \in 0 .. L /\ n + 1 \in 1 .. L /\ n + 1 # 0 /\ n + 1 - 1 = n /\ n + 1 \in Nat
    BY <1>1
  <2>2. f[n + 1] = Process(f[n], list[n + 1]) BY <1>10, <2>1
  <2>3. f[n + 1] \in Following BY <1>2, <1>12, <2>1, <2>2, ProcessFollows
  <2> QED BY <2>1, <2>3
<1>13. \A n \in 0 .. L : n \in T
  <2> HIDE DEF T
  <2> QED BY <1>1, <1>11, <1>12, UpFromZero
<1>14. L \in 0 .. L BY <1>1
<1> QED BY <1>9, <1>13, <1>14

-----------------------------------------------------------------------------
(* The invariant. *)

TypeOK ==
    /\ reader \in {"run", "chat"}
    /\ stage \in {"reading", "passing", "looking", "relayed", "closing", "ended", "left"}
    /\ open \in BOOLEAN /\ sent \in Nat /\ (open => sent \in Thirds)
    /\ flow \in Seq(PacketsOf(reader)) /\ buffer \in Seq(PacketsOf(reader))
    /\ answer \in Answers /\ filter \in Filter
    /\ frames \in Seq(Seq(PacketsOf(reader)) \ {<<>>})
    /\ files \in [1 .. MaxFiles -> {"none", "there", "gone"}]
    /\ existing \in SUBSET Nat /\ told \in SUBSET (1 .. MaxFiles)
    /\ out \in Seq(EventsOf(reader))
    /\ faults \in Nat /\ missed \in BOOLEAN

(* A run that reads has fed its filter all that was streamed. *)
RunFollows == reader = "run" /\ stage = "reading" =>
    [answer |-> answer, filter |-> filter] \in Following

(* What a chat has yet to pass on is whole, until it gives up. *)
RestIsWhole ==
    /\ stage \in {"reading", "passing", "looking"} => Whole(buffer \o flow)
    /\ \A k \in 1 .. Len(frames) : Whole(frames[k])
    /\ stage = "passing" => frames # <<>>

(* A chat told just the files that it remembers, each once. *)
Telling(o) == {o[i].file : i \in {j \in DOMAIN o : "file" \in DOMAIN o[j]}}

Once(o) == \A i, j \in DOMAIN o : "file" \in DOMAIN o[i] /\ o[i] = o[j] => i = j

ToldOnce == told = Telling(out) /\ told \cap existing = {} /\ Once(out)

AllTold == stage = "ended" /\ reader = "chat" /\ ~missed =>
    \A n \in 1 .. MaxFiles : files[n] = "there" => n \in existing \cup told

(* What a chat's client received, the frames to pass on, what is at hand   *)
(* of the next and what has not arrived follow each other, up to all that  *)
(* was sent, and the frames end with their last part unless the stream     *)
(* ended before it.  A relay that saw no failure passed all of it on.      *)
Ends == {n \in Nat : n \in Thirds \/ (~open /\ n = sent)}

Placed(e, b) ==
    /\ Spans(flow, b, sent)
    /\ Marks(frames, e) /\ \A k \in 0 .. Len(frames) : e[k] \in Ends
    /\ InOrder(out, e[0])
    /\ stage \in {"reading", "passing", "looking"} => Spans(buffer, e[Len(frames)], b)
    /\ stage \in {"relayed", "closing", "ended"} /\ (\A i \in DOMAIN out : out[i] # Notice) =>
          ~open /\ e[0] = sent

InPlace ==
    /\ reader = "run" => out = <<>>
    /\ reader = "chat" =>
          /\ stage \in {"reading", "relayed", "closing", "ended"} => frames = <<>>
          /\ \E e : \E b \in Nat : Placed(e, b)

Inv == /\ TypeOK /\ RunFollows /\ AnswerIsConfirmed
       /\ RestIsWhole /\ Whole(out) /\ ToldOnce /\ AllTold /\ InPlace

(* The sequence of a finite set has each of its elements once.             *)
LEMMA Listed ==
  ASSUME NEW S, IsFiniteSet(S)
  PROVE  /\ Cardinality(S) \in Nat /\ SetToSeq(S) \in [1 .. Cardinality(S) -> S]
         /\ \A i, j \in 1 .. Cardinality(S) : SetToSeq(S)[i] = SetToSeq(S)[j] => i = j
         /\ \A x \in S : \E i \in 1 .. Cardinality(S) : SetToSeq(S)[i] = x
<1>1. PICK C \in Nat : C = Cardinality(S) /\ ExistsBijection(1 .. C, S) BY FS_CardinalityType
<1>2. PICK g : g \in Bijection(1 .. C, S) BY <1>1 DEF ExistsBijection
<1>3. g \in [1 .. C -> S] /\ \A i, j \in 1 .. C : g[i] = g[j] => i = j BY <1>2, Fun_BijectionProperties
<1>4. IsInjective(g) BY <1>3 DEF IsInjective
<1>5. PICK f : f \in [1 .. C -> S] /\ IsInjective(f) /\ f = SetToSeq(S)
  BY <1>1, <1>3, <1>4 DEF SetToSeq
<1>6. f \in Injection(1 .. C, S) BY <1>5 DEF Injection
<1>7. Cardinality(1 .. C) = Cardinality(S)
  <2>1. 1 \in Int /\ C \in Int OBVIOUS
  <2>2. Cardinality(1 .. C) = IF 1 > C THEN 0 ELSE C - 1 + 1 BY <2>1, FS_Interval
  <2> QED BY <1>1, <2>2
<1>8. f \in Surjection(1 .. C, S) BY <1>6, <1>7, FS_Injection
<1>9. \A x \in S : \E i \in 1 .. C : f[i] = x BY <1>8 DEF Surjection
<1>10. \A i, j \in 1 .. C : f[i] = f[j] => i = j BY <1>5 DEF IsInjective
<1> QED BY <1>1, <1>5, <1>9, <1>10

(* New files are told each once.                                           *)
LEMMA FilesListed ==
  ASSUME NEW r, NEW N \in SUBSET (1 .. MaxFiles), NEW q,
         q = [i \in 1 .. Cardinality(N) |-> File(SetToSeq(N)[i])]
  PROVE  /\ q \in Seq(EventsOf(r)) /\ Whole(q) /\ Once(q) /\ Telling(q) = N
         /\ \A i \in 1 .. Len(q) : ~IsPart(q[i])
<1>1. MaxFiles \in Nat BY HermesStreamAssumption
<1>2. IsFiniteSet(N)
  <2>1. IsFiniteSet(1 .. MaxFiles) BY <1>1, FS_Interval
  <2> QED BY <2>1, FS_Subset
<1>3. PICK C \in Nat : C = Cardinality(N) BY <1>2, Listed
<1>4. PICK f \in [1 .. C -> N] : /\ f = SetToSeq(N)
                                 /\ \A i, j \in 1 .. C : f[i] = f[j] => i = j
                                 /\ \A x \in N : \E i \in 1 .. C : f[i] = x
  BY <1>2, <1>3, Listed
<1>5. DOMAIN q = 1 .. C /\ \A i \in 1 .. C : q[i] = [file |-> f[i]] /\ f[i] \in N
  BY <1>3, <1>4 DEF File
<1>6. ASSUME NEW i \in 1 .. C PROVE q[i] \in [file : 1 .. MaxFiles] /\ q[i].file = f[i]
  <2>1. PICK n \in 1 .. MaxFiles : n = f[i] BY <1>5
  <2>2. q[i] = [file |-> n] BY <1>5, <2>1
  <2>3. [file |-> n] \in [file : 1 .. MaxFiles] /\ [file |-> n].file = n OBVIOUS
  <2> QED BY <2>1, <2>2, <2>3
<1>7. q \in Seq(EventsOf(r))
  <2>1. q \in [1 .. C -> EventsOf(r)]
    <3>1. \A i \in 1 .. C : q[i] \in EventsOf(r) BY <1>6 DEF EventsOf
    <3> QED BY <1>3, <3>1
  <2> QED BY <1>3, <2>1, SeqDef
<1>8. Whole(q) BY <1>5, <1>6, Others DEF Whole
<1>9. Once(q)
  <2>1. ASSUME NEW i \in 1 .. C, NEW j \in 1 .. C, q[i] = q[j] PROVE i = j
    <3>1. f[i] = f[j] BY <1>6, <2>1
    <3> QED BY <1>4, <3>1
  <2> QED BY <1>5, <2>1 DEF Once
<1>10. Telling(q) = N
  <2>1. {j \in DOMAIN q : "file" \in DOMAIN q[j]} = 1 .. C BY <1>5, <1>6, Others
  <2>2. Telling(q) = {q[i].file : i \in 1 .. C} BY <2>1 DEF Telling
  <2>3. \A i \in 1 .. C : q[i].file \in N BY <1>5, <1>6
  <2>4. ASSUME NEW x \in N PROVE x \in Telling(q)
    <3>1. PICK i \in 1 .. C : f[i] = x BY <1>4
    <3>2. q[i].file = x BY <1>6, <3>1
    <3> QED BY <2>2, <3>2
  <2>5. ASSUME NEW x \in Telling(q) PROVE x \in N BY <2>2, <2>3
  <2> QED BY <2>4, <2>5
<1>11. \A i \in 1 .. Len(q) : ~IsPart(q[i])
  <2>1. Len(q) = C BY <1>3, <1>5, <1>7, LenProperties
  <2> QED BY <1>6, <2>1, Others DEF IsPart
<1> QED BY <1>7, <1>8, <1>9, <1>10, <1>11

(* What a client is told goes on.                                          *)
LEMMA ToldMore ==
  ASSUME NEW S, NEW o \in Seq(S), NEW q \in Seq(S), Once(o), Once(q),
         Telling(o) \cap Telling(q) = {}
  PROVE  Once(o \o q) /\ Telling(o \o q) = Telling(o) \cup Telling(q)
<1>1. PICK L \in Nat, K \in Nat : /\ L = Len(o) /\ K = Len(q)
                                  /\ DOMAIN o = 1 .. L /\ DOMAIN q = 1 .. K
  BY LenProperties
<1>2. PICK w \in Seq(S) : /\ w = o \o q /\ DOMAIN w = 1 .. L + K
                          /\ \A i \in 1 .. L + K : w[i] = IF i <= L THEN o[i] ELSE q[i - L]
  <2>1. /\ o \o q \in Seq(S) /\ Len(o \o q) = Len(o) + Len(q)
        /\ \A i \in 1 .. Len(o) + Len(q) :
              (o \o q)[i] = IF i <= Len(o) THEN o[i] ELSE q[i - Len(o)]
    BY ConcatProperties
  <2>2. DOMAIN (o \o q) = 1 .. L + K BY <1>1, <2>1, LenProperties
  <2> QED BY <1>1, <2>1, <2>2
<1>3. \A i \in 1 .. L : i \in DOMAIN w /\ i \in DOMAIN o /\ w[i] = o[i]
  <2>1. \A i \in 1 .. L : i \in 1 .. L + K /\ i <= L OBVIOUS
  <2> QED BY <1>1, <1>2, <2>1
<1>4. \A i \in 1 .. K : i + L \in DOMAIN w /\ i \in DOMAIN q /\ w[i + L] = q[i]
  <2>1. \A i \in 1 .. K : i + L \in 1 .. L + K /\ ~(i + L <= L) /\ i + L - L = i OBVIOUS
  <2> QED BY <1>1, <1>2, <2>1
<1>5. \A i \in DOMAIN w : i \in 1 .. L \/ \E j \in 1 .. K : i = j + L
  <2>1. ASSUME NEW i \in 1 .. L + K, i \notin 1 .. L PROVE \E j \in 1 .. K : i = j + L
    <3>1. i - L \in 1 .. K /\ i = (i - L) + L BY <2>1
    <3> QED BY <3>1
  <2> QED BY <1>2, <2>1
<1>6. \A x \in Telling(w) : x \in Telling(o) \/ x \in Telling(q)
  <2>1. SUFFICES ASSUME NEW i \in DOMAIN w, "file" \in DOMAIN w[i]
                 PROVE  w[i].file \in Telling(o) \/ w[i].file \in Telling(q)
    BY DEF Telling
  <2>2. CASE i \in 1 .. L BY <1>3, <2>1, <2>2 DEF Telling
  <2>3. CASE \E j \in 1 .. K : i = j + L
    <3>1. PICK j \in 1 .. K : i = j + L BY <2>3
    <3> QED BY <1>4, <2>1, <3>1 DEF Telling
  <2> QED BY <1>5, <2>2, <2>3
<1>7. Telling(o) \subseteq Telling(w)
  <2>1. SUFFICES ASSUME NEW i \in DOMAIN o, "file" \in DOMAIN o[i] PROVE o[i].file \in Telling(w)
    BY DEF Telling
  <2> QED BY <1>1, <1>3, <2>1 DEF Telling
<1>8. Telling(q) \subseteq Telling(w)
  <2>1. SUFFICES ASSUME NEW i \in DOMAIN q, "file" \in DOMAIN q[i] PROVE q[i].file \in Telling(w)
    BY DEF Telling
  <2> QED BY <1>1, <1>4, <2>1 DEF Telling
<1>9. ASSUME NEW i \in DOMAIN w, NEW j \in DOMAIN w, "file" \in DOMAIN w[i], w[i] = w[j]
      PROVE  i = j
  <2>1. CASE i \in 1 .. L /\ j \in 1 .. L BY <1>3, <1>9, <2>1 DEF Once
  <2>2. CASE i \in 1 .. L /\ \E n \in 1 .. K : j = n + L
    <3>1. PICK n \in 1 .. K : j = n + L BY <2>2
    <3>2. w[i].file \in Telling(o) BY <1>3, <1>9, <2>2 DEF Telling
    <3>3. w[i].file \in Telling(q) BY <1>4, <1>9, <3>1 DEF Telling
    <3> QED BY <3>2, <3>3
  <2>3. CASE (\E m \in 1 .. K : i = m + L) /\ j \in 1 .. L
    <3>1. PICK n \in 1 .. K : i = n + L BY <2>3
    <3>2. w[j].file \in Telling(o) BY <1>3, <1>9, <2>3 DEF Telling
    <3>3. w[j].file \in Telling(q) BY <1>4, <1>9, <3>1 DEF Telling
    <3> QED BY <3>2, <3>3
  <2>4. CASE (\E m \in 1 .. K : i = m + L) /\ \E n \in 1 .. K : j = n + L
    <3>1. PICK m \in 1 .. K : i = m + L BY <2>4
    <3>2. PICK n \in 1 .. K : j = n + L BY <2>4
    <3>3. m = n BY <1>4, <1>9, <3>1, <3>2 DEF Once
    <3> QED BY <3>1, <3>2, <3>3
  <2> QED BY <1>5, <2>1, <2>2, <2>3, <2>4
<1> QED BY <1>2, <1>6, <1>7, <1>8, <1>9 DEF Once

(* Frames tell no files.                                                   *)
LEMMA FramesTellNone ==
  ASSUME NEW r, NEW q \in Seq(PacketsOf(r))
  PROVE  q \in Seq(EventsOf(r)) /\ Once(q) /\ Telling(q) = {}
<1>1. PacketsOf(r) \subseteq EventsOf(r) BY DEF EventsOf
<1>2. q \in Seq(EventsOf(r)) BY <1>1, SeqMonotonic
<1>3. \A i \in DOMAIN q : "file" \notin DOMAIN q[i]
  <2>1. \A i \in DOMAIN q : q[i] \in PacketsOf(r) BY LenProperties, ElementOfSeq
  <2> QED BY <2>1, Packets
<1> QED BY <1>2, <1>3 DEF Once, Telling


-----------------------------------------------------------------------------
(* What arrives. *)

(* A sequence is parted after n of its elements.                           *)
LEMMA Parted ==
  ASSUME NEW S, NEW q \in Seq(S), NEW n \in Nat, n <= Len(q)
  PROVE  /\ SubSeq(q, 1, n) \in Seq(S) /\ Len(SubSeq(q, 1, n)) = n
         /\ \A i \in 1 .. n : SubSeq(q, 1, n)[i] = q[i]
         /\ SubSeq(q, n + 1, Len(q)) \in Seq(S) /\ Len(SubSeq(q, n + 1, Len(q))) = Len(q) - n
         /\ \A i \in 1 .. Len(q) - n : SubSeq(q, n + 1, Len(q))[i] = q[n + i]
<1>1. PICK L \in Nat : L = Len(q) /\ \A i \in 1 .. L : q[i] \in S
  BY LenProperties, ElementOfSeq
<1>2. n <= L BY <1>1
<1>3. /\ SubSeq(q, 1, n) \in Seq(S)
      /\ Len(SubSeq(q, 1, n)) = IF 1 <= n THEN n - 1 + 1 ELSE 0
      /\ \A i \in 1 .. n - 1 + 1 : SubSeq(q, 1, n)[i] = q[1 + i - 1]
  <2>1. \A i \in 1 .. n : q[i] \in S
    <3>1. \A i \in 1 .. n : i \in 1 .. L BY <1>2
    <3> QED BY <1>1, <3>1
  <2>2. 1 \in Int /\ n \in Int OBVIOUS
  <2> QED BY <2>1, <2>2, SubSeqProperties
<1>4. /\ SubSeq(q, n + 1, L) \in Seq(S)
      /\ Len(SubSeq(q, n + 1, L)) = IF n + 1 <= L THEN L - (n + 1) + 1 ELSE 0
      /\ \A i \in 1 .. L - (n + 1) + 1 : SubSeq(q, n + 1, L)[i] = q[n + 1 + i - 1]
  <2>1. \A i \in n + 1 .. L : q[i] \in S
    <3>1. \A i \in n + 1 .. L : i \in 1 .. L OBVIOUS
    <3> QED BY <1>1, <3>1
  <2>2. n + 1 \in Int /\ L \in Int OBVIOUS
  <2> QED BY <2>1, <2>2, SubSeqProperties
<1>5. Len(SubSeq(q, 1, n)) = n BY <1>3
<1>6. Len(SubSeq(q, n + 1, L)) = L - n BY <1>2, <1>4
<1>7. ASSUME NEW i \in 1 .. n PROVE SubSeq(q, 1, n)[i] = q[i]
  <2>1. i \in 1 .. n - 1 + 1 /\ 1 + i - 1 = i OBVIOUS
  <2> QED BY <1>3, <2>1
<1>8. ASSUME NEW i \in 1 .. L - n PROVE SubSeq(q, n + 1, L)[i] = q[n + i]
  <2>1. i \in 1 .. L - (n + 1) + 1 /\ n + 1 + i - 1 = n + i OBVIOUS
  <2>2. SubSeq(q, n + 1, L)[i] = q[n + 1 + i - 1] BY <1>4, <2>1
  <2> QED BY <2>1, <2>2
<1> QED BY <1>1, <1>3, <1>4, <1>5, <1>6, <1>7, <1>8

(* Where s, what is at hand, goes on to p with the next n of q, what has    *)
(* not arrived, what starts after a ends where it did.                     *)
Onward(s, q, n, p, a) ==
    /\ Len(p) = Len(s) + n
    /\ p = SubSeq(s \o q, 1, Len(s) + n)
    /\ a # 0 => p[a] = (s \o q)[a]
    /\ SubSeq(p, a + 1, Len(p)) \o SubSeq(q, n + 1, Len(q)) = SubSeq(s \o q, a + 1, Len(s \o q))

(* It does so.                                                             *)
LEMMA MovesOn ==
  ASSUME NEW S, NEW s \in Seq(S), NEW q \in Seq(S), NEW n \in Nat, n <= Len(q),
         NEW p \in Seq(S), p = s \o SubSeq(q, 1, n),
         NEW a \in Nat, a <= Len(p)
  PROVE  Onward(s, q, n, p, a)
<1>1. PICK L \in Nat, K \in Nat : L = Len(s) /\ K = Len(q) /\ n <= K BY LenProperties
<1>2. PICK w \in Seq(S) : /\ w = s \o q /\ Len(w) = L + K
                          /\ \A i \in 1 .. L + K : w[i] = IF i <= L THEN s[i] ELSE q[i - L]
  <2>1. /\ s \o q \in Seq(S) /\ Len(s \o q) = Len(s) + Len(q)
        /\ \A i \in 1 .. Len(s) + Len(q) :
              (s \o q)[i] = IF i <= Len(s) THEN s[i] ELSE q[i - Len(s)]
    BY ConcatProperties
  <2> QED BY <1>1, <2>1
<1>3. PICK h \in Seq(S), t \in Seq(S) :
         /\ h = SubSeq(q, 1, n) /\ Len(h) = n /\ \A i \in 1 .. n : h[i] = q[i]
         /\ t = SubSeq(q, n + 1, Len(q)) /\ Len(t) = K - n /\ \A i \in 1 .. K - n : t[i] = q[n + i]
  <2>1. /\ SubSeq(q, 1, n) \in Seq(S) /\ Len(SubSeq(q, 1, n)) = n
        /\ \A i \in 1 .. n : SubSeq(q, 1, n)[i] = q[i]
        /\ SubSeq(q, n + 1, Len(q)) \in Seq(S) /\ Len(SubSeq(q, n + 1, Len(q))) = Len(q) - n
        /\ \A i \in 1 .. Len(q) - n : SubSeq(q, n + 1, Len(q))[i] = q[n + i]
    BY Parted
  <2> QED BY <1>1, <2>1
<1>4. /\ p \in Seq(S) /\ Len(p) = L + n
      /\ \A i \in 1 .. L + n : p[i] = IF i <= L THEN s[i] ELSE h[i - L]
  <2>1. /\ s \o h \in Seq(S) /\ Len(s \o h) = Len(s) + Len(h)
        /\ \A i \in 1 .. Len(s) + Len(h) :
              (s \o h)[i] = IF i <= Len(s) THEN s[i] ELSE h[i - Len(s)]
    BY ConcatProperties
  <2> QED BY <1>1, <1>3, <2>1
<1>5. PICK P \in Nat : P = L + n /\ P = Len(p) /\ P <= L + K /\ a <= P BY <1>1, <1>4
<1>6. ASSUME NEW i \in 1 .. P PROVE p[i] = w[i]
  <2>1. i \in 1 .. L + n /\ i \in 1 .. L + K BY <1>1, <1>5
  <2>2. CASE i <= L BY <1>2, <1>4, <2>1, <2>2
  <2>3. CASE ~(i <= L)
    <3>1. i - L \in 1 .. n BY <2>1, <2>3
    <3> QED BY <1>2, <1>3, <1>4, <2>1, <2>3, <3>1
  <2> QED BY <2>2, <2>3
<1>7. p = SubSeq(w, 1, P)
  <2>1. P <= Len(w) BY <1>2, <1>5
  <2>2. PICK v \in Seq(S) : v = SubSeq(w, 1, P) /\ Len(v) = P /\ \A i \in 1 .. P : v[i] = w[i]
    <3>1. /\ SubSeq(w, 1, P) \in Seq(S) /\ Len(SubSeq(w, 1, P)) = P
          /\ \A i \in 1 .. P : SubSeq(w, 1, P)[i] = w[i]
      BY <2>1, Parted
    <3> QED BY <3>1
  <2>3. Len(p) = Len(v) /\ \A i \in 1 .. Len(p) : p[i] = v[i] BY <1>5, <1>6, <2>2
  <2> QED BY <1>4, <2>2, <2>3, SeqEqual
<1>8. SubSeq(p, a + 1, P) \o t = SubSeq(w, a + 1, L + K)
  <2>1. PICK u \in Seq(S) : /\ u = SubSeq(p, a + 1, P) /\ Len(u) = P - a
                            /\ \A i \in 1 .. P - a : u[i] = p[a + i]
    <3>1. a <= Len(p) BY <1>5
    <3>2. /\ SubSeq(p, a + 1, Len(p)) \in Seq(S) /\ Len(SubSeq(p, a + 1, Len(p))) = Len(p) - a
          /\ \A i \in 1 .. Len(p) - a : SubSeq(p, a + 1, Len(p))[i] = p[a + i]
      BY <1>4, <3>1, Parted, ZenonT(60)
    <3> QED BY <1>5, <3>2
  <2>2. a <= Len(w) /\ Len(w) = L + K BY <1>2, <1>5
  <2>3. PICK v \in Seq(S) : /\ v = SubSeq(w, a + 1, L + K) /\ Len(v) = L + K - a
                            /\ \A i \in 1 .. L + K - a : v[i] = w[a + i]
    <3>1. /\ SubSeq(w, a + 1, Len(w)) \in Seq(S) /\ Len(SubSeq(w, a + 1, Len(w))) = Len(w) - a
          /\ \A i \in 1 .. Len(w) - a : SubSeq(w, a + 1, Len(w))[i] = w[a + i]
      BY <2>2, Parted
    <3>2. Len(w) - a = L + K - a /\ Len(w) = L + K BY <2>2
    <3>3. PICK v \in Seq(S) : v = SubSeq(w, a + 1, L + K) BY <3>1, <3>2
    <3>4. Len(v) = L + K - a BY <3>1, <3>2, <3>3
    <3>5. ASSUME NEW i \in 1 .. L + K - a PROVE v[i] = w[a + i]
      <4>1. i \in 1 .. Len(w) - a BY <3>2
      <4> QED BY <3>1, <3>2, <3>3, <4>1
    <3> QED BY <3>3, <3>4, <3>5
  <2>4. PICK U \in Nat, T \in Nat : U = P - a /\ T = K - n /\ L + K - a = U + T
    <3>1. P - a \in Nat /\ K - n \in Nat /\ L + K - a = (P - a) + (K - n) BY <1>1, <1>5
    <3> QED BY <3>1
  <2>5. /\ u \o t \in Seq(S) /\ Len(u \o t) = U + T
        /\ \A i \in 1 .. U + T : (u \o t)[i] = IF i <= U THEN u[i] ELSE t[i - U]
    <3>1. /\ u \o t \in Seq(S) /\ Len(u \o t) = Len(u) + Len(t)
          /\ \A i \in 1 .. Len(u) + Len(t) :
                (u \o t)[i] = IF i <= Len(u) THEN u[i] ELSE t[i - Len(u)]
      BY ConcatProperties
    <3>2. Len(u) = U /\ Len(t) = T BY <1>3, <2>1, <2>4
    <3> QED BY <3>1, <3>2
  <2>6. ASSUME NEW i \in 1 .. U + T PROVE (u \o t)[i] = v[i]
    <3>1. v[i] = w[a + i] BY <2>3, <2>4
    <3>2. CASE i <= U
      <4>1. i \in 1 .. U /\ a + i \in 1 .. P BY <1>5, <2>4, <3>2
      <4>2. u[i] = p[a + i] BY <2>1, <2>4, <4>1
      <4>3. p[a + i] = w[a + i] BY <1>6, <4>1
      <4> QED BY <2>5, <3>1, <3>2, <4>2, <4>3
    <3>3. CASE ~(i <= U)
      <4>1. PICK j \in 1 .. T : j = i - U BY <3>3
      <4>2. (u \o t)[i] = t[j] BY <2>5, <3>3, <4>1
      <4>3. t[j] = q[n + j] BY <1>3, <2>4, <4>1
      <4>4. a + i \in 1 .. L + K /\ ~(a + i <= L) /\ a + i - L = n + j
        <5>1. a + i = L + n + j
          <6>1. i \in Int /\ P = L + n /\ U = P - a /\ j = i - U BY <1>5, <2>4, <4>1, SMTT(60)
          <6> QED BY <6>1
        <5>2. n + j \in 1 .. K BY <1>1, <2>4
        <5> QED BY <5>1, <5>2
      <4>5. w[a + i] = q[a + i - L] BY <1>2, <4>4, SMTT(60)
      <4> QED BY <3>1, <4>2, <4>3, <4>4, <4>5
    <3> QED BY <3>2, <3>3
  <2>7. Len(u \o t) = Len(v) /\ \A i \in 1 .. Len(u \o t) : (u \o t)[i] = v[i]
    BY <2>3, <2>4, <2>5, <2>6
  <2>8. u \o t = v BY <2>3, <2>5, <2>7, SeqEqual
  <2> QED BY <2>1, <2>3, <2>8
<1>9. a # 0 => p[a] = w[a] BY <1>5, <1>6, SMTT(60)
<1> QED BY <1>1, <1>2, <1>3, <1>4, <1>5, <1>7, <1>8, <1>9 DEF Onward

(* What is left of what arrives, with what has not arrived, is whole, and  *)
(* so are the frames that are split from it.                               *)
LEMMA ArrivesWhole ==
  ASSUME NEW r, NEW s \in Seq(PacketsOf(r)), NEW q \in Seq(PacketsOf(r)), Whole(s \o q),
         NEW n \in 1 .. Len(q), NEW split, split = Split(s \o SubSeq(q, 1, n))
  PROVE  /\ split.frames \in Seq(Seq(PacketsOf(r)) \ {<<>>})
         /\ split.rest \in Seq(PacketsOf(r)) /\ SubSeq(q, n + 1, Len(q)) \in Seq(PacketsOf(r))
         /\ \A k \in 1 .. Len(split.frames) : Whole(split.frames[k])
         /\ Whole(split.rest \o SubSeq(q, n + 1, Len(q)))
<1>1. PICK K \in Nat : K = Len(q) /\ n \in Nat /\ n <= K BY LenProperties
<1>2. PICK p : p = s \o SubSeq(q, 1, n) OBVIOUS
<1>3. PICK L \in Nat : L = Len(s) BY LenProperties
<1>4. p \in Seq(PacketsOf(r))
  <2>1. SubSeq(q, 1, n) \in Seq(PacketsOf(r)) BY <1>1, Parted
  <2> QED BY <1>2, <2>1, ConcatProperties
<1>5. PICK a \in Nat : /\ a <= Len(p) /\ (a = 0 \/ p[a].part = 3)
                       /\ split.rest = SubSeq(p, a + 1, Len(p))
  BY <1>2, <1>4, SplitCuts
<1>6. PICK w \in Seq(PacketsOf(r)) : w = s \o q /\ Len(w) = L + K /\ Whole(w)
  BY <1>1, <1>3, ConcatProperties
<1>7. /\ p = SubSeq(w, 1, L + n) /\ (a # 0 => p[a] = w[a]) /\ Len(p) = L + n
      /\ SubSeq(q, n + 1, Len(q)) \in Seq(PacketsOf(r))
      /\ SubSeq(p, a + 1, Len(p)) \o SubSeq(q, n + 1, Len(q)) = SubSeq(w, a + 1, L + K)
  <2>1. n <= Len(q) BY <1>1
  <2>2. /\ Len(p) = Len(s) + n /\ SubSeq(q, n + 1, Len(q)) \in Seq(PacketsOf(r))
        /\ p = SubSeq(s \o q, 1, Len(s) + n) /\ (a # 0 => p[a] = (s \o q)[a])
        /\ SubSeq(p, a + 1, Len(p)) \o SubSeq(q, n + 1, Len(q))
              = SubSeq(s \o q, a + 1, Len(s \o q))
    <3>1. n \in Nat /\ a \in Nat /\ a <= Len(p) BY <1>1, <1>5
    <3>2. PICK S : S = PacketsOf(r) OBVIOUS
    <3>3. s \in Seq(S) /\ q \in Seq(S) /\ p \in Seq(S) BY <1>4, <3>2
    <3>4. Onward(s, q, n, p, a) BY <1>2, <2>1, <3>1, <3>3, MovesOn
    <3>5. SubSeq(q, n + 1, Len(q)) \in Seq(S) BY <2>1, <3>1, <3>3, Parted
    <3> QED BY <3>2, <3>4, <3>5 DEF Onward
  <2>3. Len(s) = L /\ Len(s \o q) = L + K /\ w = s \o q BY <1>3, <1>6
  <2> QED BY <2>2, <2>3
<1>8. Whole(p)
  <2>1. 0 + 1 = 1 /\ L + n \in Nat /\ 0 <= L + n /\ L + n <= L + K BY <1>1
  <2>2. Whole(SubSeq(w, 0 + 1, L + n)) BY <1>6, <2>1, WholeCut
  <2> QED BY <1>7, <2>1, <2>2
<1>9. Whole(SubSeq(w, a + 1, L + K))
  <2>1. a <= L + K /\ L + K \in Nat BY <1>1, <1>5, <1>7, SMTT(60)
  <2>2. a = 0 \/ w[a].part = 3 BY <1>5, <1>7
  <2>3. L + K <= Len(w) BY <1>6, <2>1
  <2> QED BY <1>6, <2>1, <2>2, <2>3, WholeCut
<1>10. /\ split.frames \in Seq(Seq(PacketsOf(r)) \ {<<>>}) /\ split.rest \in Seq(PacketsOf(r))
       /\ \A k \in 1 .. Len(split.frames) : Whole(split.frames[k])
  BY <1>2, <1>4, <1>8, SplitCuts
<1> QED BY <1>5, <1>7, <1>9, <1>10

-----------------------------------------------------------------------------
(* The places of what a chat passes on. *)

(* A place tells which part it is.                                         *)
LEMMA Places ==
  ASSUME NEW r, NEW x \in PacketsOf(r)
  PROVE  /\ IsPart(x) /\ Place(x) \in Nat \ {0} /\ x.part \in 1 .. 3
         /\ x.part = 3 <=> Place(x) \in Thirds
         /\ \E m \in Nat : x.frame.before = 3 * m /\ Place(x) = 3 * m + x.part
<1>1. "part" \in DOMAIN x /\ x.part \in 1 .. 3 /\ x.frame \in FramesOf(r) BY Packets
<1>2. PICK m \in Nat : x.frame.before = 3 * m BY <1>1 DEF FramesOf, Thirds
<1>3. PICK p \in 1 .. 3 : p = x.part BY <1>1
<1>4. PICK y : y = Place(x) /\ y = 3 * m + p BY <1>2, <1>3 DEF Place
<1>5. y \in Nat \ {0} BY <1>4
<1>6. ASSUME p = 3 PROVE y \in Thirds
  <2>1. y = 3 * (m + 1) /\ m + 1 \in Nat BY <1>4, <1>6
  <2> QED BY <2>1 DEF Thirds
<1>7. ASSUME y \in Thirds PROVE p = 3
  <2>1. PICK n \in Nat : y = 3 * n BY <1>7 DEF Thirds
  <2> QED BY <1>4, <2>1
<1> QED BY <1>1, <1>2, <1>3, <1>4, <1>5, <1>6, <1>7 DEF IsPart

(* What spans on goes on.                                                  *)
LEMMA SpansJoined ==
  ASSUME NEW S, NEW s \in Seq(S), NEW q \in Seq(S), NEW a \in Nat, NEW b \in Nat, NEW c \in Nat,
         Spans(s, a, b), Spans(q, b, c)
  PROVE  Spans(s \o q, a, c)
<1>1. PICK L \in Nat, K \in Nat : L = Len(s) /\ K = Len(q) BY LenProperties
<1>2. L = b - a /\ K = c - b BY <1>1 DEF Spans
<1>3. PICK w : /\ w = s \o q /\ Len(w) = L + K
               /\ \A i \in 1 .. L + K : w[i] = IF i <= L THEN s[i] ELSE q[i - L]
  <2>1. /\ Len(s \o q) = Len(s) + Len(q)
        /\ \A i \in 1 .. Len(s) + Len(q) :
              (s \o q)[i] = IF i <= Len(s) THEN s[i] ELSE q[i - Len(s)]
    BY ConcatProperties
  <2> QED BY <1>1, <2>1
<1>4. ASSUME NEW i \in 1 .. L + K PROVE Place(w[i]) = a + i
  <2>1. CASE i <= L
    <3>1. i \in 1 .. L /\ w[i] = s[i] BY <1>3, <2>1
    <3> QED BY <1>1, <3>1 DEF Spans
  <2>2. CASE ~(i <= L)
    <3>1. PICK j \in 1 .. K : j = i - L BY <2>2
    <3>2. w[i] = q[j] BY <1>3, <2>2, <3>1
    <3>3. Place(q[j]) = b + j BY <1>1 DEF Spans
    <3>4. b + j = a + i BY <1>2, <3>1
    <3> QED BY <3>2, <3>3, <3>4
  <2> QED BY <2>1, <2>2
<1>5. L + K = c - a BY <1>2
<1> QED BY <1>3, <1>4, <1>5 DEF Spans

(* So does each part of it.                                                *)
LEMMA SpansParted ==
  ASSUME NEW S, NEW q \in Seq(S), NEW n \in Nat, n <= Len(q), NEW b \in Nat, NEW c \in Nat,
         Spans(q, b, c)
  PROVE  /\ b + n \in Nat /\ c - (Len(q) - n) = b + n
         /\ Spans(SubSeq(q, 1, n), b, b + n)
         /\ Spans(SubSeq(q, n + 1, Len(q)), b + n, c)
<1>1. PICK L \in Nat : L = Len(q) /\ L = c - b /\ n <= L BY LenProperties DEF Spans
<1>2. /\ Len(SubSeq(q, 1, n)) = n
      /\ \A i \in 1 .. n : SubSeq(q, 1, n)[i] = q[i]
      /\ Len(SubSeq(q, n + 1, Len(q))) = Len(q) - n
      /\ \A i \in 1 .. Len(q) - n : SubSeq(q, n + 1, Len(q))[i] = q[n + i]
  BY Parted
<1>3. \A i \in 1 .. L : Place(q[i]) = b + i BY <1>1 DEF Spans
<1>4. Spans(SubSeq(q, 1, n), b, b + n)
  <2>1. PICK h : h = SubSeq(q, 1, n) /\ Len(h) = n /\ \A i \in 1 .. n : h[i] = q[i] BY <1>2
  <2>2. \A i \in 1 .. n : i \in 1 .. L BY <1>1
  <2>3. n = b + n - b OBVIOUS
  <2> QED BY <1>3, <2>1, <2>2, <2>3 DEF Spans
<1>5. Spans(SubSeq(q, n + 1, Len(q)), b + n, c)
  <2>1. PICK K \in Nat : K = L - n BY <1>1
  <2>2. PICK t : /\ t = SubSeq(q, n + 1, Len(q)) /\ Len(t) = K
                 /\ \A i \in 1 .. K : t[i] = q[n + i]
    BY <1>1, <1>2, <2>1
  <2>3. ASSUME NEW i \in 1 .. K PROVE Place(t[i]) = b + n + i
    <3>1. PICK j \in 1 .. L : j = n + i BY <1>1, <2>1
    <3>2. Place(q[j]) = b + j /\ t[i] = q[j] BY <1>3, <2>2, <3>1
    <3> QED BY <3>1, <3>2
  <2>4. K = c - (b + n) BY <1>1, <2>1
  <2> QED BY <2>2, <2>3, <2>4 DEF Spans
<1> QED BY <1>1, <1>4, <1>5

(* Where a part is taken, frames and what is left of them go on.           *)
LEMMA TakesMarks ==
  ASSUME NEW r, NEW v \in [frames : Seq(Seq(PacketsOf(r))), rest : Seq(PacketsOf(r))],
         NEW x \in PacketsOf(r), NEW a \in Nat, NEW c \in Nat,
         MarkedUpTo(v.frames, v.rest, a, c), Place(x) = c + 1,
         NEW w, w = Takes(v, x)
  PROVE  MarkedUpTo(w.frames, w.rest, a, c + 1)
<1>1. v.frames \in Seq(Seq(PacketsOf(r))) /\ v.rest \in Seq(PacketsOf(r)) OBVIOUS
<1>2. PICK K \in Nat : K = Len(v.frames) BY <1>1, LenProperties
<1>0. PICK e : /\ Marks(v.frames, e) /\ e[0] = a
               /\ \A k \in 1 .. K : e[k] \in Thirds
               /\ Spans(v.rest, e[K], c)
  BY <1>2 DEF MarkedUpTo
<1>3. PICK b \in Nat : b = e[K]
  <2>1. K \in 0 .. K OBVIOUS
  <2> QED BY <1>0, <1>2, <2>1 DEF Marks
<1>4. PICK L \in Nat : L = Len(v.rest) /\ L = c - b BY <1>0, <1>1, <1>3, LenProperties DEF Spans
<1>5. PICK q \in Seq(PacketsOf(r)) : /\ q = Append(v.rest, x) /\ Len(q) = L + 1
                                     /\ \A i \in 1 .. L : q[i] = v.rest[i]
                                     /\ q[L + 1] = x
  <2>1. /\ Append(v.rest, x) \in Seq(PacketsOf(r)) /\ Len(Append(v.rest, x)) = Len(v.rest) + 1
        /\ \A i \in 1 .. Len(v.rest) : Append(v.rest, x)[i] = v.rest[i]
        /\ Append(v.rest, x)[Len(v.rest) + 1] = x
    BY <1>1, AppendProperties
  <2> QED BY <1>4, <2>1
<1>6. Spans(q, b, c + 1)
  <2>1. ASSUME NEW i \in 1 .. L + 1 PROVE Place(q[i]) = b + i
    <3>1. CASE i = L + 1
      <4>1. c + 1 = b + i BY <1>4, <3>1
      <4> QED BY <1>5, <3>1, <4>1
    <3>2. CASE i # L + 1
      <4>1. i \in 1 .. L BY <3>2
      <4>2. Place(v.rest[i]) = b + i BY <1>0, <1>3, <1>4, <4>1 DEF Spans
      <4> QED BY <1>5, <4>1, <4>2
    <3> QED BY <3>1, <3>2
  <2>2. L + 1 = c + 1 - b BY <1>4
  <2> QED BY <1>5, <2>1, <2>2 DEF Spans
<1>7. CASE x.part = 3
  <2>1. w = [frames |-> Append(v.frames, q), rest |-> <<>>] BY <1>5, <1>7 DEF Takes
  <2>2. PICK F : /\ F = w.frames /\ Len(F) = K + 1
                 /\ \A k \in 1 .. K : F[k] = v.frames[k]
                 /\ F[K + 1] = q
    <3>1. /\ Len(Append(v.frames, q)) = Len(v.frames) + 1
          /\ \A k \in 1 .. Len(v.frames) : Append(v.frames, q)[k] = v.frames[k]
          /\ Append(v.frames, q)[Len(v.frames) + 1] = q
      BY <1>1, AppendProperties
    <3>2. w.frames = Append(v.frames, q) BY <2>1
    <3> QED BY <1>2, <3>1, <3>2
  <2>3. PICK g : g = [k \in 0 .. K + 1 |-> IF k = K + 1 THEN c + 1 ELSE e[k]] OBVIOUS
  <2>4. g[K + 1] = c + 1 /\ \A k \in 0 .. K : g[k] = e[k] /\ e[k] \in Nat
    <3>1. K + 1 \in 0 .. K + 1 /\ \A k \in 0 .. K : k \in 0 .. K + 1 /\ k # K + 1 OBVIOUS
    <3>2. \A k \in 0 .. K : e[k] \in Nat BY <1>0, <1>2 DEF Marks
    <3> QED BY <2>3, <3>1, <3>2
  <2>5. Marks(F, g)
    <3>1. \A k \in 0 .. K + 1 : k \in 0 .. K \/ k = K + 1 OBVIOUS
    <3>2. g \in [0 .. K + 1 -> Nat]
      <4>1. c + 1 \in Nat OBVIOUS
      <4> QED BY <2>3, <2>4, <3>1, <4>1
    <3>3. ASSUME NEW k \in 1 .. K + 1 PROVE Spans(F[k], g[k - 1], g[k])
      <4>1. CASE k = K + 1
        <5>1. k - 1 = K /\ K \in 0 .. K BY <4>1
        <5>2. g[k - 1] = b BY <1>3, <2>4, <5>1
        <5> QED BY <1>6, <2>2, <2>4, <4>1, <5>2
      <4>2. CASE k # K + 1
        <5>1. k \in 1 .. K /\ k \in 0 .. K /\ k - 1 \in 0 .. K BY <4>2
        <5>2. Spans(v.frames[k], e[k - 1], e[k]) BY <1>0, <1>2, <5>1 DEF Marks
        <5> QED BY <2>2, <2>4, <5>1, <5>2
      <4> QED BY <4>1, <4>2
    <3> QED BY <2>2, <3>2, <3>3 DEF Marks
  <2>6. \A k \in 1 .. K + 1 : g[k] \in Thirds
    <3>1. c + 1 \in Thirds BY <1>7, Places
    <3>2. \A k \in 1 .. K + 1 : k = K + 1 \/ (k \in 1 .. K /\ k \in 0 .. K) OBVIOUS
    <3> QED BY <1>0, <2>4, <3>1, <3>2
  <2>7. g[0] = a
    <3>1. 0 \in 0 .. K OBVIOUS
    <3> QED BY <1>0, <2>4, <3>1
  <2>8. Spans(w.rest, c + 1, c + 1)
    <3>1. w.rest = <<>> /\ Len(<<>>) = 0 /\ c + 1 - (c + 1) = 0 BY <2>1
    <3> QED BY <3>1 DEF Spans
  <2> QED BY <2>2, <2>4, <2>5, <2>6, <2>7, <2>8 DEF MarkedUpTo
<1>8. CASE x.part # 3
  <2>1. w = [v EXCEPT !.rest = Append(@, x)] BY <1>8 DEF Takes
  <2>2. w.frames = v.frames /\ w.rest = q BY <1>5, <2>1
  <2> QED BY <1>0, <1>2, <1>3, <1>6, <2>2 DEF MarkedUpTo
<1> QED BY <1>7, <1>8

(* What is split spans what it was split from, and each frame ends with    *)
(* its last part.                                                          *)
LEMMA SplitMarks ==
  ASSUME NEW r, NEW parts \in Seq(PacketsOf(r)), NEW a \in Nat, NEW c \in Nat, Spans(parts, a, c)
  PROVE  MarkedUpTo(Split(parts).frames, Split(parts).rest, a, c)
<1> DEFINE P == PacketsOf(r)
           V == [frames : Seq(Seq(P)), rest : Seq(P)]
<1>1. PICK L \in Nat : L = Len(parts) /\ L = c - a BY LenProperties DEF Spans
<1>2. PICK f : /\ Split(parts) = f[L] /\ f[0] = [frames |-> <<>>, rest |-> <<>>]
               /\ \A n \in 1 .. L : f[n] = Takes(f[n - 1], parts[n])
  BY <1>1, Splits
<1> DEFINE T == {n \in Nat : f[n] \in V /\ MarkedUpTo(f[n].frames, f[n].rest, a, a + n)}
<1>3. 0 \in T
  <2>1. PICK v : v = f[0] /\ v.frames = <<>> /\ v.rest = <<>> BY <1>2
  <2>2. v \in V
    <3>1. <<>> \in Seq(Seq(P)) /\ <<>> \in Seq(P) BY EmptySeq
    <3> QED BY <1>2, <2>1, <3>1
  <2>3. PICK e : e = [k \in 0 .. 0 |-> a] OBVIOUS
  <2>4. e[0] = a /\ e \in [0 .. 0 -> Nat] BY <2>3
  <2>5. Len(<<>>) = 0 /\ a - a = 0 /\ a + 0 = a OBVIOUS
  <2>6. Marks(<<>>, e) BY <2>4, <2>5 DEF Marks
  <2>7. Spans(<<>>, a, a) BY <2>5 DEF Spans
  <2>8. \A k \in 1 .. 0 : e[k] \in Thirds OBVIOUS
  <2>9. MarkedUpTo(v.frames, v.rest, a, a + 0)
    BY <2>1, <2>4, <2>5, <2>6, <2>7, <2>8 DEF MarkedUpTo
  <2> HIDE DEF V
  <2> QED BY <2>1, <2>2, <2>9
<1>4. ASSUME NEW n \in 0 .. L - 1, n \in T PROVE n + 1 \in T
  <2>1. n \in Nat /\ n + 1 \in 1 .. L /\ n + 1 - 1 = n /\ n + 1 \in Nat OBVIOUS
  <2>2. PICK v \in V : v = f[n] BY <1>4
  <2>3. PICK b \in Nat : b = a + n BY <2>1
  <2>4. MarkedUpTo(v.frames, v.rest, a, b) BY <1>4, <2>2, <2>3
  <2>5. PICK x \in P : x = parts[n + 1] BY <1>1, <2>1, ElementOfSeq
  <2>6. Place(x) = b + 1
    <3>1. Place(parts[n + 1]) = a + (n + 1) BY <1>1, <2>1 DEF Spans
    <3>2. a + (n + 1) = b + 1 BY <2>1, <2>3
    <3> QED BY <2>5, <3>1, <3>2
  <2>7. PICK w : w = f[n + 1] /\ w = Takes(v, x) BY <1>2, <2>1, <2>2, <2>5
  <2>8. MarkedUpTo(w.frames, w.rest, a, b + 1) BY <2>4, <2>6, <2>7, TakesMarks
  <2>9. w \in V
    <3>1. Append(v.rest, x) \in Seq(P) BY AppendProperties
    <3>2. Append(v.frames, Append(v.rest, x)) \in Seq(Seq(P)) BY <3>1, AppendProperties
    <3>3. <<>> \in Seq(P) BY EmptySeq
    <3>4. CASE x.part = 3 BY <2>7, <3>2, <3>3, <3>4 DEF Takes
    <3>5. CASE x.part # 3
      <4>1. PICK t \in Seq(P) : t = Append(v.rest, x) BY <3>1
      <4>2. w = [v EXCEPT !.rest = t] BY <2>7, <3>5, <4>1 DEF Takes
      <4>3. w = [frames |-> v.frames, rest |-> t] BY <4>2
      <4> QED BY <4>3
    <3> QED BY <3>4, <3>5
  <2>10. b + 1 = a + (n + 1) BY <2>1, <2>3
  <2> HIDE DEF V
  <2> QED BY <2>1, <2>7, <2>8, <2>9, <2>10
<1>5. \A n \in 0 .. L : n \in T
  <2> HIDE DEF T
  <2> QED BY <1>3, <1>4, UpFromZero
<1>6. L \in T
  <2>1. L \in 0 .. L OBVIOUS
  <2> QED BY <1>5, <2>1
<1>7. a + L = c BY <1>1
<1>8. MarkedUpTo(f[L].frames, f[L].rest, a, c) BY <1>6, <1>7
<1> QED BY <1>2, <1>8

(* What was received, and what is received next.                           *)
LEMMA PassedJoined ==
  ASSUME NEW S, NEW o \in Seq(S), NEW q \in Seq(S)
  PROVE  /\ \A i \in 0 .. Len(o) : Passed(o \o q, i) = Passed(o, i)
         /\ \A i \in 0 .. Len(q) :
               Passed(o \o q, Len(o) + i) = Passed(o, Len(o)) \cup Passed(q, i)
<1>1. PICK L \in Nat, K \in Nat : L = Len(o) /\ K = Len(q) BY LenProperties
<1>2. PICK w : /\ w = o \o q
               /\ \A i \in 1 .. L + K : w[i] = IF i <= L THEN o[i] ELSE q[i - L]
  <2>1. \A i \in 1 .. Len(o) + Len(q) :
            (o \o q)[i] = IF i <= Len(o) THEN o[i] ELSE q[i - Len(o)]
    BY ConcatProperties
  <2> QED BY <1>1, <2>1
<1>3. \A i \in 1 .. L : w[i] = o[i]
  <2>1. \A i \in 1 .. L : i \in 1 .. L + K /\ i <= L OBVIOUS
  <2> QED BY <1>2, <2>1
<1>4. ASSUME NEW i \in 1 .. K PROVE w[L + i] = q[i]
  <2>1. PICK j \in 1 .. L + K : j = L + i /\ ~(j <= L) /\ j - L = i
    <3>1. L + i \in 1 .. L + K /\ ~(L + i <= L) /\ L + i - L = i OBVIOUS
    <3> QED BY <3>1
  <2> QED BY <1>2, <2>1
<1>5. ASSUME NEW i \in 0 .. L PROVE Passed(w, i) = Passed(o, i)
  <2>1. \A m \in 1 .. i : m \in 1 .. L OBVIOUS
  <2>2. \A m \in 1 .. i : w[m] = o[m] BY <1>3, <2>1
  <2> QED BY <2>2 DEF Passed
<1>6. ASSUME NEW i \in 0 .. K PROVE Passed(w, L + i) = Passed(o, L) \cup Passed(q, i)
  <2>1. \A m \in 1 .. i : w[L + m] = q[m]
    <3>1. \A m \in 1 .. i : m \in 1 .. K OBVIOUS
    <3> QED BY <1>4, <3>1
  <2>2. ASSUME NEW y \in Passed(w, L + i) PROVE y \in Passed(o, L) \cup Passed(q, i)
    <3>1. PICK m \in 1 .. L + i : IsPart(w[m]) /\ y = Place(w[m]) BY DEF Passed
    <3>2. CASE m \in 1 .. L BY <1>3, <3>1, <3>2 DEF Passed
    <3>3. CASE m \notin 1 .. L
      <4>1. PICK j \in 1 .. i : m = L + j
        <5>1. m - L \in 1 .. i /\ m = L + (m - L) BY <3>3
        <5> QED BY <5>1
      <4>2. w[m] = q[j] BY <2>1, <4>1
      <4> QED BY <3>1, <4>2 DEF Passed
    <3> QED BY <3>2, <3>3
  <2>3. ASSUME NEW y \in Passed(o, L) PROVE y \in Passed(w, L + i)
    <3>1. PICK m \in 1 .. L : IsPart(o[m]) /\ y = Place(o[m]) BY DEF Passed
    <3>2. m \in 1 .. L + i /\ w[m] = o[m] BY <1>3
    <3> QED BY <3>1, <3>2 DEF Passed
  <2>4. ASSUME NEW y \in Passed(q, i) PROVE y \in Passed(w, L + i)
    <3>1. PICK m \in 1 .. i : IsPart(q[m]) /\ y = Place(q[m]) BY DEF Passed
    <3>2. L + m \in 1 .. L + i /\ w[L + m] = q[m] BY <2>1
    <3> QED BY <3>1, <3>2 DEF Passed
  <2> QED BY <2>2, <2>3, <2>4
<1> QED BY <1>1, <1>2, <1>5, <1>6

(* What spans what comes next keeps the order.                             *)
LEMMA InOrderJoined ==
  ASSUME NEW r, NEW o \in Seq(EventsOf(r)), NEW q \in Seq(PacketsOf(r)), NEW a \in Nat, NEW b \in Nat,
         InOrder(o, a), Spans(q, a, b)
  PROVE  InOrder(o \o q, b)
<1>1. PICK L \in Nat, K \in Nat : L = Len(o) /\ K = Len(q) BY LenProperties
<1>2. q \in Seq(EventsOf(r)) BY FramesTellNone
<1>3. PICK w : /\ w = o \o q /\ Len(w) = L + K
               /\ \A i \in 1 .. L + K : w[i] = IF i <= L THEN o[i] ELSE q[i - L]
  <2>1. /\ Len(o \o q) = Len(o) + Len(q)
        /\ \A i \in 1 .. Len(o) + Len(q) :
              (o \o q)[i] = IF i <= Len(o) THEN o[i] ELSE q[i - Len(o)]
    BY <1>2, ConcatProperties
  <2> QED BY <1>1, <2>1
<1>4. /\ \A i \in 0 .. L : Passed(w, i) = Passed(o, i)
      /\ \A i \in 0 .. K : Passed(w, L + i) = Passed(o, L) \cup Passed(q, i)
  BY <1>1, <1>2, <1>3, PassedJoined
<1>5. K = b - a /\ \A i \in 1 .. K : IsPart(q[i]) /\ Place(q[i]) = a + i
  <2>1. \A i \in 1 .. K : q[i] \in PacketsOf(r) BY <1>1, ElementOfSeq
  <2> QED BY <1>1, <2>1, Places DEF Spans
<1>6. ASSUME NEW i \in 0 .. K PROVE Passed(w, L + i) = 1 .. (a + i)
  <2>1. Passed(o, L) = 1 .. a BY <1>1 DEF InOrder
  <2>2. \A m \in 1 .. i : IsPart(q[m]) /\ Place(q[m]) = a + m
    <3>1. \A m \in 1 .. i : m \in 1 .. K OBVIOUS
    <3> QED BY <1>5, <3>1
  <2>3. Passed(q, i) = {a + m : m \in 1 .. i} BY <2>2 DEF Passed
  <2>4. ASSUME NEW y \in 1 .. (a + i), y \notin 1 .. a PROVE y \in {a + m : m \in 1 .. i}
    <3>1. y - a \in 1 .. i /\ y = a + (y - a) BY <2>4
    <3> QED BY <3>1
  <2>5. \A m \in 1 .. i : a + m \in 1 .. (a + i) OBVIOUS
  <2>6. \A y \in 1 .. a : y \in 1 .. (a + i) OBVIOUS
  <2>7. Passed(w, L + i) = 1 .. a \cup {a + m : m \in 1 .. i} BY <1>4, <2>1, <2>3
  <2> QED BY <2>4, <2>5, <2>6, <2>7
<1>7. Passed(w, L + K) = 1 .. b
  <2>1. K \in 0 .. K /\ a + K = b BY <1>5
  <2> QED BY <1>6, <2>1
<1>8. ASSUME NEW i \in 1 .. L + K, IsPart(w[i]) PROVE Passed(w, i - 1) = 1 .. (Place(w[i]) - 1)
  <2>1. CASE i <= L
    <3>1. i \in 1 .. L /\ i - 1 \in 0 .. L /\ w[i] = o[i] BY <1>3, <2>1
    <3>2. Passed(o, i - 1) = 1 .. (Place(o[i]) - 1) BY <1>1, <1>8, <3>1 DEF InOrder
    <3> QED BY <1>4, <3>1, <3>2
  <2>2. CASE ~(i <= L)
    <3>1. PICK j \in 1 .. K : j = i - L BY <2>2
    <3>2. w[i] = q[j] BY <1>3, <2>2, <3>1
    <3>3. Place(w[i]) = a + j BY <1>5, <3>2
    <3>4. j - 1 \in 0 .. K /\ i - 1 = L + (j - 1) /\ a + (j - 1) = a + j - 1 BY <3>1
    <3>5. Passed(w, L + (j - 1)) = 1 .. (a + (j - 1)) BY <1>6, <3>4
    <3> QED BY <3>3, <3>4, <3>5
  <2> QED BY <2>1, <2>2
<1> QED BY <1>3, <1>7, <1>8 DEF InOrder

(* What has no parts changes nothing of it.                                *)
LEMMA InOrderTold ==
  ASSUME NEW S, NEW o \in Seq(S), NEW q \in Seq(S), NEW a, InOrder(o, a),
         \A i \in 1 .. Len(q) : ~IsPart(q[i])
  PROVE  InOrder(o \o q, a)
<1>1. PICK L \in Nat, K \in Nat : L = Len(o) /\ K = Len(q) BY LenProperties
<1>3. PICK w : /\ w = o \o q /\ Len(w) = L + K
               /\ \A i \in 1 .. L + K : w[i] = IF i <= L THEN o[i] ELSE q[i - L]
  <2>1. /\ Len(o \o q) = Len(o) + Len(q)
        /\ \A i \in 1 .. Len(o) + Len(q) :
              (o \o q)[i] = IF i <= Len(o) THEN o[i] ELSE q[i - Len(o)]
    BY ConcatProperties
  <2> QED BY <1>1, <2>1
<1>4. /\ \A i \in 0 .. L : Passed(w, i) = Passed(o, i)
      /\ \A i \in 0 .. K : Passed(w, L + i) = Passed(o, L) \cup Passed(q, i)
  BY <1>1, <1>3, PassedJoined
<1>5. Passed(w, L + K) = 1 .. a
  <2>1. Passed(q, K) = {} BY <1>1 DEF Passed
  <2>2. K \in 0 .. K OBVIOUS
  <2> QED BY <1>1, <1>4, <2>1, <2>2 DEF InOrder
<1>6. ASSUME NEW i \in 1 .. L + K, IsPart(w[i]) PROVE Passed(w, i - 1) = 1 .. (Place(w[i]) - 1)
  <2>1. CASE i <= L
    <3>1. i \in 1 .. L /\ i - 1 \in 0 .. L /\ w[i] = o[i] BY <1>3, <2>1
    <3>2. Passed(o, i - 1) = 1 .. (Place(o[i]) - 1) BY <1>1, <1>6, <3>1 DEF InOrder
    <3> QED BY <1>4, <3>1, <3>2
  <2>2. CASE ~(i <= L)
    <3>1. PICK j \in 1 .. K : j = i - L BY <2>2
    <3>2. w[i] = q[j] BY <1>3, <2>2, <3>1
    <3> QED BY <1>1, <1>6, <3>2
  <2> QED BY <2>1, <2>2
<1> QED BY <1>3, <1>5, <1>6 DEF InOrder

-----------------------------------------------------------------------------
(* Every step keeps the invariant. *)

(* What is read of the answer stays as it is.                              *)
LEMMA SameRun ==
  ASSUME AnswerIsConfirmed, RunFollows, UNCHANGED <<reader, answer, filter>>,
         reader = "run" /\ stage' = "reading" => stage = "reading"
  PROVE  RunFollows' /\ AnswerIsConfirmed'
<1>1. RunFollows' BY DEF RunFollows
<1>2. AnswerIsConfirmed' BY DEF AnswerIsConfirmed
<1> QED BY <1>1, <1>2

(* So does what a client was told.                                         *)
LEMMA SameTold ==
  ASSUME Whole(out), ToldOnce, UNCHANGED <<out, told, existing>>
  PROVE  Whole(out)' /\ ToldOnce'
<1>1. Whole(out)' OBVIOUS
<1>2. ToldOnce' BY DEF ToldOnce
<1> QED BY <1>1, <1>2

(* What was received and what follows it stay where they are.              *)
LEMMA SamePlaces ==
  ASSUME InPlace, UNCHANGED <<reader, open, sent, flow, buffer, frames, out>>,
         stage' = stage \/ stage' = "left"
  PROVE  InPlace'
<1>1. CASE reader = "chat"
  <2>0. PICK e : \E b \in Nat : Placed(e, b) BY <1>1 DEF InPlace
  <2>1. PICK b \in Nat : Placed(e, b) BY <2>0
  <2>2. Ends' = Ends BY DEF Ends
  <2>3. Placed(e, b)' BY <2>1, <2>2 DEF Placed
  <2> QED BY <1>1, <2>3 DEF InPlace
<1>2. CASE reader # "chat" BY <1>2 DEF InPlace
<1> QED BY <1>1, <1>2

(* A frame that is sent follows what was sent.                             *)
LEMMA SendsInPlace ==
  ASSUME Inv, NEW f \in FramesOf(reader), Send(f), f.before = sent
  PROVE  InPlace' /\ sent' \in Nat /\ sent' \in Thirds
<1>1. /\ open /\ flow' = flow \o Parts(f)
      /\ sent' = IF reader = "chat" THEN sent + 3 ELSE sent
      /\ UNCHANGED <<open, reader, stage, buffer, frames, out>>
  BY DEF Send
<1>2. PICK s \in Nat, t \in Nat : s = sent /\ t = s + 3 /\ s \in Thirds /\ t \in Thirds
  <2>1. PICK n \in Nat : sent = 3 * n BY <1>1 DEF Inv, TypeOK, Thirds
  <2>2. sent \in Nat /\ sent + 3 \in Nat /\ sent + 3 = 3 * (n + 1) /\ n + 1 \in Nat BY <2>1
  <2> QED BY <2>1, <2>2 DEF Thirds
<1>3. PICK P : P = PacketsOf(reader) OBVIOUS
<1>4. flow \in Seq(P) BY <1>3 DEF Inv, TypeOK
<1>5. PICK q \in Seq(P) : q = Parts(f) BY <1>3, PartsWhole
<1>6. Spans(q, s, t)
  <2>1. q = [p \in 1 .. 3 |-> [frame |-> f, part |-> p]] BY <1>5 DEF Parts
  <2>2. DOMAIN q = 1 .. 3 BY <2>1
  <2>3. Len(q) = 3
    <3>1. Len(q) \in Nat /\ DOMAIN q = 1 .. Len(q) BY <1>5, LenProperties
    <3> QED BY <2>2, <3>1
  <2>4. \A i \in 1 .. 3 : Place(q[i]) = s + i BY <1>2, <2>1 DEF Place
  <2> QED BY <1>2, <2>3, <2>4 DEF Spans
<1>7. CASE reader = "chat"
  <2>0. PICK e : \E b \in Nat : Placed(e, b) BY <1>7 DEF Inv, InPlace
  <2>1. PICK b \in Nat : Placed(e, b) BY <2>0
  <2>2. sent' = t BY <1>1, <1>2, <1>7
  <2>3. Spans(flow', b, t)
    <3>1. Spans(flow, b, s) BY <1>2, <2>1 DEF Placed
    <3> QED BY <1>1, <1>4, <1>5, <1>6, <3>1, SpansJoined
  <2>4. Ends' = Ends BY <1>1 DEF Ends
  <2>5. Placed(e, b)' BY <1>1, <2>1, <2>2, <2>3, <2>4 DEF Placed
  <2> QED BY <1>1, <1>2, <1>7, <2>2, <2>5 DEF Inv, InPlace
<1>8. CASE reader = "run" BY <1>1, <1>2, <1>8 DEF Inv, InPlace
<1> QED BY <1>7, <1>8 DEF Inv, TypeOK

(* What was on its way and is lost was the last that was sent.             *)
LEMMA HangsInPlace ==
  ASSUME Inv, Hangs
  PROVE  InPlace' /\ sent' \in Nat
<1>1. open /\ open' = FALSE /\ UNCHANGED <<reader, stage, buffer, frames, out>> BY DEF Hangs
<1>2. PICK P : P = PacketsOf(reader) OBVIOUS
<1>3. flow \in Seq(P) /\ sent \in Nat BY <1>2 DEF Inv, TypeOK
<1>4. PICK n \in Nat : /\ n <= Len(flow) /\ flow' = SubSeq(flow, 1, n)
                       /\ sent' = IF reader = "chat" THEN sent - (Len(flow) - n) ELSE sent
  <2>1. PICK n \in 0 .. Len(flow) :
           /\ flow' = SubSeq(flow, 1, n)
           /\ sent' = IF reader = "chat" THEN sent - (Len(flow) - n) ELSE sent
    BY DEF Hangs
  <2>2. n \in Nat /\ n <= Len(flow) BY <1>3, LenProperties
  <2> QED BY <2>1, <2>2
<1>5. CASE reader = "chat"
  <2>0. PICK e : \E b \in Nat : Placed(e, b) BY <1>5 DEF Inv, InPlace
  <2>1. PICK b \in Nat : Placed(e, b) BY <2>0
  <2>2. Spans(flow', b, sent') /\ sent' \in Nat
    <3>1. Spans(flow, b, sent) BY <2>1 DEF Placed
    <3>2. b + n \in Nat /\ sent - (Len(flow) - n) = b + n /\ Spans(SubSeq(flow, 1, n), b, b + n)
      BY <1>3, <1>4, <3>1, SpansParted
    <3> QED BY <1>4, <1>5, <3>2
  <2>3. Ends \subseteq Ends' BY <1>1 DEF Ends
  <2>4. Placed(e, b)' BY <1>1, <2>1, <2>2, <2>3 DEF Placed
  <2> QED BY <1>1, <1>5, <2>2, <2>4 DEF Inv, InPlace
<1>6. CASE reader = "run" BY <1>1, <1>3, <1>4, <1>6 DEF Inv, InPlace
<1> QED BY <1>5, <1>6 DEF Inv, TypeOK

(* What is split from what arrives follows what was received.              *)
LEMMA ReceivesInPlace ==
  ASSUME Inv, Receives
  PROVE  InPlace'
<1>1. /\ reader = "chat" /\ stage = "reading"
      /\ UNCHANGED <<reader, open, sent, out>>
  BY DEF Receives
<1>2. PICK P : P = PacketsOf(reader) OBVIOUS
<1>3. flow \in Seq(P) /\ buffer \in Seq(P) /\ sent \in Nat BY <1>2 DEF Inv, TypeOK
<1>4. PICK n \in 1 .. Len(flow) :
        \E split : /\ split = Split(buffer \o SubSeq(flow, 1, n))
                   /\ frames' = split.frames /\ buffer' = split.rest
                   /\ flow' = SubSeq(flow, n + 1, Len(flow))
                   /\ stage' = IF split.frames = <<>> THEN "reading" ELSE "passing"
  BY DEF Receives
<1>5. n \in Nat /\ n <= Len(flow) BY <1>3, LenProperties
<1>6. PICK parts : parts = buffer \o SubSeq(flow, 1, n) OBVIOUS
<1>7. /\ frames' = Split(parts).frames /\ buffer' = Split(parts).rest
      /\ flow' = SubSeq(flow, n + 1, Len(flow))
      /\ stage' = IF frames' = <<>> THEN "reading" ELSE "passing"
  BY <1>4, <1>6
<1>0. PICK e : \E b \in Nat : Placed(e, b) BY <1>1 DEF Inv, InPlace
<1>8. PICK b \in Nat : Placed(e, b) BY <1>0
<1>9. PICK a \in Nat : a = e[0] /\ a \in Ends /\ Spans(buffer, a, b) /\ InOrder(out, a)
  <2>1. frames = <<>> BY <1>1 DEF Inv, InPlace
  <2>2. Len(frames) = 0 /\ 0 \in 0 .. 0 BY <2>1
  <2>3. e[0] \in Ends /\ Spans(buffer, e[0], b) /\ InOrder(out, e[0])
    BY <1>1, <1>8, <2>2 DEF Placed
  <2> QED BY <2>3 DEF Ends
<1>10. PICK c \in Nat : /\ c = b + n /\ Spans(SubSeq(flow, 1, n), b, c)
                        /\ Spans(flow', c, sent)
  <2>1. Spans(flow, b, sent) BY <1>8 DEF Placed
  <2>2. /\ b + n \in Nat /\ Spans(SubSeq(flow, 1, n), b, b + n)
        /\ Spans(SubSeq(flow, n + 1, Len(flow)), b + n, sent)
    BY <1>3, <1>5, <2>1, SpansParted
  <2> QED BY <1>7, <2>2
<1>11. parts \in Seq(P) /\ Spans(parts, a, c)
  <2>1. SubSeq(flow, 1, n) \in Seq(P) BY <1>3, <1>5, Parted
  <2>2. parts \in Seq(P) BY <1>3, <1>6, <2>1, ConcatProperties
  <2>3. Spans(parts, a, c) BY <1>3, <1>6, <1>9, <1>10, <2>1, SpansJoined
  <2> QED BY <2>2, <2>3
<1>12. MarkedUpTo(frames', buffer', a, c) BY <1>2, <1>7, <1>11, SplitMarks
<1>13. PICK g : /\ Marks(frames', g) /\ g[0] = a
                /\ \A k \in 1 .. Len(frames') : g[k] \in Thirds
                /\ Spans(buffer', g[Len(frames')], c)
  BY <1>12 DEF MarkedUpTo
<1>14. Ends' = Ends BY <1>1 DEF Ends
<1>15. \A k \in 0 .. Len(frames') : g[k] \in Ends
  <2>1. \A k \in 0 .. Len(frames') : g[k] \in Nat BY <1>13 DEF Marks
  <2>2. \A k \in 0 .. Len(frames') : k = 0 \/ k \in 1 .. Len(frames') OBVIOUS
  <2> QED BY <1>9, <1>13, <2>1, <2>2 DEF Ends
<1>16. stage' \in {"reading", "passing"} /\ (stage' = "reading" => frames' = <<>>) BY <1>7
<1>17. Placed(g, c)' BY <1>1, <1>9, <1>10, <1>13, <1>14, <1>15, <1>16 DEF Placed
<1> QED BY <1>1, <1>16, <1>17 DEF InPlace

(* What is left at the end of the stream is the last that was sent.        *)
LEMMA ReachesEndInPlace ==
  ASSUME Inv, ReachesEnd
  PROVE  InPlace'
<1>1. /\ reader = "chat" /\ stage = "reading" /\ ~open /\ flow = <<>>
      /\ UNCHANGED <<reader, open, sent, flow, out>>
  BY DEF ReachesEnd, wireVars
<1>0. PICK e : \E b \in Nat : Placed(e, b) BY <1>1 DEF Inv, InPlace
<1>2. PICK b \in Nat : Placed(e, b) BY <1>0
<1>3. frames = <<>> /\ Len(frames) = 0
  <2>1. frames = <<>> BY <1>1 DEF Inv, InPlace
  <2> QED BY <2>1
<1>4. PICK a \in Nat : /\ a = e[0] /\ a \in Ends /\ Spans(buffer, a, b) /\ InOrder(out, a)
  <2>1. 0 \in 0 .. 0 OBVIOUS
  <2>2. e[0] \in Ends /\ Spans(buffer, e[0], b) /\ InOrder(out, e[0])
    BY <1>1, <1>2, <1>3, <2>1 DEF Placed
  <2> QED BY <2>2 DEF Ends
<1>5. b = sent
  <2>1. Len(flow) = sent - b /\ Len(flow) = 0 /\ sent \in Nat
    BY <1>1, <1>2 DEF Placed, Spans, Inv, TypeOK
  <2> QED BY <2>1
<1>6. Ends' = Ends BY <1>1 DEF Ends
<1>7. CASE buffer = <<>>
  <2>1. stage' = "relayed" /\ frames' = <<>> /\ buffer' = <<>> BY <1>7 DEF ReachesEnd
  <2>2. a = sent
    <3>1. Len(buffer) = b - a /\ Len(buffer) = 0 BY <1>4, <1>7 DEF Spans
    <3> QED BY <1>5, <3>1
  <2>3. frames' = frames BY <1>3, <2>1
  <2>4. Placed(e, b)' BY <1>1, <1>2, <1>4, <1>6, <2>1, <2>2, <2>3 DEF Placed
  <2> QED BY <1>1, <2>1, <2>4 DEF InPlace
<1>8. CASE buffer # <<>>
  <2>1. stage' = "passing" /\ frames' = <<buffer>> /\ buffer' = <<>> BY <1>8 DEF ReachesEnd
  <2>2. PICK F : F = <<buffer>> /\ Len(F) = 1 /\ F[1] = buffer /\ F = frames' BY <2>1
  <2>3. PICK g : g = [k \in 0 .. 1 |-> IF k = 0 THEN a ELSE b] OBVIOUS
  <2>4. /\ g[0] = a /\ g[1] = b /\ g \in [0 .. 1 -> Nat]
        /\ \A k \in 0 .. 1 : k = 0 \/ k = 1
        /\ \A k \in 1 .. 1 : k = 1 /\ k - 1 = 0
    BY <2>3
  <2>5. Marks(F, g) BY <1>4, <2>2, <2>4 DEF Marks
  <2>6. \A k \in 0 .. 1 : g[k] \in Ends
    <3>1. b \in Ends BY <1>1, <1>5 DEF Ends
    <3> QED BY <1>4, <2>4, <3>1
  <2>7. Spans(<<>>, b, b)
    <3>1. Len(<<>>) = 0 /\ b - b = 0 OBVIOUS
    <3> QED BY <3>1 DEF Spans
  <2>8. Spans(flow, b, sent) BY <1>2 DEF Placed
  <2>9. Placed(g, b)' BY <1>1, <1>4, <1>6, <2>1, <2>2, <2>4, <2>5, <2>6, <2>7, <2>8 DEF Placed
  <2> QED BY <1>1, <2>1, <2>9 DEF InPlace
<1> QED BY <1>7, <1>8

(* The frame that is passed on follows what was received.                  *)
LEMMA PassesOnInPlace ==
  ASSUME Inv, PassesOn
  PROVE  InPlace'
<1>1. /\ reader = "chat" /\ stage = "passing"
      /\ UNCHANGED <<reader, open, sent, flow, buffer>>
      /\ out' = out \o Head(frames) /\ frames' = Tail(frames)
      /\ stage' \in {"looking", AfterFrame(Tail(frames))}
  BY DEF PassesOn, wireVars
<1>2. PICK F : F = Seq(PacketsOf(reader)) \ {<<>>} OBVIOUS
<1>3. frames \in Seq(F) /\ frames # <<>> /\ out \in Seq(EventsOf(reader))
  BY <1>1, <1>2 DEF Inv, TypeOK, RestIsWhole
<1>4. PICK K \in Nat, q \in F, rest \in Seq(F) :
        /\ q = Head(frames) /\ rest = Tail(frames) /\ q = frames[1]
        /\ Len(frames) = K + 1 /\ Len(rest) = K
        /\ \A k \in 1 .. K : rest[k] = frames[k + 1]
  <2>1. Len(frames) \in Nat \ {0} BY <1>3, EmptySeq
  <2>2. /\ Head(frames) = frames[1] /\ Head(frames) \in F /\ Tail(frames) \in Seq(F)
        /\ Len(Tail(frames)) = Len(frames) - 1
        /\ \A k \in 1 .. Len(Tail(frames)) : Tail(frames)[k] = frames[k + 1]
    BY <1>3, HeadTailProperties
  <2>3. PICK K \in Nat : K = Len(frames) - 1 /\ Len(frames) = K + 1 BY <2>1
  <2> QED BY <2>2, <2>3
<1>0. PICK e : \E b \in Nat : Placed(e, b) BY <1>1 DEF Inv, InPlace
<1>5. PICK b \in Nat : Placed(e, b) BY <1>0
<1>6. PICK g : g = [k \in 0 .. K |-> e[k + 1]] OBVIOUS
<1>7. /\ \A k \in 0 .. K : g[k] = e[k + 1]
      /\ e \in [0 .. K + 1 -> Nat] /\ \A k \in 1 .. K + 1 : Spans(frames[k], e[k - 1], e[k])
      /\ \A k \in 0 .. K + 1 : e[k] \in Ends
      /\ \A k \in 0 .. K : k + 1 \in 0 .. K + 1 /\ k + 1 \in 1 .. K + 1
  BY <1>4, <1>5, <1>6 DEF Placed, Marks
<1>8. Marks(rest, g)
  <2>1. g \in [0 .. K -> Nat] BY <1>6, <1>7
  <2>2. ASSUME NEW k \in 1 .. K PROVE Spans(rest[k], g[k - 1], g[k])
    <3>1. k \in 0 .. K /\ k - 1 \in 0 .. K /\ k - 1 + 1 = k /\ k + 1 - 1 = k OBVIOUS
    <3>2. Spans(frames[k + 1], e[k + 1 - 1], e[k + 1]) BY <1>7, <3>1
    <3>3. g[k - 1] = e[k] /\ g[k] = e[k + 1] BY <1>7, <3>1
    <3>4. rest[k] = frames[k + 1] BY <1>4
    <3> QED BY <3>1, <3>2, <3>3, <3>4
  <2> QED BY <1>4, <2>1, <2>2 DEF Marks
<1>9. InOrder(out', g[0])
  <2>1. 0 \in 0 .. K /\ 0 + 1 = 1 /\ 1 - 1 = 0 /\ 1 \in 1 .. K + 1 OBVIOUS
  <2>2. g[0] = e[1] BY <1>7, <2>1
  <2>3. Spans(q, e[0], e[1]) BY <1>4, <1>7, <2>1
  <2>4. e[0] \in Nat /\ e[1] \in Nat
    <3>1. 0 \in 0 .. K + 1 /\ 1 \in 0 .. K + 1 OBVIOUS
    <3> QED BY <1>7, <3>1
  <2>5. InOrder(out, e[0]) BY <1>5 DEF Placed
  <2>6. q \in Seq(PacketsOf(reader)) BY <1>2, <1>4
  <2>7. InOrder(out \o q, e[1]) BY <1>3, <2>3, <2>4, <2>5, <2>6, InOrderJoined
  <2> QED BY <1>1, <1>4, <2>2, <2>7
<1>10. \A k \in 0 .. K : g[k] \in Ends BY <1>7
<1>11. g[K] = e[K + 1]
  <2>1. K \in 0 .. K OBVIOUS
  <2> QED BY <1>7, <2>1
<1>12. Spans(buffer, e[K + 1], b) /\ Spans(flow, b, sent) BY <1>1, <1>4, <1>5 DEF Placed
<1>13. Ends' = Ends BY <1>1 DEF Ends
<1>14. frames' = rest /\ Len(frames') = K BY <1>1, <1>4
<1>15. stage' \in {"looking", "passing", "reading"} /\ (stage' = "reading" => frames' = <<>>)
  BY <1>1 DEF AfterFrame
<1>16. Placed(g, b)'
  BY <1>1, <1>8, <1>9, <1>10, <1>11, <1>12, <1>13, <1>14, <1>15 DEF Placed
<1> QED BY <1>1, <1>15, <1>16 DEF InPlace

(* What a chat tells of files has no place.                                *)
LEMMA LooksInPlace ==
  ASSUME Inv, LooksForFiles, NEW q \in Seq(EventsOf(reader)), out' = out \o q,
         \A i \in 1 .. Len(q) : ~IsPart(q[i])
  PROVE  InPlace'
<1>1. /\ reader = "chat" /\ UNCHANGED <<reader, open, sent, flow, buffer, frames>>
      /\ \/ stage = "looking" /\ stage' = AfterFrame(frames)
         \/ stage = "relayed" /\ stage' = "closing"
         \/ stage = "closing" /\ stage' = "ended"
  BY DEF LooksForFiles, wireVars
<1>2. out \in Seq(EventsOf(reader)) BY DEF Inv, TypeOK
<1>0. PICK e : \E b \in Nat : Placed(e, b) BY <1>1 DEF Inv, InPlace
<1>3. PICK b \in Nat : Placed(e, b) BY <1>0
<1>4. InOrder(out', e[0])
  <2>1. InOrder(out, e[0]) BY <1>3 DEF Placed
  <2> QED BY <1>2, <2>1, InOrderTold
<1>5. (\A i \in DOMAIN out' : out'[i] # Notice) => \A i \in DOMAIN out : out[i] # Notice
  <2>1. PICK L \in Nat, M \in Nat : L = Len(out) /\ M = Len(q) /\ DOMAIN out = 1 .. L
    BY <1>2, LenProperties
  <2>2. /\ Len(out \o q) = L + M /\ out \o q \in Seq(EventsOf(reader))
        /\ \A i \in 1 .. L + M : (out \o q)[i] = IF i <= L THEN out[i] ELSE q[i - L]
    BY <1>2, <2>1, ConcatProperties
  <2>3. DOMAIN (out \o q) = 1 .. L + M BY <2>2, LenProperties
  <2>4. \A i \in 1 .. L : i \in 1 .. L + M /\ i <= L OBVIOUS
  <2> QED BY <2>1, <2>2, <2>3, <2>4
<1>6. Ends' = Ends BY <1>1 DEF Ends
<1>7. CASE stage = "looking"
  <2>1. stage' \in {"reading", "passing"} /\ (stage' = "reading" => frames' = <<>>)
    BY <1>1, <1>7 DEF AfterFrame
  <2>2. Placed(e, b)' BY <1>1, <1>3, <1>4, <1>6, <1>7, <2>1 DEF Placed
  <2> QED BY <1>1, <2>1, <2>2 DEF InPlace
<1>8. CASE stage \in {"relayed", "closing"}
  <2>1. stage' \in {"closing", "ended"} BY <1>1, <1>8
  <2>2. frames = <<>> BY <1>1, <1>8 DEF Inv, InPlace
  <2>3. Placed(e, b)' BY <1>1, <1>3, <1>4, <1>5, <1>6, <1>8, <2>1 DEF Placed
  <2> QED BY <1>1, <2>2, <2>3 DEF InPlace
<1> QED BY <1>1, <1>7, <1>8

(* A client that is told of a failure is promised nothing of the rest.     *)
LEMMA FailsInPlace ==
  ASSUME Inv, Fails
  PROVE  InPlace'
<1>1. /\ reader = "chat" /\ stage = "reading" /\ stage' = "closing"
      /\ UNCHANGED <<reader, open, sent, flow, frames>> /\ out' = Append(out, Notice)
  BY DEF Fails, wireVars
<1>2. out \in Seq(EventsOf(reader)) BY DEF Inv, TypeOK
<1>3. PICK q : q = <<Notice>> OBVIOUS
<1>4. q \in Seq(EventsOf(reader)) /\ Len(q) = 1 /\ q[1] = Notice
  <2>1. Notice \in EventsOf(reader) BY DEF EventsOf
  <2> QED BY <1>3, <2>1
<1>5. out' = out \o q
  <2>1. Notice \in EventsOf(reader) BY DEF EventsOf
  <2> QED BY <1>1, <1>2, <1>3, <2>1, AppendIsConcat
<1>6. \A i \in 1 .. Len(q) : ~IsPart(q[i])
  <2>1. \A i \in 1 .. 1 : i = 1 OBVIOUS
  <2> QED BY <1>4, <2>1, Others DEF IsPart
<1>0. PICK e : \E b \in Nat : Placed(e, b) BY <1>1 DEF Inv, InPlace
<1>7. PICK b \in Nat : Placed(e, b) BY <1>0
<1>8. InOrder(out', e[0])
  <2>1. InOrder(out, e[0]) BY <1>7 DEF Placed
  <2> QED BY <1>2, <1>4, <1>5, <1>6, <2>1, InOrderTold
<1>9. \E i \in DOMAIN out' : out'[i] = Notice
  <2>1. Notice \in EventsOf(reader) BY DEF EventsOf
  <2>2. /\ Append(out, Notice) \in Seq(EventsOf(reader))
        /\ Len(Append(out, Notice)) = Len(out) + 1
        /\ Append(out, Notice)[Len(out) + 1] = Notice
    BY <1>2, <2>1, AppendProperties
  <2>3. Len(out) \in Nat BY <1>2, LenProperties
  <2>4. DOMAIN out' = 1 .. Len(out) + 1 BY <1>1, <2>2, LenProperties
  <2>5. Len(out) + 1 \in 1 .. Len(out) + 1 BY <2>3
  <2> QED BY <1>1, <2>2, <2>4, <2>5
<1>10. Ends' = Ends BY <1>1 DEF Ends
<1>11. frames = <<>> BY <1>1 DEF Inv, InPlace
<1>12. Placed(e, b)' BY <1>1, <1>7, <1>8, <1>9, <1>10 DEF Placed
<1> QED BY <1>1, <1>11, <1>12 DEF InPlace

(* At the start nothing was sent.                                          *)
LEMMA InitInPlace ==
  ASSUME Init
  PROVE  InPlace
<1>1. /\ sent = 0 /\ flow = <<>> /\ buffer = <<>> /\ frames = <<>> /\ out = <<>>
      /\ stage = "reading" /\ Len(<<>>) = 0
  BY DEF Init
<1>2. Spans(<<>>, 0, 0)
  <2>1. Len(<<>>) = 0 /\ 0 - 0 = 0 OBVIOUS
  <2> QED BY <2>1 DEF Spans
<1>3. PICK e : e = [k \in 0 .. 0 |-> 0] OBVIOUS
<1>4. e[0] = 0 /\ e \in [0 .. 0 -> Nat] /\ \A k \in 0 .. 0 : k = 0 BY <1>3
<1>5. Marks(frames, e)
  <2>1. \A k \in 1 .. 0 : FALSE OBVIOUS
  <2> QED BY <1>1, <1>4, <2>1 DEF Marks
<1>6. InOrder(out, 0)
  <2>1. \A m \in 1 .. 0 : FALSE OBVIOUS
  <2>2. Passed(out, 0) = {} BY <2>1 DEF Passed
  <2>3. 1 .. 0 = {} OBVIOUS
  <2> QED BY <1>1, <2>1, <2>2, <2>3 DEF InOrder
<1>7. 0 \in Ends
  <2>1. 0 = 3 * 0 OBVIOUS
  <2> QED BY <2>1 DEF Ends, Thirds
<1>8. Placed(e, 0) BY <1>1, <1>2, <1>4, <1>5, <1>6, <1>7 DEF Placed
<1> QED BY <1>1, <1>8 DEF InPlace

(* A frame that is sent is one of the reader's.                            *)
LEMMA SendsFrame ==
  ASSUME TypeOK, Sends
  PROVE  \E f \in FramesOf(reader) : Send(f) /\ f.before = sent
<1>1. \A x \in Pieces \cup Finals \cup {<<>>} : x \in Text
  <2>1. <<>> \in Text BY EmptySeq DEF Text
  <2> QED BY <2>1, HermesStreamAssumption
<1>2. \A k \in KindsOf(reader), x \in Text : Frame(k, x) \in FramesOf(reader) /\ Frame(k, x).before = sent
  <2>1. sent \in Thirds BY DEF Sends, Send, TypeOK
  <2> QED BY <2>1 DEF Frame, FramesOf
<1>3. CASE reader = "run"
  <2>1. \E k \in {"delta", "content", "completed", "error"}, x \in Pieces \cup Finals \cup {<<>>} :
            Send(Frame(k, x))
    BY <1>3 DEF Sends
  <2> QED BY <1>1, <1>2, <1>3, <2>1 DEF KindsOf
<1>4. CASE reader = "chat"
  <2>1. \E k \in {"text", "exported"} : Send(Frame(k, <<>>)) BY <1>4 DEF Sends
  <2> QED BY <1>1, <1>2, <1>4, <2>1 DEF KindsOf
<1> QED BY <1>3, <1>4 DEF TypeOK

(* A frame is sent after what was sent.                                    *)
LEMMA SendsKeeps ==
  ASSUME Inv, Sends
  PROVE  Inv'
<1>1. PICK f \in FramesOf(reader) : Send(f) /\ f.before = sent BY SendsFrame DEF Inv
<1>2. PICK P : P = PacketsOf(reader) OBVIOUS
<1>3. flow \in Seq(P) /\ buffer \in Seq(P) BY <1>2 DEF Inv, TypeOK
<1>4. PICK q \in Seq(P) : q = Parts(f) /\ Whole(q) BY <1>2, PartsWhole
<1>5. flow' = flow \o q BY <1>1, <1>4 DEF Send
<1>6. flow' \in Seq(P) BY <1>3, <1>4, <1>5, ConcatProperties
<1>7. UNCHANGED <<open, reader, stage, buffer, answer, filter, frames, files, existing, out,
                  told, faults, missed>>
  BY <1>1 DEF Send, runVars, fileVars, lookVars
<1>8. TypeOK'
  <2>1. sent' \in Nat /\ sent' \in Thirds BY <1>1, SendsInPlace
  <2>2. (flow \in Seq(PacketsOf(reader)))' BY <1>2, <1>6, <1>7
  <2> QED BY <1>7, <2>1, <2>2 DEF Inv, TypeOK
<1>9. RestIsWhole'
  <2>1. Whole(buffer \o flow) => Whole(buffer \o flow')
    <3>1. buffer \o flow' = (buffer \o flow) \o q BY <1>3, <1>4, <1>5, ConcatAssociative, SMTT(60)
    <3>2. buffer \o flow \in Seq(P) BY <1>3, ConcatProperties
    <3> QED BY <1>4, <3>1, <3>2, WholeJoined
  <2> QED BY <1>7, <2>1 DEF Inv, RestIsWhole
<1>10. RunFollows' /\ AnswerIsConfirmed' BY <1>7, SameRun DEF Inv
<1>11. Whole(out)' /\ ToldOnce' BY <1>7, SameTold DEF Inv
<1>12. AllTold' BY <1>7 DEF Inv, AllTold
<1>13. InPlace' BY <1>1, SendsInPlace
<1> QED BY <1>8, <1>9, <1>10, <1>11, <1>12, <1>13 DEF Inv

(* What does not arrive was at the end.                                    *)
LEMMA HangsKeeps ==
  ASSUME Inv, Hangs
  PROVE  Inv'
<1>1. PICK P : P = PacketsOf(reader) OBVIOUS
<1>2. flow \in Seq(P) /\ buffer \in Seq(P) BY <1>1 DEF Inv, TypeOK
<1>3. PICK n \in Nat : n <= Len(flow) /\ flow' = SubSeq(flow, 1, n)
  <2>1. PICK n \in 0 .. Len(flow) : flow' = SubSeq(flow, 1, n) BY DEF Hangs
  <2>2. n \in Nat /\ n <= Len(flow) BY <1>2, LenProperties
  <2> QED BY <2>1, <2>2
<1>4. UNCHANGED <<reader, stage, buffer, answer, filter, frames, files, existing, out,
                  told, faults, missed>> /\ open' = FALSE
  BY DEF Hangs, runVars, fileVars, lookVars
<1>5. PICK q \in Seq(P) : q = SubSeq(flow, 1, n) /\ q = flow' BY <1>2, <1>3, Parted
<1>6. TypeOK'
  <2>1. (flow \in Seq(PacketsOf(reader)))' BY <1>1, <1>4, <1>5
  <2>2. sent' \in Nat BY HangsInPlace
  <2> QED BY <1>4, <2>1, <2>2 DEF Inv, TypeOK
<1>7. RestIsWhole'
  <2>1. ASSUME Whole(buffer \o flow) PROVE Whole(buffer \o q)
    <3>1. PICK w \in Seq(P) : w = buffer \o flow /\ Len(w) = Len(buffer) + Len(flow)
      BY <1>2, ConcatProperties
    <3>2. PICK p \in Seq(P) : p = buffer \o q BY <1>2, ConcatProperties
    <3>3. 0 \in Nat /\ 0 <= Len(p) BY <3>2, LenProperties
    <3>4. Onward(buffer, flow, n, p, 0) BY <1>2, <1>3, <1>5, <3>2, <3>3, MovesOn
    <3>5. p = SubSeq(w, 1, Len(buffer) + n) BY <3>1, <3>4 DEF Onward
    <3>6. PICK b \in Nat : b = Len(buffer) + n BY <1>2, LenProperties
    <3>7. 0 + 1 = 1 /\ 0 <= b /\ b <= Len(w) BY <1>2, <1>3, <3>1, <3>6, LenProperties
    <3>8. Whole(SubSeq(w, 0 + 1, b)) BY <1>1, <2>1, <3>1, <3>7, WholeCut
    <3> QED BY <3>2, <3>5, <3>6, <3>7, <3>8
  <2> QED BY <1>4, <1>5, <2>1 DEF Inv, RestIsWhole
<1>8. RunFollows' /\ AnswerIsConfirmed' BY <1>4, SameRun DEF Inv
<1>9. Whole(out)' /\ ToldOnce' BY <1>4, SameTold DEF Inv
<1>10. AllTold' BY <1>4 DEF Inv, AllTold
<1>11. InPlace' BY HangsInPlace
<1> QED BY <1>6, <1>7, <1>8, <1>9, <1>10, <1>11 DEF Inv

(* A file appears or goes while the stream goes on.                        *)
LEMMA FilesKeep ==
  ASSUME Inv, NEW n \in 1 .. MaxFiles, FileAppears(n) \/ FileGoes(n)
  PROVE  Inv'
<1>1. /\ stage \notin {"ended", "left"}
      /\ UNCHANGED <<reader, stage, open, sent, flow, buffer, answer, filter, frames, existing,
                     out, told, faults, missed>>
  BY DEF FileAppears, FileGoes, wireVars, runVars, lookVars
<1>2. files' \in [1 .. MaxFiles -> {"none", "there", "gone"}]
  BY DEF FileAppears, FileGoes, Inv, TypeOK
<1>3. TypeOK' BY <1>1, <1>2 DEF Inv, TypeOK
<1>4. RestIsWhole' BY <1>1 DEF Inv, RestIsWhole
<1>5. RunFollows' /\ AnswerIsConfirmed' BY <1>1, SameRun DEF Inv
<1>6. Whole(out)' /\ ToldOnce' BY <1>1, SameTold DEF Inv
<1>7. AllTold' BY <1>1 DEF AllTold
<1>8. InPlace' BY <1>1, SamePlaces DEF Inv
<1> QED BY <1>3, <1>4, <1>5, <1>6, <1>7, <1>8 DEF Inv

(* A run reads the frames that have arrived.                               *)
LEMMA ArrivesKeeps ==
  ASSUME Inv, Arrives
  PROVE  Inv'
<1>1. reader = "run" /\ stage = "reading" BY DEF Arrives
<1>2. PICK n \in 1 .. Len(flow) :
        \E split : /\ split = Split(buffer \o SubSeq(flow, 1, n))
                   /\ answer' = Drained(split.frames).answer
                   /\ filter' = Drained(split.frames).filter
                   /\ buffer' = split.rest /\ flow' = SubSeq(flow, n + 1, Len(flow))
  BY DEF Arrives
<1>3. PICK split : /\ split = Split(buffer \o SubSeq(flow, 1, n))
                   /\ answer' = Drained(split.frames).answer
                   /\ filter' = Drained(split.frames).filter
                   /\ buffer' = split.rest /\ flow' = SubSeq(flow, n + 1, Len(flow))
  BY <1>2
<1>4. UNCHANGED <<reader, stage, open, sent, frames, files, existing, out, told, faults, missed>>
  BY DEF Arrives, fileVars, lookVars
<1>5. flow \in Seq(PacketsOf("run")) /\ buffer \in Seq(PacketsOf("run")) /\ Whole(buffer \o flow)
  BY <1>1 DEF Inv, TypeOK, RestIsWhole
<1>6. /\ split.frames \in Seq(Seq(PacketsOf("run")) \ {<<>>})
      /\ split.rest \in Seq(PacketsOf("run"))
      /\ SubSeq(flow, n + 1, Len(flow)) \in Seq(PacketsOf("run"))
      /\ Whole(split.rest \o SubSeq(flow, n + 1, Len(flow)))
  BY <1>3, <1>5, ArrivesWhole
<1>7. PICK h \in Following : h = Drained(split.frames) /\ answer' = h.answer /\ filter' = h.filter
  <2>1. [answer |-> answer, filter |-> filter] \in Following BY <1>1 DEF Inv, RunFollows
  <2> QED BY <1>3, <1>6, <2>1, DrainedFollows
<1>8. h = [answer |-> answer', filter |-> filter'] /\ answer' \in Answers /\ filter' \in Filter
      /\ answer'.result = "none"
  BY <1>7 DEF Following
<1>9. TypeOK'
  <2>1. (flow \in Seq(PacketsOf(reader)) /\ buffer \in Seq(PacketsOf(reader)))'
    BY <1>1, <1>3, <1>4, <1>6
  <2> QED BY <1>4, <1>8, <2>1 DEF Inv, TypeOK
<1>10. RestIsWhole'
  <2>1. Whole(buffer \o flow)' BY <1>3, <1>6
  <2> QED BY <1>1, <1>4, <2>1 DEF Inv, RestIsWhole
<1>11. RunFollows' BY <1>7, <1>8 DEF RunFollows
<1>12. AnswerIsConfirmed' BY <1>8 DEF AnswerIsConfirmed
<1>13. Whole(out)' /\ ToldOnce' BY <1>4, SameTold DEF Inv
<1>14. AllTold' BY <1>1, <1>4 DEF AllTold
<1>15. InPlace' BY <1>1, <1>4 DEF Inv, InPlace
<1> QED BY <1>9, <1>10, <1>11, <1>12, <1>13, <1>14, <1>15 DEF Inv

(* At the end a run decides on what it has read.                           *)
LEMMA SettlesKeeps ==
  ASSUME Inv, Settles
  PROVE  Inv'
<1>1. reader = "run" /\ stage = "reading" /\ stage' = "ended" BY DEF Settles
<1>2. UNCHANGED <<reader, open, sent, flow, buffer, frames, files, existing, out, told, faults,
                  missed>>
  BY DEF Settles, wireVars, fileVars, lookVars
<1>3. PICK list : list = IF buffer = <<>> THEN <<>> ELSE <<buffer>> OBVIOUS
<1>4. list \in Seq(Seq(PacketsOf("run")) \ {<<>>})
  <2>1. buffer \in Seq(PacketsOf("run")) BY <1>1 DEF Inv, TypeOK
  <2>2. CASE buffer = <<>> BY <1>3, <2>2, EmptySeq
  <2>3. CASE buffer # <<>> BY <1>3, <2>1, <2>3
  <2> QED BY <2>2, <2>3
<1>5. PICK h \in Following : h = Drained(list)
  <2>1. [answer |-> answer, filter |-> filter] \in Following BY <1>1 DEF Inv, RunFollows
  <2> QED BY <1>4, <2>1, DrainedFollows
<1>6. PICK a \in Answers, g \in Filter :
         a = h.answer /\ g = h.filter /\ a.result = "none" /\ g = Feed(Fresh, a.text)
  BY <1>5 DEF Following
<1>7. PICK r \in {"accepted", "refused", "question"} :
        /\ answer' = [a EXCEPT !.result = r]
        /\ filter' = [g EXCEPT !.held = <<>>, !.until = Outside]
        /\ r = "accepted" => Acceptable(a)
        /\ r = "question" => ~a.failed /\ a.done
  BY <1>3, <1>5, <1>6 DEF Settles
<1>8. PICK b : b = [a EXCEPT !.result = r] OBVIOUS
<1>9. /\ b \in Answers /\ b.result = r /\ b.text = a.text /\ b.content = a.content
      /\ b.done = a.done /\ b.failed = a.failed
  BY <1>6, <1>8 DEF Answers
<1>10. answer' = b BY <1>7, <1>8
<1>11. filter' \in Filter /\ filter'.shown = g.shown
  <2>1. PICK x : x = [g EXCEPT !.held = <<>>, !.until = Outside] OBVIOUS
  <2>2. x = [held |-> <<>>, until |-> Outside, shown |-> g.shown] BY <1>6, <2>1 DEF Filter
  <2>3. <<>> \in Text /\ g.shown \in Text BY <1>6, FilterFields, EmptySeq DEF Text
  <2> QED BY <1>7, <2>1, <2>2, <2>3 DEF Filter
<1>12. TypeOK' BY <1>1, <1>2, <1>9, <1>10, <1>11 DEF Inv, TypeOK
<1>13. AnswerIsConfirmed'
  <2>1. b.result # "refused" => b.done /\ ~b.failed BY <1>7, <1>9 DEF Acceptable
  <2>2. b.result = "accepted" => Visible(b.content) # <<>> BY <1>7, <1>9 DEF Acceptable
  <2>3. b.content = b.text => filter'.shown = Visible(b.content)
    BY <1>6, <1>9, <1>11 DEF Visible
  <2> QED BY <1>10, <2>1, <2>2, <2>3 DEF AnswerIsConfirmed
<1>14. RestIsWhole' BY <1>1, <1>2 DEF Inv, RestIsWhole
<1>15. RunFollows' BY <1>1 DEF RunFollows
<1>16. Whole(out)' /\ ToldOnce' BY <1>2, SameTold DEF Inv
<1>17. AllTold' BY <1>1, <1>2 DEF AllTold
<1>18. InPlace' BY <1>1, <1>2 DEF Inv, InPlace
<1> QED BY <1>12, <1>13, <1>14, <1>15, <1>16, <1>17, <1>18 DEF Inv

(* Of a run that breaks off nothing is accepted.                           *)
LEMMA BreaksKeeps ==
  ASSUME Inv, Breaks
  PROVE  Inv'
<1>1. /\ reader = "run" /\ stage = "reading" /\ stage' = "ended"
      /\ UNCHANGED <<reader, open, sent, flow, buffer, filter, frames, files, existing, out, told,
                     faults, missed>>
  BY DEF Breaks, wireVars, fileVars, lookVars
<1>2. answer' \in Answers /\ answer'.result = "refused" BY DEF Breaks, Inv, TypeOK, Answers
<1>3. TypeOK' BY <1>1, <1>2 DEF Inv, TypeOK
<1>4. AnswerIsConfirmed' BY <1>2 DEF AnswerIsConfirmed
<1>5. RestIsWhole' BY <1>1 DEF Inv, RestIsWhole
<1>6. RunFollows' BY <1>1 DEF RunFollows
<1>7. Whole(out)' /\ ToldOnce' BY <1>1, SameTold DEF Inv
<1>8. AllTold' BY <1>1 DEF AllTold
<1>9. InPlace' BY <1>1 DEF Inv, InPlace
<1> QED BY <1>3, <1>4, <1>5, <1>6, <1>7, <1>8, <1>9 DEF Inv

(* A chat reads the frames that have arrived.                              *)
LEMMA ReceivesKeeps ==
  ASSUME Inv, Receives
  PROVE  Inv'
<1>1. reader = "chat" /\ stage = "reading" BY DEF Receives
<1>2. PICK n \in 1 .. Len(flow) :
        \E split : /\ split = Split(buffer \o SubSeq(flow, 1, n))
                   /\ frames' = split.frames /\ buffer' = split.rest
                   /\ flow' = SubSeq(flow, n + 1, Len(flow))
                   /\ stage' = IF split.frames = <<>> THEN "reading" ELSE "passing"
  BY DEF Receives
<1>3. PICK split : /\ split = Split(buffer \o SubSeq(flow, 1, n))
                   /\ frames' = split.frames /\ buffer' = split.rest
                   /\ flow' = SubSeq(flow, n + 1, Len(flow))
                   /\ stage' = IF split.frames = <<>> THEN "reading" ELSE "passing"
  BY <1>2
<1>4. UNCHANGED <<reader, open, sent, answer, filter, files, existing, out, told, faults, missed>>
  BY DEF Receives, runVars, fileVars, lookVars
<1>5. PICK P : P = PacketsOf(reader) OBVIOUS
<1>6. flow \in Seq(PacketsOf(reader)) /\ buffer \in Seq(PacketsOf(reader)) /\ Whole(buffer \o flow)
  BY <1>1 DEF Inv, TypeOK, RestIsWhole
<1>7. /\ split.frames \in Seq(Seq(PacketsOf(reader)) \ {<<>>})
      /\ split.rest \in Seq(PacketsOf(reader))
      /\ SubSeq(flow, n + 1, Len(flow)) \in Seq(PacketsOf(reader))
      /\ \A k \in 1 .. Len(split.frames) : Whole(split.frames[k])
      /\ Whole(split.rest \o SubSeq(flow, n + 1, Len(flow)))
  BY <1>3, <1>6, ArrivesWhole
<1>8. TypeOK'
  <2>1. flow' \in Seq(P) /\ buffer' \in Seq(P) /\ frames' \in Seq(Seq(P) \ {<<>>})
    BY <1>3, <1>5, <1>7
  <2>2. stage' \in {"reading", "passing"} BY <1>3
  <2> QED BY <1>4, <1>5, <2>1, <2>2 DEF Inv, TypeOK
<1>9. RestIsWhole' BY <1>3, <1>7 DEF RestIsWhole
<1>10. RunFollows' /\ AnswerIsConfirmed' BY <1>1, <1>4, SameRun DEF Inv
<1>11. Whole(out)' /\ ToldOnce' BY <1>4, SameTold DEF Inv
<1>12. AllTold' BY <1>3 DEF AllTold
<1>13. InPlace' BY ReceivesInPlace
<1> QED BY <1>8, <1>9, <1>10, <1>11, <1>12, <1>13 DEF Inv

(* What is left at the end of the stream is the start of a whole frame.    *)
LEMMA ReachesEndKeeps ==
  ASSUME Inv, ReachesEnd
  PROVE  Inv'
<1>1. reader = "chat" /\ stage = "reading" /\ flow = <<>> BY DEF ReachesEnd
<1>2. UNCHANGED <<reader, open, sent, flow, answer, filter, files, existing, out, told, faults,
                  missed>>
  BY DEF ReachesEnd, wireVars, runVars, fileVars, lookVars
<1>3. buffer \in Seq(PacketsOf(reader)) /\ Whole(buffer)
  <2>1. buffer \in Seq(PacketsOf(reader)) /\ Whole(buffer \o flow)
    BY <1>1 DEF Inv, TypeOK, RestIsWhole
  <2>2. buffer \o flow = buffer BY <1>1, <2>1, ConcatEmptySeq
  <2> QED BY <2>1, <2>2
<1>4. PICK list : list = IF buffer = <<>> THEN <<>> ELSE <<buffer>> OBVIOUS
<1>5. frames' = list /\ buffer' = <<>> /\ stage' = IF buffer = <<>> THEN "relayed" ELSE "passing"
  BY <1>4 DEF ReachesEnd
<1>6. /\ list \in Seq(Seq(PacketsOf(reader)) \ {<<>>})
      /\ \A k \in 1 .. Len(list) : Whole(list[k])
      /\ buffer # <<>> => list # <<>>
  <2>1. CASE buffer = <<>> BY <1>4, <2>1, EmptySeq
  <2>2. CASE buffer # <<>>
    <3>1. list = <<buffer>> BY <1>4, <2>2
    <3>2. Len(list) = 1 /\ list[1] = buffer BY <3>1
    <3>3. \A k \in 1 .. 1 : k = 1 OBVIOUS
    <3>4. list \in Seq(Seq(PacketsOf(reader)) \ {<<>>}) BY <1>3, <2>2, <3>1
    <3>5. list # <<>>
      <4>1. Len(<<>>) = 0 OBVIOUS
      <4> QED BY <3>2, <4>1
    <3> QED BY <1>3, <3>2, <3>3, <3>4, <3>5
  <2> QED BY <2>1, <2>2
<1>7. Whole(<<>> \o <<>>)
  <2>1. <<>> \o <<>> = <<>> BY EmptySeq, ConcatEmptySeq
  <2> QED BY <2>1 DEF Whole
<1>8. TypeOK'
  <2>1. <<>> \in Seq(PacketsOf(reader)) BY EmptySeq
  <2>2. (buffer \in Seq(PacketsOf(reader)) /\ frames \in Seq(Seq(PacketsOf(reader)) \ {<<>>}))'
    BY <1>2, <1>5, <1>6, <2>1
  <2> QED BY <1>2, <1>5, <2>2 DEF Inv, TypeOK
<1>9. RestIsWhole' BY <1>1, <1>2, <1>5, <1>6, <1>7 DEF RestIsWhole
<1>10. RunFollows' /\ AnswerIsConfirmed' BY <1>1, <1>2, SameRun DEF Inv
<1>11. Whole(out)' /\ ToldOnce' BY <1>2, SameTold DEF Inv
<1>12. AllTold' BY <1>5 DEF AllTold
<1>13. InPlace' BY ReachesEndInPlace
<1> QED BY <1>8, <1>9, <1>10, <1>11, <1>12, <1>13 DEF Inv

(* The frame that is passed on is whole, and tells of no file.             *)
LEMMA PassesOnKeeps ==
  ASSUME Inv, PassesOn
  PROVE  Inv'
<1>1. reader = "chat" /\ stage = "passing" BY DEF PassesOn
<1>2. UNCHANGED <<reader, open, sent, flow, buffer, answer, filter, files, existing, told, faults,
                  missed>>
  BY DEF PassesOn, wireVars, runVars, fileVars, lookVars
<1>3. PICK E : E = EventsOf(reader) OBVIOUS
<1>4. PICK F : F = Seq(PacketsOf(reader)) \ {<<>>} OBVIOUS
<1>5. frames \in Seq(F) /\ frames # <<>> /\ \A k \in 1 .. Len(frames) : Whole(frames[k])
  BY <1>1, <1>4 DEF Inv, TypeOK, RestIsWhole
<1>6. PICK q \in F, rest \in Seq(F) :
        /\ q = Head(frames) /\ rest = Tail(frames) /\ q = frames[1]
        /\ Len(frames) \in Nat \ {0} /\ Len(rest) = Len(frames) - 1
        /\ \A k \in 1 .. Len(rest) : rest[k] = frames[k + 1]
  <2>1. Len(frames) \in Nat \ {0} BY <1>5, EmptySeq
  <2>2. /\ Head(frames) = frames[1] /\ Head(frames) \in F /\ Tail(frames) \in Seq(F)
        /\ Len(Tail(frames)) = Len(frames) - 1
        /\ \A k \in 1 .. Len(Tail(frames)) : Tail(frames)[k] = frames[k + 1]
    BY <1>5, HeadTailProperties
  <2> QED BY <2>1, <2>2
<1>7. Whole(q)
  <2>1. 1 \in 1 .. Len(frames) BY <1>6
  <2> QED BY <1>5, <1>6, <2>1
<1>8. \A k \in 1 .. Len(rest) : Whole(rest[k])
  <2>1. \A k \in 1 .. Len(rest) : k + 1 \in 1 .. Len(frames) BY <1>6
  <2> QED BY <1>5, <1>6, <2>1
<1>9. q \in Seq(PacketsOf(reader)) BY <1>4, <1>6
<1>10. q \in Seq(E) /\ Once(q) /\ Telling(q) = {} BY <1>3, <1>9, FramesTellNone
<1>11. out \in Seq(E) /\ Whole(out) /\ Once(out) /\ told = Telling(out) /\ told \cap existing = {}
  BY <1>3 DEF Inv, TypeOK, ToldOnce
<1>12. out' = out \o q BY <1>6 DEF PassesOn
<1>13. out' \in Seq(E) BY <1>10, <1>11, <1>12, ConcatProperties
<1>14. Whole(out)' BY <1>7, <1>10, <1>11, <1>12, WholeJoined
<1>15. ToldOnce'
  <2>1. Telling(out) \cap Telling(q) = {} BY <1>10
  <2>2. Once(out \o q) /\ Telling(out \o q) = Telling(out) \cup Telling(q)
    <3>1. out \in Seq(E) /\ q \in Seq(E) /\ Once(out) /\ Once(q) BY <1>10, <1>11
    <3> QED BY <2>1, <3>1, ToldMore
  <2> QED BY <1>2, <1>10, <1>11, <1>12, <2>2 DEF ToldOnce
<1>16. frames' = rest /\ stage' \in {"looking", AfterFrame(rest)} BY <1>6 DEF PassesOn
<1>17. stage' \in {"reading", "looking", "passing"} /\ (stage' = "passing" => rest # <<>>)
  BY <1>16 DEF AfterFrame
<1>18. TypeOK'
  <2>1. (frames \in Seq(Seq(PacketsOf(reader)) \ {<<>>}) /\ out \in Seq(EventsOf(reader)))'
    BY <1>2, <1>3, <1>4, <1>6, <1>13, <1>16
  <2> QED BY <1>2, <1>17, <2>1 DEF Inv, TypeOK
<1>19. RestIsWhole' BY <1>1, <1>2, <1>8, <1>16, <1>17 DEF Inv, RestIsWhole
<1>20. RunFollows' /\ AnswerIsConfirmed' BY <1>1, <1>2, SameRun DEF Inv
<1>21. AllTold' BY <1>17 DEF AllTold
<1>22. InPlace' BY PassesOnInPlace
<1> QED BY <1>14, <1>15, <1>18, <1>19, <1>20, <1>21, <1>22 DEF Inv

(* The files that a lookup finds are told, and all that are there.         *)
LEMMA LooksKeeps ==
  ASSUME Inv, LooksForFiles
  PROVE  Inv'
<1>1. reader = "chat" /\ stage \in {"looking", "relayed", "closing"} BY DEF LooksForFiles
<1>2. UNCHANGED <<reader, open, sent, flow, buffer, answer, filter, frames, files, existing>>
  BY DEF LooksForFiles, wireVars, runVars, fileVars
<1>3. \/ stage = "looking" /\ stage' = AfterFrame(frames)
      \/ stage = "relayed" /\ stage' = "closing"
      \/ stage = "closing" /\ stage' = "ended"
  BY DEF LooksForFiles
<1>4. stage' \in {"reading", "passing", "closing", "ended"} BY <1>3 DEF AfterFrame
<1>5. PICK E : E = EventsOf(reader) OBVIOUS
<1>6. out \in Seq(E) /\ Whole(out) /\ Once(out) /\ told = Telling(out) /\ told \cap existing = {}
      /\ told \in SUBSET (1 .. MaxFiles) /\ faults \in Nat
  BY <1>5 DEF Inv, TypeOK, ToldOnce
<1>7. RestIsWhole'
  <2>1. CASE stage = "looking"
    <3>1. stage' = "passing" => frames # <<>> BY <1>3, <2>1 DEF AfterFrame
    <3> QED BY <1>2, <2>1, <3>1 DEF Inv, RestIsWhole
  <2>2. CASE stage # "looking"
    <3>1. stage' \notin {"reading", "passing", "looking"} BY <1>3, <2>2
    <3> QED BY <1>2, <3>1 DEF Inv, RestIsWhole
  <2> QED BY <2>1, <2>2
<1>8. RunFollows' /\ AnswerIsConfirmed' BY <1>1, <1>2, SameRun DEF Inv
<1>9. CASE faults < MaxFaults /\ faults' = faults + 1 /\ missed' = TRUE /\ UNCHANGED <<told, out>>
  <2>1. TypeOK' BY <1>2, <1>4, <1>6, <1>9 DEF Inv, TypeOK
  <2>2. Whole(out)' /\ ToldOnce' BY <1>2, <1>9, SameTold DEF Inv
  <2>3. AllTold' BY <1>9 DEF AllTold
  <2>4. InPlace'
    <3>1. <<>> \in Seq(E) /\ out \o <<>> = out BY <1>6, EmptySeq, ConcatEmptySeq
    <3>2. \A i \in 1 .. Len(<<>>) : FALSE OBVIOUS
    <3> QED BY <1>5, <1>9, <3>1, <3>2, LooksInPlace
  <2> QED BY <1>7, <1>8, <2>1, <2>2, <2>3, <2>4 DEF Inv
<1>10. ASSUME Remembers(New), missed' = FALSE, faults' = faults,
              out' = out \o [i \in 1 .. Cardinality(New) |-> File(SetToSeq(New)[i])]
       PROVE  Inv'
  <2>1. PICK N \in SUBSET (1 .. MaxFiles) :
           N = {n \in 1 .. MaxFiles : files[n] = "there"} \ (existing \cup told) /\ N = New
    BY DEF New
  <2>2. PICK q : q = [i \in 1 .. Cardinality(N) |-> File(SetToSeq(N)[i])] OBVIOUS
  <2>3. /\ q \in Seq(E) /\ Whole(q) /\ Once(q) /\ Telling(q) = N
        /\ \A i \in 1 .. Len(q) : ~IsPart(q[i])
    BY <1>5, <2>2, FilesListed
  <2>4. out' = out \o q /\ told' = told \cup N BY <1>10, <2>1, <2>2 DEF Remembers
  <2>5. out' \in Seq(E) BY <1>6, <2>3, <2>4, ConcatProperties
  <2>6. Whole(out)' BY <1>6, <2>3, <2>4, WholeJoined
  <2>7. ToldOnce'
    <3>1. Telling(out) \cap Telling(q) = {} BY <1>6, <2>1, <2>3
    <3>2. Once(out \o q) /\ Telling(out \o q) = Telling(out) \cup Telling(q)
      BY <1>6, <2>3, <3>1, ToldMore
    <3>3. told' \cap existing = {} BY <1>6, <2>1, <2>4
    <3> QED BY <1>2, <1>6, <2>3, <2>4, <3>2, <3>3 DEF ToldOnce
  <2>8. TypeOK'
    <3>1. (out \in Seq(EventsOf(reader)))' BY <1>2, <1>5, <2>5
    <3>2. told' \in SUBSET (1 .. MaxFiles) BY <1>6, <2>1, <2>4
    <3> QED BY <1>2, <1>4, <1>6, <1>10, <3>1, <3>2 DEF Inv, TypeOK
  <2>9. AllTold'
    <3>1. \A n \in 1 .. MaxFiles : files[n] = "there" => n \in existing \cup told'
      BY <2>1, <2>4
    <3> QED BY <1>2, <3>1 DEF AllTold
  <2>10. InPlace' BY <1>5, <2>3, <2>4, LooksInPlace
  <2> QED BY <1>7, <1>8, <2>6, <2>7, <2>8, <2>9, <2>10 DEF Inv
<1> QED BY <1>9, <1>10 DEF LooksForFiles, Looks

(* The notice of a failure is no part of a frame.                          *)
LEMMA FailsKeeps ==
  ASSUME Inv, Fails
  PROVE  Inv'
<1>1. /\ reader = "chat" /\ stage = "reading" /\ stage' = "closing" /\ buffer' = <<>>
      /\ UNCHANGED <<reader, open, sent, flow, answer, filter, frames, files, existing, told,
                     faults, missed>>
  BY DEF Fails, wireVars, runVars, fileVars, lookVars
<1>2. PICK E : E = EventsOf(reader) OBVIOUS
<1>3. out \in Seq(E) /\ Whole(out) /\ Once(out) /\ told = Telling(out) /\ told \cap existing = {}
  BY <1>2 DEF Inv, TypeOK, ToldOnce
<1>4. PICK q : q = <<Notice>> OBVIOUS
<1>5. q \in Seq(E) /\ DOMAIN q = {1} /\ q[1] = Notice
  <2>1. Notice \in E BY <1>2 DEF EventsOf
  <2>2. q \in Seq(E) BY <1>4, <2>1
  <2>3. DOMAIN q = 1 .. 1 /\ q[1] = Notice BY <1>4
  <2>4. 1 .. 1 = {1} OBVIOUS
  <2> QED BY <2>2, <2>3, <2>4
<1>6. Whole(q) /\ Once(q) /\ Telling(q) = {}
  BY <1>5, Others DEF Whole, Once, Telling
<1>7. out' = out \o q
  <2>1. Notice \in E BY <1>2 DEF EventsOf
  <2>2. Append(out, Notice) = out \o <<Notice>> BY <1>3, <2>1, AppendIsConcat
  <2> QED BY <1>4, <2>2 DEF Fails
<1>8. out' \in Seq(E) BY <1>3, <1>5, <1>7, ConcatProperties
<1>9. Whole(out)' BY <1>3, <1>5, <1>6, <1>7, WholeJoined
<1>10. ToldOnce'
  <2>1. Telling(out) \cap Telling(q) = {} BY <1>6
  <2>2. Once(out \o q) /\ Telling(out \o q) = Telling(out) \cup Telling(q)
    BY <1>3, <1>5, <1>6, <2>1, ToldMore, ZenonT(60)
  <2> QED BY <1>1, <1>3, <1>6, <1>7, <2>2 DEF ToldOnce
<1>11. TypeOK'
  <2>1. <<>> \in Seq(PacketsOf(reader)) BY EmptySeq
  <2>2. (out \in Seq(EventsOf(reader)) /\ buffer \in Seq(PacketsOf(reader)))'
    BY <1>1, <1>2, <1>8, <2>1
  <2> QED BY <1>1, <2>2 DEF Inv, TypeOK
<1>12. RestIsWhole' BY <1>1 DEF Inv, RestIsWhole
<1>13. RunFollows' /\ AnswerIsConfirmed' BY <1>1, SameRun DEF Inv
<1>14. AllTold' BY <1>1 DEF AllTold
<1>15. InPlace' BY FailsInPlace
<1> QED BY <1>9, <1>10, <1>11, <1>12, <1>13, <1>14, <1>15 DEF Inv

(* A client that leaves is told no more.                                   *)
LEMMA ClientLeavesKeeps ==
  ASSUME Inv, ClientLeaves
  PROVE  Inv'
<1>1. /\ reader = "chat" /\ stage' = "left"
      /\ UNCHANGED <<reader, open, sent, flow, buffer, answer, filter, frames, files, existing,
                     out, told, faults, missed>>
  BY DEF ClientLeaves, wireVars, runVars, fileVars, lookVars
<1>2. TypeOK' BY <1>1 DEF Inv, TypeOK
<1>3. RestIsWhole' BY <1>1 DEF Inv, RestIsWhole
<1>4. RunFollows' /\ AnswerIsConfirmed' BY <1>1, SameRun DEF Inv
<1>5. Whole(out)' /\ ToldOnce' BY <1>1, SameTold DEF Inv
<1>6. AllTold' BY <1>1 DEF AllTold
<1>7. InPlace' BY <1>1, SamePlaces DEF Inv
<1> QED BY <1>2, <1>3, <1>4, <1>5, <1>6, <1>7 DEF Inv

(* At the start nothing is read, and nothing told.                         *)
LEMMA InitHolds == ASSUME Init PROVE Inv
<1>1. <<>> \in Text /\ Fresh \in Filter /\ Feed(Fresh, <<>>) = Fresh
  <2>1. <<>> \in Text BY EmptySeq DEF Text
  <2> QED BY <2>1, FreshShows, FreshIsFed
<1>2. NoAnswer \in Answers /\ NoAnswer.text = <<>> /\ NoAnswer.result = "none"
  BY <1>1 DEF NoAnswer, Answers
<1>3. TypeOK
  <2>1. \A S : <<>> \in Seq(S) BY EmptySeq
  <2>2. files \in [1 .. MaxFiles -> {"none", "there", "gone"}] BY DEF Init
  <2>3. existing \in SUBSET Nat BY DEF Init
  <2>4. 0 \in Thirds
    <3>1. 0 = 3 * 0 OBVIOUS
    <3> QED BY <3>1 DEF Thirds
  <2> QED BY <1>1, <1>2, <2>1, <2>2, <2>3, <2>4 DEF Init, TypeOK
<1>4. RunFollows
  <2>1. [answer |-> NoAnswer, filter |-> Fresh] \in Following BY <1>1, <1>2 DEF Following
  <2> QED BY <2>1 DEF Init, RunFollows
<1>5. AnswerIsConfirmed BY <1>2 DEF Init, AnswerIsConfirmed
<1>6. RestIsWhole
  <2>1. <<>> \o <<>> = <<>> BY EmptySeq, ConcatEmptySeq
  <2>2. Whole(<<>>) BY DEF Whole
  <2>3. \A k \in 1 .. Len(<<>>) : FALSE OBVIOUS
  <2> QED BY <2>1, <2>2, <2>3 DEF Init, RestIsWhole
<1>7. Whole(out) /\ ToldOnce BY DEF Init, Whole, ToldOnce, Once, Telling
<1>8. AllTold BY DEF Init, AllTold
<1>9. InPlace BY InitInPlace
<1> QED BY <1>3, <1>4, <1>5, <1>6, <1>7, <1>8, <1>9 DEF Inv

(* A step that changes nothing keeps the invariant.                        *)
LEMMA StuttersKeeps == ASSUME Inv, UNCHANGED vars PROVE Inv'
<1>1. UNCHANGED <<reader, stage, open, sent, flow, buffer, answer, filter, frames, files, existing,
                  out, told, faults, missed>>
  BY DEF vars, wireVars, runVars, fileVars, lookVars
<1>2. TypeOK' BY <1>1 DEF Inv, TypeOK
<1>3. RestIsWhole' BY <1>1 DEF Inv, RestIsWhole
<1>4. RunFollows' /\ AnswerIsConfirmed' BY <1>1, SameRun DEF Inv
<1>5. Whole(out)' /\ ToldOnce' BY <1>1, SameTold DEF Inv
<1>6. AllTold' BY <1>1 DEF Inv, AllTold
<1>7. InPlace' BY <1>1, SamePlaces DEF Inv
<1> QED BY <1>2, <1>3, <1>4, <1>5, <1>6, <1>7 DEF Inv

-----------------------------------------------------------------------------
(* The theorems. *)

(* In every reachable state a run's filter is the one that was fed all     *)
(* that was streamed (_submit_agent_run_stream, feed), a chat holds whole  *)
(* frames or the start of one (_split_complete_sse_events), and what it    *)
(* told of files is what it remembers (_new_artifact_ready_events).        *)
THEOREM StreamsHold == Spec => []Inv
<1>1. Init => Inv BY InitHolds
<1>2. Inv /\ [Next]_vars => Inv'
  <2> SUFFICES ASSUME Inv, [Next]_vars PROVE Inv' OBVIOUS
  <2>1. CASE Sends BY <2>1, SendsKeeps
  <2>2. CASE Hangs BY <2>2, HangsKeeps
  <2>3. CASE \E n \in 1 .. MaxFiles : FileAppears(n) \/ FileGoes(n) BY <2>3, FilesKeep
  <2>4. CASE Arrives BY <2>4, ArrivesKeeps
  <2>5. CASE Settles BY <2>5, SettlesKeeps
  <2>6. CASE Breaks BY <2>6, BreaksKeeps
  <2>7. CASE Receives BY <2>7, ReceivesKeeps
  <2>8. CASE ReachesEnd BY <2>8, ReachesEndKeeps
  <2>9. CASE PassesOn BY <2>9, PassesOnKeeps
  <2>10. CASE LooksForFiles BY <2>10, LooksKeeps
  <2>11. CASE Fails BY <2>11, FailsKeeps
  <2>12. CASE ClientLeaves BY <2>12, ClientLeavesKeeps
  <2>13. CASE UNCHANGED vars BY <2>13, StuttersKeeps
  <2> QED BY <2>1, <2>2, <2>3, <2>4, <2>5, <2>6, <2>7, <2>8, <2>9, <2>10, <2>11, <2>12, <2>13
          DEF Next, RunStep, ChatStep
<1> QED BY <1>1, <1>2, PTL DEF Spec

(* However the text of the model was cut into pieces, the client of a run  *)
(* was shown just what a reader of the whole text, one character at a      *)
(* time, finds outside the envelopes, and no more is held back of it than  *)
(* may become a marker (_PrivateProtocolDeltaFilter.feed).                 *)
THEOREM RunShowsPublic == Spec => []ShownIsPublic
<1>1. ASSUME Inv PROVE ShownIsPublic
  <2>1. SUFFICES ASSUME reader = "run", stage = "reading"
                 PROVE  /\ filter.shown \o (IF filter.until = Outside THEN filter.held ELSE <<>>)
                             = Public(answer.text)
                        /\ filter.until = Outside =>
                             \/ filter.held = <<>>
                             \/ \E m \in Openings : Len(filter.held) < Len(m)
    BY DEF ShownIsPublic
  <2>2. filter = Feed(Fresh, answer.text) /\ answer.text \in Text
    BY <1>1, <2>1 DEF Inv, RunFollows, Following, TypeOK, Answers
  <2>3. Fresh \in Filter /\ filter \in Filter /\ Told(filter) = Public(answer.text)
    BY <2>2, FreshShows
  <2>4. PICK f \in Filter : f = Fed(Fresh, answer.text) BY <2>2, <2>3, FedFields
  <2>5. filter = sift[f] BY <2>2, <2>4 DEF Feed, Fed
  <2>6. filter.held = <<>> \/ \E m \in Awaited(filter) : Len(filter.held) < Len(m)
    BY <2>4, <2>5, SiftTyped
  <2>7. filter.shown \o (IF filter.until = Outside THEN filter.held ELSE <<>>) = Public(answer.text)
    BY <2>3, FilterFields, Associates DEF Told
  <2>8. filter.until = Outside => Awaited(filter) = Openings BY DEF Awaited
  <2> QED BY <2>6, <2>7, <2>8
<1> QED BY <1>1, StreamsHold, PTL

(* What the client of a run was shown is public however the text goes on:  *)
(* no character of a marker that is cut in two, or of what follows it, was *)
(* shown too early, and none is taken back                                 *)
(* (_PrivateProtocolDeltaFilter.feed).                                      *)
ShownStaysPublic ==
  reader = "run" /\ stage = "reading" =>
     \A q \in Text : \E t \in Text : Public(answer.text \o q) = filter.shown \o t

THEOREM RunNeverShowsEarly == Spec => []ShownStaysPublic
<1>1. ASSUME Inv PROVE ShownStaysPublic
  <2>1. SUFFICES ASSUME reader = "run", stage = "reading", NEW q \in Text
                 PROVE  \E t \in Text : Public(answer.text \o q) = filter.shown \o t
    BY DEF ShownStaysPublic
  <2>2. filter = Feed(Fresh, answer.text) /\ answer.text \in Text
    BY <1>1, <2>1 DEF Inv, RunFollows, Following, TypeOK, Answers
  <2> QED BY <2>2, PublicStays DEF Extends
<1> QED BY <1>1, StreamsHold, PTL

(* A run is given an answer only if Hermes confirmed the end of the turn   *)
(* and reported no error, and unless Hermes replaced the text the client   *)
(* was shown all of that answer (the end of _submit_agent_run_stream).     *)
THEOREM RunAnswerIsConfirmed == Spec => []AnswerIsConfirmed
<1>1. Inv => AnswerIsConfirmed BY DEF Inv
<1> QED BY <1>1, StreamsHold, PTL

(* A chat tells each report file of its turn once, and at the end all that *)
(* are still there, unless the last lookup failed                          *)
(* (_new_artifact_ready_events, _relay_hermes_sse_with_artifacts).         *)
THEOREM ChatFilesAreTold == Spec => []FilesAreTold
<1>1. ASSUME Inv PROVE FilesAreTold
  <2>1. FilesTold = Telling(out) BY DEF FilesTold, Telling
  <2>2. told = FilesTold /\ told \cap existing = {} /\ Once(out) BY <1>1, <2>1 DEF Inv, ToldOnce
  <2>3. \A i \in DOMAIN out : "file" \in DOMAIN out[i] => out[i].file \in FilesTold
    BY DEF FilesTold
  <2>4. \A i, j \in DOMAIN out : "file" \in DOMAIN out[i] /\ out[i] = out[j]
            => i = j /\ out[i].file \notin existing
    BY <2>2, <2>3 DEF Once
  <2>5. stage = "ended" /\ reader = "chat" /\ ~missed =>
           \A n \in 1 .. MaxFiles : files[n] = "there" => n \in existing \cup FilesTold
    BY <1>1, <2>2 DEF Inv, AllTold
  <2> QED BY <2>4, <2>5 DEF FilesAreTold
<1> QED BY <1>1, StreamsHold, PTL

(* What a client received has its parts in order, and the last of them     *)
(* ends a frame unless the stream ended before it: a part that is not the  *)
(* last of its frame is followed by the next.                              *)
LEMMA GoesOn ==
  ASSUME Inv, reader = "chat", NEW i \in 1 .. Len(out), i < Len(out), IsPart(out[i]),
         out[i].part < 3
  PROVE  out[i + 1] = [out[i] EXCEPT !.part = @ + 1] \/ (~open /\ Place(out[i]) = sent)
<1>0. PICK e : \E b \in Nat : Placed(e, b) BY DEF Inv, InPlace
<1>1. PICK a : a = e[0] /\ a \in Ends /\ InOrder(out, a)
  <2>1. PICK b \in Nat : Placed(e, b) BY <1>0
  <2>2. Len(frames) \in Nat BY LenProperties DEF Inv, TypeOK
  <2>3. 0 \in 0 .. Len(frames) BY <2>2
  <2> QED BY <2>1, <2>3 DEF Placed
<1>2. PICK L \in Nat : L = Len(out) /\ DOMAIN out = 1 .. L BY LenProperties DEF Inv, TypeOK
<1>3. ASSUME NEW j \in 1 .. L, IsPart(out[j])
      PROVE  out[j] \in PacketsOf(reader) /\ Place(out[j]) \in 1 .. a
                /\ Passed(out, j - 1) = 1 .. (Place(out[j]) - 1)
  <2>1. out[j] \in EventsOf(reader) BY <1>2, ElementOfSeq DEF Inv, TypeOK
  <2>2. out[j] \in PacketsOf(reader) BY <1>3, <2>1, Others DEF EventsOf, IsPart
  <2>3. Place(out[j]) \in Passed(out, L) BY <1>3 DEF Passed
  <2> QED BY <1>1, <1>2, <1>3, <2>2, <2>3 DEF InOrder
<1>4. PICK x \in PacketsOf(reader) : /\ x = out[i] /\ Place(x) \in 1 .. a
                                     /\ Passed(out, i - 1) = 1 .. (Place(x) - 1)
  BY <1>2, <1>3
<1>5. PICK p \in Nat : p = Place(x) /\ p \notin Thirds BY <1>4, Places
<1>6. a \in Nat BY <1>1 DEF Ends
<1>7. CASE p = a BY <1>1, <1>4, <1>5, <1>7 DEF Ends
<1>8. CASE p # a
  <2>1. p + 1 \in 1 .. a BY <1>4, <1>5, <1>6, <1>8
  <2>2. p + 1 \in Passed(out, L) BY <1>1, <1>2, <2>1 DEF InOrder
  <2>3. PICK j \in 1 .. L : IsPart(out[j]) /\ Place(out[j]) = p + 1 BY <2>2 DEF Passed
  <2>4. PICK y \in PacketsOf(reader) : y = out[j] /\ Place(y) = p + 1 BY <1>3, <2>3
  <2>5. y.part > 1
    <3>1. PICK m \in Nat : Place(x) = 3 * m + x.part BY Places
    <3>2. PICK n \in Nat : Place(y) = 3 * n + y.part BY Places
    <3>3. x.part \in 1 .. 2
      <4>1. x.part \in 1 .. 3 BY Places
      <4> QED BY <1>4, <4>1
    <3>4. y.part \in 1 .. 3 BY Places
    <3>5. PICK c \in 1 .. 2, d \in 1 .. 3 : c = x.part /\ d = y.part /\ 3 * n + d = 3 * m + c + 1
      BY <1>5, <2>4, <3>1, <3>2, <3>3, <3>4
    <3>6. d # 1 BY <3>5
    <3> QED BY <3>5, <3>6
  <2>6. j > 1 /\ out[j - 1] = [y EXCEPT !.part = @ - 1]
    BY <1>2, <2>3, <2>4, <2>5 DEF Inv, Whole, IsPart
  <2>7. PICK k \in 1 .. L : k = j - 1 BY <2>6
  <2>8. IsPart(out[k]) /\ Place(out[k]) = p
    <3>1. "part" \in DOMAIN y /\ y.part \in 1 .. 3 BY Packets
    <3>2. y = [frame |-> y.frame, part |-> y.part] BY DEF PacketsOf
    <3>3. out[k] = [frame |-> y.frame, part |-> y.part - 1] BY <2>6, <2>7, <3>2
    <3>4. IsPart(out[k]) BY <3>3 DEF IsPart
    <3>5. PICK n \in Nat : y.frame.before = 3 * n BY Places
    <3>6. Place(y) = 3 * n + y.part /\ Place(out[k]) = 3 * n + (y.part - 1)
      BY <3>3, <3>5 DEF Place
    <3>7. PICK d \in 1 .. 3 : d = y.part BY <3>1
    <3>8. 3 * n + d = p + 1 => 3 * n + (d - 1) = p OBVIOUS
    <3> QED BY <2>4, <3>4, <3>6, <3>7, <3>8
  <2>9. k = i
    <3>1. Passed(out, k - 1) = 1 .. (p - 1) BY <1>3, <2>8
    <3>2. Passed(out, i - 1) = 1 .. (p - 1) BY <1>4, <1>5
    <3>3. p \notin 1 .. (p - 1) BY <1>5
    <3>4. ~(k <= i - 1)
      <4>1. SUFFICES ASSUME k <= i - 1 PROVE FALSE OBVIOUS
      <4>2. k \in 1 .. (i - 1) BY <1>2, <4>1
      <4>3. p \in Passed(out, i - 1) BY <2>8, <4>2 DEF Passed
      <4> QED BY <3>2, <3>3, <4>3
    <3>5. ~(i <= k - 1)
      <4>1. SUFFICES ASSUME i <= k - 1 PROVE FALSE OBVIOUS
      <4>2. i \in 1 .. (k - 1) BY <1>2, <4>1
      <4>3. p \in Passed(out, k - 1) BY <1>4, <1>5, <4>2 DEF Passed
      <4> QED BY <3>1, <3>3, <4>3
    <3>6. i \in 1 .. L BY <1>2
    <3> QED BY <3>4, <3>5, <3>6
  <2>10. out[i + 1] = y /\ x = [y EXCEPT !.part = @ - 1]
    <3>1. i + 1 = j BY <2>7, <2>9
    <3> QED BY <1>4, <2>4, <2>6, <2>7, <2>9, <3>1
  <2>11. y = [x EXCEPT !.part = @ + 1]
    <3>1. y = [frame |-> y.frame, part |-> y.part] /\ y.part \in 1 .. 3 BY DEF PacketsOf
    <3>2. x = [frame |-> y.frame, part |-> y.part - 1] BY <2>10, <3>1
    <3>3. [x EXCEPT !.part = @ + 1] = [frame |-> y.frame, part |-> y.part - 1 + 1] BY <3>2
    <3>4. y.part - 1 + 1 = y.part BY <3>1
    <3> QED BY <3>1, <3>3, <3>4
  <2> QED BY <1>4, <2>10, <2>11
<1> QED BY <1>7, <1>8

(* However the network cut the stream, the client of a chat receives just  *)
(* the parts that Hermes sent, each after all those sent before it, the    *)
(* parts of a frame with no event between them unless the stream ends      *)
(* within it, and, unless it is told of a failure, all of them             *)
(* (_split_complete_sse_events, _relay_hermes_sse_with_artifacts).         *)
THEOREM ChatFramesPassedOn == Spec => []FramesPassedOn
<1>1. ASSUME Inv PROVE FramesPassedOn
  <2>1. CASE reader = "run"
    <3>1. out = <<>> BY <1>1, <2>1 DEF Inv, InPlace
    <3>2. \A i \in DOMAIN out : FALSE BY <3>1
    <3> QED BY <2>1, <3>2 DEF FramesPassedOn
  <2>2. CASE reader = "chat"
    <3>0. PICK e : \E b \in Nat : Placed(e, b) BY <1>1, <2>2 DEF Inv, InPlace
    <3>1. PICK b \in Nat : Placed(e, b) BY <3>0
    <3>2. InOrder(out, e[0]) BY <3>1 DEF Placed
    <3>3. DOMAIN out = 1 .. Len(out) BY <1>1, LenProperties DEF Inv, TypeOK
    <3>4. \A i \in DOMAIN out : IsPart(out[i]) => Passed(out, i - 1) = 1 .. (Place(out[i]) - 1)
      BY <3>2, <3>3 DEF InOrder
    <3>5. \A i \in DOMAIN out : IsPart(out[i]) /\ i < Len(out) /\ out[i].part < 3 =>
             out[i + 1] = [out[i] EXCEPT !.part = @ + 1] \/ (~open /\ Place(out[i]) = sent)
      BY <1>1, <2>2, <3>3, GoesOn
    <3>6. stage \in {"closing", "ended"} /\ (\A i \in DOMAIN out : out[i] # Notice) =>
             Passed(out, Len(out)) = 1 .. sent
      BY <3>1, <3>2 DEF Placed, InOrder
    <3> QED BY <3>4, <3>5, <3>6 DEF FramesPassedOn
  <2> QED BY <1>1, <2>1, <2>2 DEF Inv, TypeOK
<1> QED BY <1>1, StreamsHold, PTL
=============================================================================
