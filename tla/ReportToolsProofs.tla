------------------------- MODULE ReportToolsProofs -------------------------
(***************************************************************************)
(* Answers, query results and report files, for any turns, sessions and    *)
(* bounds: an answer that a client was told is taken is used, the quotas   *)
(* hold, the oldest results leave first, and an export is whole.  There is *)
(* an invariant for each of the three registries; as no step relates two   *)
(* of them, each is proved by itself.                                      *)
(***************************************************************************)
EXTENDS ReportTools, FiniteSetTheorems, WellFoundedInduction, TLAPS

-----------------------------------------------------------------------------
(* Questions.  The invariant says what the property leaves out: while the  *)
(* agent waits, its question is listed and has the status that the client  *)
(* was told.                                                               *)

Working == {"asking", "waiting", "awake"}

(* The question of a turn is listed exactly while its agent is about it,   *)
(* and counts as answered exactly when its client was told so.             *)
QuestionInv(t) ==
    /\ agent[t] \in {"none", "lost"} => question[t] = NoQuestion
    /\ agent[t] \in Working => question[t] # NoQuestion
    /\ question[t] # NoQuestion =>
           /\ question[t].told <=> question[t].status = "answered"
           /\ agent[t] = "asking" => ~question[t].told
           /\ agent[t] \in Working => question[t].listed /\ ~question[t].used
           /\ agent[t] \in {"idle", "stopped"} =>
                  ~question[t].listed /\ question[t].used = question[t].told
           /\ agent[t] = "idle" => question[t].used

ClarifyInv ==
    /\ ClarifyOK
    /\ \A t \in Turns : stream[t] = "new" => agent[t] = "none"
    /\ \A t \in Turns : QuestionInv(t)

(* A question is a record with a status, so it is not the empty one. *)
LEMMA QuestionIsAsked ==
    /\ Asked \in Question
    /\ \A q \in Question : q # NoQuestion
BY DEF Asked, Question, NoQuestion

LEMMA InitClarifyInv == Init => ClarifyInv
BY DEF Init, ClarifyInit, ClarifyInv, ClarifyOK, QuestionInv, Working

(* Expiring the pending questions of a session keeps the invariant. *)
LEMMA ExpireKeepsQuestions ==
    ASSUME ClarifyInv, NEW s \in Sessions, Expires(s)
    PROVE  /\ question' \in [Turns -> Question \cup {NoQuestion}]
           /\ \A t \in Turns : agent[t] = agent'[t] => QuestionInv(t)'
           /\ \A t \in Turns : question[t] = NoQuestion => question'[t] = NoQuestion
<1>1. \A t \in Turns : \/ question'[t] = question[t]
                       \/ /\ question[t] \in Question
                          /\ question[t].status = "pending"
                          /\ question'[t] = [question[t] EXCEPT !.status = "expired", !.ready = TRUE]
  BY QuestionIsAsked DEF ClarifyInv, ClarifyOK, Expires, PendingOf, Listed
<1>2. question' \in [Turns -> Question \cup {NoQuestion}]
  <2>1. ASSUME NEW q \in Question
        PROVE  [q EXCEPT !.status = "expired", !.ready = TRUE] \in Question
    BY DEF Question
  <2>2. ASSUME NEW t \in Turns PROVE question'[t] \in Question \cup {NoQuestion}
    <3>1. question[t] \in Question \cup {NoQuestion} BY DEF ClarifyInv, ClarifyOK
    <3>2. CASE question'[t] = question[t] BY <3>1, <3>2
    <3>3. CASE /\ question[t] \in Question
               /\ question'[t] = [question[t] EXCEPT !.status = "expired", !.ready = TRUE]
      <4>1. [question[t] EXCEPT !.status = "expired", !.ready = TRUE] \in Question BY <2>1, <3>3, Zenon
      <4> QED BY <3>3, <4>1, Zenon
    <3> QED BY <1>1, <3>2, <3>3, Zenon
  <2> QED BY <2>2 DEF Expires
<1>3. ASSUME NEW t \in Turns, agent[t] = agent'[t] PROVE QuestionInv(t)'
  <2>1. QuestionInv(t) BY DEF ClarifyInv
  <2>2. CASE question'[t] = question[t] BY <1>3, <2>1, <2>2 DEF QuestionInv, Working
  <2>3. CASE /\ question[t] \in Question
             /\ question[t].status = "pending"
             /\ question'[t] = [question[t] EXCEPT !.status = "expired", !.ready = TRUE]
    <3>1. /\ question'[t].told = question[t].told /\ question'[t].used = question[t].used
          /\ question'[t].listed = question[t].listed /\ question'[t].status = "expired"
          /\ question'[t] # NoQuestion /\ question[t] # NoQuestion
      BY <2>3, QuestionIsAsked DEF Question, NoQuestion
    <3> QED BY <3>1, <2>1, <2>3, <1>3 DEF QuestionInv, Working
  <2> QED BY <1>1, <2>2, <2>3
<1>4. \A t \in Turns : question[t] = NoQuestion => question'[t] = NoQuestion
  BY <1>1, QuestionIsAsked
<1> QED BY <1>2, <1>3, <1>4

(* A step that changes the question of one turn keeps the others. *)
LEMMA NextClarifyInv == ClarifyInv /\ [Next]_vars => ClarifyInv'
<1> SUFFICES ASSUME ClarifyInv, [Next]_vars PROVE ClarifyInv' OBVIOUS
<1> USE DEF ClarifyInv, ClarifyOK
<1>0. ASSUME UNCHANGED clarifyVars PROVE ClarifyInv'
  BY <1>0 DEF clarifyVars, QuestionInv, Working
<1>1. ASSUME NEW t \in Turns, Opens(t) PROVE ClarifyInv'
  <2>1. Expires(SessionOf[t]) /\ SessionOf[t] \in Sessions
    BY <1>1, SessionOfAssumption DEF Opens
  <2>2. question[t] = NoQuestion BY <1>1 DEF Opens, QuestionInv
  <2>3. \A u \in Turns \ {t} : agent'[u] = agent[u] /\ stream'[u] = stream[u] BY <1>1 DEF Opens
  <2>4. agent'[t] = "idle" /\ stream'[t] = "open" BY <1>1 DEF Opens
  <2>5. QuestionInv(t)' BY <2>1, <2>2, <2>4, ExpireKeepsQuestions DEF QuestionInv, Working
  <2>6. \A u \in Turns : QuestionInv(u)' BY <2>1, <2>3, <2>5, ExpireKeepsQuestions
  <2> QED BY <2>1, <2>3, <2>4, <2>6, <1>1, ExpireKeepsQuestions DEF Opens
<1>2. ASSUME NEW t \in Turns, Closes(t) PROVE ClarifyInv'
  <2>1. Expires(SessionOf[t]) /\ SessionOf[t] \in Sessions
    BY <1>2, SessionOfAssumption DEF Closes
  <2>2. \A u \in Turns : QuestionInv(u)' BY <2>1, <1>2, ExpireKeepsQuestions DEF Closes
  <2> QED BY <2>1, <2>2, <1>2, ExpireKeepsQuestions DEF Closes
<1>3. ASSUME NEW t \in Turns, Ask(t) PROVE ClarifyInv'
  <2>1. QuestionInv(t)' BY <1>3, QuestionIsAsked DEF Ask, Asked, QuestionInv, Working
  <2>2. \A u \in Turns \ {t} : QuestionInv(u)' BY <1>3 DEF Ask, QuestionInv, Working
  <2> QED BY <1>3, <2>1, <2>2, QuestionIsAsked DEF Ask
<1>4. ASSUME NEW t \in Turns, Deliver(t) PROVE ClarifyInv'
  <2>1. question[t] \in Question /\ question[t] # NoQuestion
    BY <1>4, QuestionIsAsked DEF Deliver, QuestionInv, Working
  <2>5. [question[t] EXCEPT !.status = "expired", !.listed = FALSE, !.ready = TRUE] \in Question
    BY <2>1 DEF Question
  <2>2. question'[t] \in Question /\ question'[t] # NoQuestion
    BY <1>4, <2>1, <2>5, QuestionIsAsked DEF Deliver
  <2>3. QuestionInv(t)'
    <3>1. CASE question' = question /\ agent' = [agent EXCEPT ![t] = "waiting"]
      BY <1>4, <3>1, <2>1 DEF Deliver, QuestionInv, Working
    <3>2. CASE /\ agent' = [agent EXCEPT ![t] = "stopped"]
               /\ question' = [question EXCEPT ![t] =
                      [@ EXCEPT !.status = "expired", !.listed = FALSE, !.ready = TRUE]]
      <4>1. /\ question'[t].told = question[t].told /\ question'[t].used = question[t].used
            /\ ~question'[t].listed /\ question'[t].status = "expired"
        BY <3>2, <2>1 DEF Question
      <4>2. ~question[t].told /\ ~question[t].used
        BY <1>4, <2>1 DEF Deliver, QuestionInv, Working
      <4> QED BY <3>2, <4>1, <4>2, <2>2, <2>1 DEF QuestionInv, Working, Question
    <3> QED BY <1>4, <3>1, <3>2 DEF Deliver
  <2>4. \A u \in Turns \ {t} : QuestionInv(u)' BY <1>4 DEF Deliver, QuestionInv, Working
  <2> QED BY <1>4, <2>2, <2>3, <2>4 DEF Deliver
<1>5. ASSUME NEW t \in Turns, Later(t) PROVE ClarifyInv'
  <2>1. question[t] \in Question /\ question[t] # NoQuestion
    BY <1>5, QuestionIsAsked DEF Later, Listed
  <2>2. question'[t] \in Question /\ question'[t] # NoQuestion
    BY <1>5, <2>1, QuestionIsAsked DEF Later, Question
  <2>3. QuestionInv(t)' BY <1>5, <2>1, <2>2 DEF Later, QuestionInv, Working, Question
  <2>4. \A u \in Turns \ {t} : QuestionInv(u)' BY <1>5 DEF Later, QuestionInv, Working
  <2> QED BY <1>5, <2>2, <2>3, <2>4 DEF Later
<1>6. ASSUME NEW t \in Turns, Wakes(t) PROVE ClarifyInv'
  <2>1. \A u \in Turns : QuestionInv(u)' BY <1>6 DEF Wakes, QuestionInv, Working
  <2> QED BY <1>6, <2>1 DEF Wakes
<1>7. ASSUME NEW t \in Turns, Settles(t) PROVE ClarifyInv'
  <2>1. question[t] \in Question /\ question[t] # NoQuestion
    BY <1>7, QuestionIsAsked DEF Settles, QuestionInv, Working
  <2>5. ASSUME NEW v \in BOOLEAN, NEW st \in {"answered", "expired"}
        PROVE  [question[t] EXCEPT !.listed = FALSE, !.used = v, !.status = st] \in Question
    BY <2>1 DEF Question
  <2>6. question'[t] \in Question
    <3>1. CASE Valid(t)
      <4>1. question'[t] = [question[t] EXCEPT !.listed = FALSE, !.used = TRUE, !.status = "answered"]
        BY <1>7, <3>1 DEF Settles, Valid
      <4> QED BY <4>1, <2>5
    <3>2. CASE ~Valid(t)
      <4>1. question'[t] = [question[t] EXCEPT !.listed = FALSE, !.used = FALSE, !.status = "expired"]
        BY <1>7, <3>2 DEF Settles, Valid
      <4> QED BY <4>1, <2>5
    <3> QED BY <3>1, <3>2
  <2>2. question'[t] \in Question /\ question'[t] # NoQuestion BY <2>6, QuestionIsAsked
  <2>3. QuestionInv(t)' BY <1>7, <2>1, <2>2 DEF Settles, QuestionInv, Working, Question, Valid
  <2>4. \A u \in Turns \ {t} : QuestionInv(u)' BY <1>7 DEF Settles, QuestionInv, Working
  <2> QED BY <1>7, <2>2, <2>3, <2>4 DEF Settles
<1>8. ASSUME NEW t \in Turns, Answer(t) PROVE ClarifyInv'
  <2>1. question[t] \in Question /\ question[t] # NoQuestion
    BY <1>8, QuestionIsAsked DEF Answer, Listed
  <2>2. question'[t] \in Question /\ question'[t] # NoQuestion
    BY <1>8, <2>1, QuestionIsAsked DEF Answer, Question
  <2>3. QuestionInv(t)' BY <1>8, <2>1, <2>2, ZenonT(60) DEF Answer, QuestionInv, Working, Question
  <2>4. \A u \in Turns \ {t} : QuestionInv(u)' BY <1>8 DEF Answer, QuestionInv, Working
  <2> QED BY <1>8, <2>2, <2>3, <2>4 DEF Answer
<1>9. ASSUME Crash PROVE ClarifyInv'
  <2>1. \A u \in Turns : QuestionInv(u)' BY <1>9 DEF Crash, QuestionInv, Working
  <2> QED BY <1>9, <2>1 DEF Crash
<1>10. ASSUME Next PROVE ClarifyInv'
  <2>1. CASE Users \/ Time BY <2>1, <1>0, <1>2, <1>8 DEF Users, Time
  <2>2. CASE Crash BY <2>2, <1>9
  <2>6. ASSUME NEW t \in Turns, Starts(t) PROVE ClarifyInv' BY <2>6, <1>1 DEF Starts
  <2>3. ASSUME NEW t \in Turns, Call(t) PROVE ClarifyInv' BY <2>3, <1>0, <1>3 DEF Call
  <2>4. ASSUME NEW t \in Turns, Works(t) PROVE ClarifyInv' BY <2>4, <1>0, <1>4, <1>6, <1>7 DEF Works
  <2>5. ASSUME NEW t \in Turns, Passes(t) PROVE ClarifyInv' BY <2>5, <1>5 DEF Passes
  <2> QED BY <1>10, <2>1, <2>2, <2>3, <2>4, <2>5, <2>6 DEF Next
<1> QED BY <1>0, <1>10 DEF vars

(* What the registry, the threads and the handlers keep at every step. *)
THEOREM ClarifyInvariant == Spec => []ClarifyInv
BY InitClarifyInv, NextClarifyInv, PTL DEF Spec

(* An answer that was accepted is the one the agent goes on with, and an   *)
(* agent goes on only with one: for every number of turns and sessions.    *)
THEOREM AnswersUsed == Spec => []AnswersAreUsed
<1>1. ClarifyInv => AnswersAreUsed
  <2> SUFFICES ASSUME ClarifyInv, NEW t \in Turns, question[t] # NoQuestion
               PROVE /\ question[t].used => question[t].told
                     /\ agent[t] \in {"idle", "stopped"} => question[t].used = question[t].told
                     /\ agent[t] = "idle" => question[t].used
    BY DEF AnswersAreUsed
  <2> QED BY DEF ClarifyInv, ClarifyOK, QuestionInv, Working
<1> QED BY <1>1, ClarifyInvariant, PTL

-----------------------------------------------------------------------------
(* Sums over finite sets.  A fold is a recursive function on the subsets   *)
(* of its set; that there is one, and that it does not depend on the order *)
(* in which elements are chosen, is shown by looking at a smallest set for *)
(* which it fails.                                                         *)

LEMMA SmallestMember ==
    ASSUME NEW S, IsFiniteSet(S), NEW F, F \subseteq SUBSET S, F # {}
    PROVE  \E A \in F : \A B \in F : B \subseteq A => B = A
<1>1. IsWellFoundedOn(StrictSubsetOrdering(S), FiniteSubsetsOf(S)) BY FS_StrictSubsetOrderingWellFounded
<1>2. F \subseteq FiniteSubsetsOf(S) BY FS_Subset DEF FiniteSubsetsOf
<1>3. \E A \in F : \A B \in F : ~(<<B, A>> \in StrictSubsetOrdering(S)) BY <1>1, <1>2, WFMin, Zenon
<1> QED BY <1>3 DEF StrictSubsetOrdering

Some(R) == CHOOSE r \in R : TRUE

Sums(sum, R) ==
    sum = [S \in SUBSET R |-> IF S = {} THEN 0 ELSE Some(S).size + sum[S \ {Some(S)}]]

LEMMA SumsAgree ==
    ASSUME NEW R, IsFiniteSet(R), NEW A \in SUBSET R, NEW B \in SUBSET R,
           NEW f, Sums(f, A), NEW g, Sums(g, B)
    PROVE  \A S \in SUBSET (A \cap B) : f[S] = g[S]
<1> DEFINE F == {S \in SUBSET (A \cap B) : f[S] # g[S]}
<1> SUFFICES ASSUME F # {} PROVE FALSE OBVIOUS
<1>1. PICK S \in F : \A T \in F : T \subseteq S => T = S
  <2> HIDE DEF F
  <2>1. F \subseteq SUBSET R BY DEF F
  <2> QED BY <2>1, SmallestMember
<1>2. S \in SUBSET A /\ S \in SUBSET B /\ f[S] # g[S] BY <1>1
<1>3. f[S] = IF S = {} THEN 0 ELSE Some(S).size + f[S \ {Some(S)}] BY <1>2 DEF Sums
<1>4. g[S] = IF S = {} THEN 0 ELSE Some(S).size + g[S \ {Some(S)}] BY <1>2 DEF Sums
<1>5. S # {} BY <1>2, <1>3, <1>4
<1>6. Some(S) \in S BY <1>5 DEF Some
<1>7. f[S \ {Some(S)}] = g[S \ {Some(S)}] BY <1>1, <1>6
<1> QED BY <1>2, <1>3, <1>4, <1>5, <1>7

LEMMA SumsExist ==
    ASSUME NEW R, IsFiniteSet(R)
    PROVE  \E sum : Sums(sum, R)
<1> DEFINE F == {S \in SUBSET R : ~ \E sum : Sums(sum, S)}
<1> SUFFICES ASSUME F # {} PROVE FALSE OBVIOUS
<1>1. PICK A \in F : \A T \in F : T \subseteq A => T = A
  <2> HIDE DEF F
  <2>1. F \subseteq SUBSET R BY DEF F
  <2> QED BY <2>1, SmallestMember
<1> DEFINE H(S) == (CHOOSE sum : Sums(sum, S))[S]
           sum == [S \in SUBSET A |-> IF S = {} THEN 0
                                      ELSE Some(S).size + H(S \ {Some(S)})]
<1>2. ASSUME NEW S \in SUBSET A, S # A
      PROVE  Sums(CHOOSE f : Sums(f, S), S)
  <2>1. \E f : Sums(f, S) BY <1>1, <1>2
  <2> QED BY <2>1
<1>3. ASSUME NEW S \in SUBSET A, S # A, S # {}
      PROVE  H(S) = Some(S).size + H(S \ {Some(S)})
  <2> DEFINE x == Some(S)
             f == CHOOSE h : Sums(h, S)
             g == CHOOSE h : Sums(h, S \ {x})
  <2>1. x \in S BY <1>3 DEF Some
  <2>2. Sums(f, S) BY <1>2, <1>3
  <2>3. Sums(g, S \ {x})
    <3>1. S \ {x} \in SUBSET A /\ S \ {x} # A BY <2>1
    <3> QED BY <3>1, <1>2
  <2>4. f[S \ {x}] = g[S \ {x}]
    <3>1. S \in SUBSET R /\ S \ {x} \in SUBSET R BY <1>1
    <3> HIDE DEF f, g, x
    <3> QED BY <3>1, <2>2, <2>3, SumsAgree
  <2>5. f[S] = x.size + f[S \ {x}] BY <2>2, <1>3, Zenon DEF Sums
  <2> QED BY <2>4, <2>5
<1>4. ASSUME NEW S \in SUBSET A, S # {}
      PROVE  sum[S \ {Some(S)}] = H(S \ {Some(S)})
  <2> DEFINE T == S \ {Some(S)}
  <2>1. Some(S) \in S BY <1>4 DEF Some
  <2>2. T \in SUBSET A /\ T # A BY <2>1
  <2>3. CASE T = {}
    <3>1. Sums(CHOOSE f : Sums(f, {}), {}) BY <1>2, <2>2, <2>3
    <3>2. H({}) = 0 BY <3>1 DEF Sums
    <3> QED BY <3>2, <2>3, <2>2
  <2>4. CASE T # {}
    <3>1. sum[T] = Some(T).size + H(T \ {Some(T)}) BY <2>2, <2>4
    <3>2. H(T) = Some(T).size + H(T \ {Some(T)}) BY <2>2, <2>4, <1>3
    <3> QED BY <3>1, <3>2
  <2> QED BY <2>3, <2>4
<1>5. Sums(sum, A)
  <2> DEFINE E(S) == IF S = {} THEN 0 ELSE Some(S).size + sum[S \ {Some(S)}]
  <2>1. ASSUME NEW S \in SUBSET A PROVE sum[S] = E(S)
    <3>1. CASE S = {} BY <3>1
    <3>2. CASE S # {}
      <4>1. sum[S] = Some(S).size + H(S \ {Some(S)}) BY <3>2
      <4> HIDE DEF sum, H
      <4> QED BY <4>1, <3>2, <1>4
    <3> QED BY <3>1, <3>2
  <2>2. sum = [S \in SUBSET A |-> sum[S]] OBVIOUS
  <2> HIDE DEF sum
  <2> QED BY <2>1, <2>2 DEF Sums
<1> QED BY <1>1, <1>5

LEMMA BytesIsSum ==
    ASSUME NEW R, IsFiniteSet(R)
    PROVE  \E sum : Sums(sum, R) /\ Bytes(R) = sum[R]
<1>1. PICK sum : Sums(sum, R) BY SumsExist
<1> DEFINE f == CHOOSE iter : iter = [S \in SUBSET R |->
              IF S = {} THEN 0
              ELSE (CHOOSE x \in S : TRUE).size + iter[S \ {CHOOSE x \in S : TRUE}]]
<1>2. Bytes(R) = f[R] BY DEF Bytes, MapThenSumSet, MapThenFoldSet
<1>3. Sums(f, R) BY <1>1 DEF Sums, Some
<1> QED BY <1>2, <1>3

LEMMA BytesOfEmpty == Bytes({}) = 0
BY BytesIsSum, FS_EmptySet DEF Sums

LEMMA BytesStep ==
    ASSUME NEW R, IsFiniteSet(R), R # {}
    PROVE  Some(R) \in R /\ Bytes(R) = Some(R).size + Bytes(R \ {Some(R)})
<1> DEFINE x == Some(R)
<1>1. x \in R BY DEF Some
<1>2. IsFiniteSet(R \ {x}) BY FS_Subset
<1>3. PICK f : Sums(f, R) /\ Bytes(R) = f[R] BY BytesIsSum
<1>4. PICK g : Sums(g, R \ {x}) /\ Bytes(R \ {x}) = g[R \ {x}] BY <1>2, BytesIsSum
<1>5. f[R \ {x}] = g[R \ {x}]
  <2>1. R \in SUBSET R /\ R \ {x} \in SUBSET R OBVIOUS
  <2> HIDE DEF x
  <2>2. \A S \in SUBSET (R \cap (R \ {x})) : f[S] = g[S] BY <2>1, <1>3, <1>4, SumsAgree
  <2> QED BY <2>2
<1>6. f[R] = x.size + f[R \ {x}] BY <1>3, Zenon DEF Sums
<1> QED BY <1>1, <1>3, <1>4, <1>5, <1>6

Sized(R) == IsFiniteSet(R) /\ \A r \in R : r.size \in Nat

LEMMA BytesRemove ==
    ASSUME NEW R, Sized(R)
    PROVE  /\ Bytes(R) \in Nat
           /\ \A r \in R : Bytes(R) = r.size + Bytes(R \ {r})
<1> DEFINE Fine(S) == Bytes(S) \in Nat /\ \A r \in S : Bytes(S) = r.size + Bytes(S \ {r})
           F == {S \in SUBSET R : ~Fine(S)}
<1>0. IsFiniteSet(R) BY DEF Sized
<1> SUFFICES ASSUME F # {} PROVE FALSE OBVIOUS
<1>1. PICK S \in F : \A T \in F : T \subseteq S => T = S
  <2> HIDE DEF F
  <2>1. F \subseteq SUBSET R BY DEF F
  <2> QED BY <2>1, <1>0, SmallestMember
<1>2. S \subseteq R /\ ~Fine(S) BY <1>1
<1>3. IsFiniteSet(S) BY <1>0, <1>2, FS_Subset
<1>4. S # {}
  <2>1. Fine({}) BY BytesOfEmpty
  <2> HIDE DEF Fine
  <2> QED BY <2>1, <1>2
<1> DEFINE y == Some(S)
<1>5. y \in S /\ Bytes(S) = y.size + Bytes(S \ {y}) BY <1>3, <1>4, BytesStep
<1> HIDE DEF y
<1>6. ASSUME NEW r \in S PROVE Fine(S \ {r})
  <2>1. S \ {r} \notin F BY <1>1
  <2> QED BY <2>1, <1>2
<1>7. \A r \in S : r.size \in Nat /\ Bytes(S \ {r}) \in Nat BY <1>2, <1>6 DEF Sized
<1>8. ASSUME NEW r \in S, r # y PROVE Bytes(S) = r.size + Bytes(S \ {r})
  <2>1. Bytes(S \ {y}) = r.size + Bytes((S \ {y}) \ {r}) BY <1>5, <1>6, <1>8
  <2>2. Bytes(S \ {r}) = y.size + Bytes((S \ {r}) \ {y}) BY <1>5, <1>6, <1>8
  <2>3. (S \ {y}) \ {r} = (S \ {r}) \ {y} OBVIOUS
  <2>4. Bytes((S \ {r}) \ {y}) \in Nat
    <3> DEFINE T == (S \ {r}) \ {y}
    <3>1. T \subseteq S /\ T # S BY <1>5
    <3>2. Fine(T) BY <3>1, <1>1, <1>2
    <3> QED BY <3>2
  <2>5. Bytes(S) = y.size + (r.size + Bytes((S \ {r}) \ {y})) BY <2>1, <2>3, <1>5
  <2>6. y.size \in Nat /\ r.size \in Nat BY <1>5, <1>7, <1>8
  <2> QED BY <2>2, <2>4, <2>5, <2>6
<1>9. Bytes(S) \in Nat BY <1>5, <1>7
<1> QED BY <1>2, <1>5, <1>8, <1>9

LEMMA BytesGrow ==
    ASSUME NEW R, Sized(R), NEW A \in SUBSET R
    PROVE  Bytes(A) <= Bytes(R)
<1> DEFINE F == {S \in SUBSET R : A \subseteq S /\ ~(Bytes(A) <= Bytes(S))}
<1>0. IsFiniteSet(R) BY DEF Sized
<1> SUFFICES ASSUME F # {} PROVE FALSE OBVIOUS
<1>1. PICK S \in F : \A T \in F : T \subseteq S => T = S
  <2> HIDE DEF F
  <2>1. F \subseteq SUBSET R BY DEF F
  <2> QED BY <2>1, <1>0, SmallestMember
<1>2. ASSUME NEW T \in SUBSET R PROVE Sized(T)
  BY <1>0, <1>2, FS_Subset DEF Sized
<1>3. Bytes(A) \in Nat BY <1>2, BytesRemove
<1>4. A # S BY <1>1, <1>3
<1>5. PICK r \in S : r \notin A BY <1>1, <1>4
<1>6. Bytes(A) <= Bytes(S \ {r}) BY <1>1, <1>5
<1>7. Bytes(S) = r.size + Bytes(S \ {r}) BY <1>1, <1>2, <1>5, BytesRemove
<1>8. r.size \in Nat /\ Bytes(S \ {r}) \in Nat /\ Bytes(S) \in Nat
  <2>1. S \ {r} \in SUBSET R /\ S \in SUBSET R BY <1>1
  <2>2. Sized(S \ {r}) /\ Sized(S) BY <2>1, <1>2
  <2> QED BY <2>2, <1>5, BytesRemove DEF Sized
<1> QED BY <1>1, <1>3, <1>6, <1>7, <1>8

-----------------------------------------------------------------------------
(* The order of the results, and what the registry keeps of them.          *)

Registry(R) ==
    /\ IsFiniteSet(R)
    /\ \A r \in R : r.id \in Nat /\ r.made \in Nat /\ r.size \in Nat
    /\ \A q, r \in R : q.id = r.id => q = r

LEMMA Ordered ==
    ASSUME NEW R, Registry(R), NEW p \in R, NEW q \in R, NEW r \in R
    PROVE  /\ ~Before(r, r)
           /\ q # r => (Before(q, r) <=> ~Before(r, q))
           /\ Before(p, q) /\ Before(q, r) => Before(p, r)
BY DEF Registry, Before

LEMMA RegistryPart ==
    ASSUME NEW R, Registry(R), NEW A \in SUBSET R
    PROVE  Registry(A) /\ Sized(A) /\ Cardinality(A) \in Nat /\ Cardinality(A) <= Cardinality(R)
<1>1. IsFiniteSet(R) BY DEF Registry
<1>2. IsFiniteSet(A) /\ Cardinality(A) <= Cardinality(R) BY <1>1, FS_Subset
<1>3. Cardinality(A) \in Nat BY <1>2, FS_CardinalityType
<1> QED BY <1>2, <1>3 DEF Registry, Sized

(* Of some results one is the oldest. *)
LEMMA OldestExists ==
    ASSUME NEW R, Registry(R), R # {}
    PROVE  \E r \in R : \A q \in R : ~Before(q, r)
<1> DEFINE Older(r) == {q \in R : Before(q, r)}
           F == {Older(r) : r \in R}
<1>1. PICK A \in F : \A B \in F : B \subseteq A => B = A
  <2>1. F \subseteq SUBSET R /\ F # {} OBVIOUS
  <2>2. IsFiniteSet(R) BY DEF Registry
  <2> HIDE DEF F
  <2> QED BY <2>1, <2>2, SmallestMember
<1>2. PICK r \in R : A = Older(r) BY <1>1
<1>3. ASSUME NEW q \in R, Before(q, r) PROVE FALSE
  <2>1. Older(q) \subseteq Older(r) BY <1>3, Ordered
  <2>2. Older(q) = Older(r)
    <3>1. Older(q) \in F OBVIOUS
    <3> HIDE DEF F, Older
    <3> QED BY <1>1, <1>2, <2>1, <3>1
  <2>3. q \in Older(r) /\ q \notin Older(q) BY <1>3, Ordered
  <2> QED BY <2>2, <2>3
<1> QED BY <1>3

LEMMA NewestAreFew ==
    ASSUME NEW R, Registry(R), NEW n \in Nat
    PROVE  Cardinality(Newest(R, n)) <= n
<1> DEFINE N == Newest(R, n)
<1>1. N \subseteq R BY DEF Newest
<1>2. Registry(N) /\ IsFiniteSet(N) BY <1>1, RegistryPart DEF Registry
<1>3. CASE N = {} BY <1>3, FS_EmptySet
<1>4. CASE N # {}
  <2> HIDE DEF N
  <2>1. PICK r \in N : \A q \in N : ~Before(q, r) BY <1>2, <1>4, OldestExists
  <2> DEFINE newer == {q \in R : Before(r, q)}
  <2>2. Cardinality(newer) < n BY <2>1, <1>1 DEF N, Newest
  <2>3. N \ {r} \subseteq newer BY <1>1, <2>1, Ordered
  <2>4. IsFiniteSet(newer) /\ Cardinality(newer) \in Nat
    <3>1. newer \in SUBSET R OBVIOUS
    <3> QED BY <3>1, RegistryPart DEF Registry
  <2>5. Cardinality(N \ {r}) <= Cardinality(newer)
    <3> HIDE DEF newer
    <3> QED BY <2>3, <2>4, FS_Subset
  <2>6. Cardinality(N \ {r}) = Cardinality(N) - 1 BY <2>1, <1>2, FS_RemoveElement
  <2>7. Cardinality(N) \in Nat BY <1>2, FS_CardinalityType
  <2> HIDE DEF newer
  <2> QED BY <2>2, <2>4, <2>5, <2>6, <2>7 DEF N
<1> QED BY <1>3, <1>4

(* One that is among the newest is not older than one that is not. *)
LEMMA NewestAreNew ==
    ASSUME NEW R, Registry(R), NEW n \in Nat,
           NEW k \in Newest(R, n), NEW r \in R \ Newest(R, n)
    PROVE  Before(r, k)
<1> DEFINE After(q) == {p \in R : Before(q, p)}
<1>1. k \in R /\ r \in R /\ k # r BY DEF Newest
<1> SUFFICES ASSUME Before(k, r) PROVE FALSE BY <1>1, Ordered
<1>2. After(r) \in SUBSET After(k) /\ After(k) \in SUBSET R BY <1>1, Ordered
<1>3. Cardinality(After(k)) < n /\ ~(Cardinality(After(r)) < n) BY DEF Newest
<1>4. Registry(After(k)) /\ Cardinality(After(k)) \in Nat BY <1>2, RegistryPart
<1>5. Cardinality(After(r)) \in Nat /\ Cardinality(After(r)) <= Cardinality(After(k))
  <2> HIDE DEF After
  <2> QED BY <1>2, <1>4, RegistryPart
<1> QED BY <1>3, <1>4, <1>5

LEMMA FromGrows ==
    ASSUME NEW R, Registry(R), NEW k \in R, NEW r \in R, Before(k, r)
    PROVE  /\ Bytes(From(R, r)) \in Nat /\ Bytes(From(R, k)) \in Nat
           /\ Bytes(From(R, r)) <= Bytes(From(R, k))
<1>1. From(R, r) \in SUBSET From(R, k) /\ From(R, k) \in SUBSET R BY Ordered DEF From
<1>2. Sized(From(R, k)) BY <1>1, RegistryPart
<1>3. Sized(From(R, r)) BY <1>1, RegistryPart
<1> QED BY <1>1, <1>2, <1>3, BytesRemove, BytesGrow

-----------------------------------------------------------------------------
(* _make_room. *)
LEMMA RoomIsMade ==
    ASSUME NEW R, Registry(R), NEW s, NEW bytes \in Nat, bytes <= MaxBytes
    PROVE  LET left == MakeRoom(R, s, bytes)
           IN  /\ left \subseteq R
               /\ Bytes(left) \in Nat /\ Bytes(left) + bytes <= MaxBytes
               /\ Cardinality({r \in left : r.session = s}) <= MaxPerSession - 1
<1> DEFINE own  == {r \in R : r.session = s}
           few  == Newest(own, MaxPerSession - 1)
           kept == (R \ own) \cup few
           left == {r \in kept : Bytes(From(kept, r)) + bytes <= MaxBytes}
<1>1. left = MakeRoom(R, s, bytes) BY DEF MakeRoom
<1>2. few \subseteq own /\ kept \subseteq R /\ left \subseteq kept BY DEF Newest
<1>3. MaxPerSession - 1 \in Nat /\ MaxBytes \in Nat BY QueryResultsAssumption
<1>4. Registry(own) /\ Registry(kept) /\ Registry(left) /\ Sized(left)
  <2> HIDE DEF few, kept, left
  <2> QED BY <1>2, RegistryPart
<1>5. Bytes(left) \in Nat BY <1>4, BytesRemove
<1>6. Bytes(left) + bytes <= MaxBytes
  <2>1. CASE left = {}
    <3> HIDE DEF left
    <3> QED BY <2>1, <1>3, BytesOfEmpty
  <2>2. CASE left # {}
    <3>1. PICK r \in left : \A q \in left : ~Before(q, r)
      <4> HIDE DEF left
      <4> QED BY <1>4, <2>2, OldestExists
    <3>2. left \subseteq From(kept, r) BY <3>1 DEF From
    <3>3. Bytes(From(kept, r)) + bytes <= MaxBytes BY <3>1
    <3>4. Sized(From(kept, r)) /\ Bytes(From(kept, r)) \in Nat
      <4>1. From(kept, r) \in SUBSET kept BY DEF From
      <4> HIDE DEF kept
      <4> QED BY <4>1, <1>4, RegistryPart, BytesRemove
    <3>5. Bytes(left) <= Bytes(From(kept, r))
      <4> HIDE DEF left, kept
      <4> QED BY <3>2, <3>4, BytesGrow
    <3> HIDE DEF left, kept
    <3> QED BY <3>3, <3>4, <3>5, <1>3, <1>5
  <2> QED BY <2>1, <2>2
<1>7. Cardinality({r \in left : r.session = s}) <= MaxPerSession - 1
  <2> DEFINE mine == {r \in left : r.session = s}
  <2>1. mine \subseteq few BY <1>2
  <2>2. Cardinality(few) <= MaxPerSession - 1
    <3> HIDE DEF own
    <3> QED BY <1>3, <1>4, NewestAreFew
  <2>3. Registry(few)
    <3> HIDE DEF own, few
    <3> QED BY <1>2, <1>4, RegistryPart
  <2>4. Cardinality(mine) \in Nat /\ Cardinality(mine) <= Cardinality(few)
    <3> HIDE DEF few, mine
    <3> QED BY <2>1, <2>3, RegistryPart
  <2>5. Cardinality(few) \in Nat
    <3> HIDE DEF few
    <3> QED BY <2>3, FS_CardinalityType DEF Registry
  <2> HIDE DEF few, mine
  <2> QED BY <2>2, <2>4, <2>5, <1>3 DEF mine
<1> QED BY <1>1, <1>2, <1>5, <1>6, <1>7

-----------------------------------------------------------------------------
(* The registry at every step: results are stamped in the past and named   *)
(* in the order in which they are stored, one that waits to be stored fits *)
(* into an empty registry, and there is a name for each query under way.   *)

Busy == {t \in Turns : query[t] # NoQuery}

QueryInv ==
    /\ QueriesOK
    /\ Registry(results)
    /\ \A r \in results : r.id <= stored
    /\ IsFiniteSet(Busy) /\ stored + Cardinality(Busy) <= MaxQueries
    /\ \A t \in Turns : query[t].step = "store" => query[t].made <= now /\ query[t].size <= MaxBytes

LEMMA QueryFacts ==
    /\ NoQuery \in Query /\ NoQuery.step = "none"
    /\ \A n \in 1..ReadAttempts : Run(n) \in Query /\ Run(n).step = "run" /\ Run(n) # NoQuery
    /\ \A at \in 0..MaxTime, bytes \in Sizes :
          /\ Hold(at, bytes) \in Query /\ Hold(at, bytes) # NoQuery
          /\ Hold(at, bytes).step = "store" /\ Hold(at, bytes).made = at /\ Hold(at, bytes).size = bytes
    /\ \A q \in Query : /\ q.step = "run" => q.attempt \in 1..ReadAttempts
                        /\ q.step = "store" => q.made \in 0..MaxTime /\ q.size \in Sizes
                        /\ q.step \in {"run", "store"} => q # NoQuery
<1>1. NoQuery \in Query /\ NoQuery.step = "none" BY DEF Query, NoQuery
<1>2. ASSUME NEW n \in 1..ReadAttempts
      PROVE  Run(n) \in Query /\ Run(n).step = "run" /\ Run(n) # NoQuery
  BY DEF Query, NoQuery, Run
<1>3. ASSUME NEW at \in 0..MaxTime, NEW bytes \in Sizes
      PROVE  /\ Hold(at, bytes) \in Query /\ Hold(at, bytes) # NoQuery
             /\ Hold(at, bytes).step = "store" /\ Hold(at, bytes).made = at /\ Hold(at, bytes).size = bytes
  BY DEF Query, NoQuery, Hold
<1>4. ASSUME NEW q \in Query
      PROVE  /\ q.step = "run" => q.attempt \in 1..ReadAttempts
             /\ q.step = "store" => q.made \in 0..MaxTime /\ q.size \in Sizes
             /\ q.step \in {"run", "store"} => q # NoQuery
  <2>1. CASE q = NoQuery BY <2>1 DEF NoQuery
  <2>2. ASSUME NEW n \in 1..ReadAttempts, q = Run(n) PROVE q.step = "run" /\ q.attempt = n /\ q # NoQuery
    BY <2>2 DEF Run, NoQuery
  <2>3. ASSUME NEW at \in 0..MaxTime, NEW bytes \in Sizes, q = Hold(at, bytes)
        PROVE  q.step = "store" /\ q.made = at /\ q.size = bytes /\ q # NoQuery
    BY <2>3 DEF Hold, NoQuery
  <2> QED BY <2>1, <2>2, <2>3 DEF Query
<1> QED BY <1>1, <1>2, <1>3, <1>4

LEMMA BoundsAreNumbers ==
    /\ {MaxResults, MaxPerSession, Ttl, MaxBytes, MaxTime, MaxQueries} \subseteq Nat
    /\ ReadAttempts \in Nat /\ ReadAttempts >= 1 /\ MaxPerSession >= 1 /\ MaxResults >= 1
    /\ Sizes \subseteq Nat
BY QueryResultsAssumption

(* The query of one turn goes on, and no result changes. *)
LEMMA QueryGoesOn ==
    ASSUME QueryInv, NEW t \in Turns, NEW q \in Query, query' = [query EXCEPT ![t] = q],
           query[t] # NoQuery,
           q.step = "store" => q.made <= now /\ q.size <= MaxBytes,
           UNCHANGED <<results, stored, now>>
    PROVE  QueryInv'
<1>1. \A u \in Turns : query'[u] = IF u = t THEN q ELSE query[u] BY DEF QueryInv, QueriesOK
<1>2. query' \in [Turns -> Query] BY DEF QueryInv, QueriesOK
<1>3. IsFiniteSet(Busy') /\ Cardinality(Busy') <= Cardinality(Busy)
  <2>1. Busy' \in SUBSET Busy BY <1>1 DEF Busy
  <2> QED BY <2>1, FS_Subset DEF QueryInv
<1>4. Cardinality(Busy') \in Nat /\ Cardinality(Busy) \in Nat
  BY <1>3, FS_CardinalityType DEF QueryInv
<1>5. stored \in Nat /\ MaxQueries \in Nat BY BoundsAreNumbers DEF QueryInv, QueriesOK
<1>6. stored' + Cardinality(Busy') <= MaxQueries BY <1>3, <1>4, <1>5 DEF QueryInv
<1> QED BY <1>1, <1>2, <1>3, <1>6 DEF QueryInv, QueriesOK

(* Results are dropped, and everything else stays. *)
LEMMA ResultsAreDropped ==
    ASSUME QueryInv, results' \subseteq results, UNCHANGED <<query, stored, now>>
    PROVE  QueryInv'
<1>1. Registry(results') BY RegistryPart DEF QueryInv
<1>2. UNCHANGED Busy BY DEF Busy
<1> QED BY <1>1, <1>2 DEF QueryInv, QueriesOK

LEMMA StoreKeeps ==
    ASSUME QueryInv, NEW t \in Turns, Stores(t)
    PROVE  QueryInv' /\ (QuotasHold => QuotasHold')
<1> DEFINE s    == SessionOf[t]
           made == query[t].made
           size == query[t].size
           n    == MaxResults - 1
           old  == Prune(results, made, 1)
           left == MakeRoom(old, s, size)
           new  == [id |-> stored + 1, session |-> s, made |-> made, size |-> size]
<1>1. /\ results' = left \cup {new}
      /\ stored' = stored + 1 /\ now' = now
      /\ query' = [query EXCEPT ![t] = NoQuery]
      /\ query[t].step = "store"
  BY DEF Stores
<1>2. /\ query[t] \in Query /\ made \in 0..MaxTime /\ size \in Sizes
      /\ made <= now /\ size <= MaxBytes /\ t \in Busy /\ s \in Sessions
  BY <1>1, QueryFacts, SessionOfAssumption DEF QueryInv, QueriesOK, Busy
<1>3. IsFiniteSet(Busy') /\ Cardinality(Busy') = Cardinality(Busy) - 1
  <2>1. Busy' = Busy \ {t} BY <1>1 DEF Busy, QueryInv, QueriesOK
  <2> QED BY <2>1, <1>2, FS_RemoveElement DEF QueryInv
<1>4. Cardinality(Busy) \in Nat /\ Cardinality(Busy') \in Nat
  BY <1>3, FS_CardinalityType DEF QueryInv
<1>5. stored \in Nat /\ MaxQueries \in Nat BY BoundsAreNumbers DEF QueryInv, QueriesOK
<1>6. stored' + Cardinality(Busy') <= MaxQueries /\ stored' \in 0..MaxQueries /\ stored' \in 1..MaxQueries
  BY <1>1, <1>3, <1>4, <1>5 DEF QueryInv
<1>7. new \in Result /\ new.id = stored + 1 /\ new.size = size /\ new.session = s /\ new.made = made
  BY <1>1, <1>2, <1>6 DEF Result
<1>8. old \subseteq results /\ Registry(old) /\ Cardinality(old) \in Nat /\ Cardinality(old) <= n
  <2> DEFINE fresh == Fresh(results, made)
  <2>1. fresh \subseteq results BY DEF Fresh
  <2>2. Registry(fresh) BY <2>1, RegistryPart DEF QueryInv
  <2>3. n \in Nat BY BoundsAreNumbers
  <2>4. old = Newest(fresh, n) BY DEF Prune
  <2> HIDE DEF fresh, n, old
  <2>5. Cardinality(old) <= n BY <2>2, <2>3, <2>4, NewestAreFew
  <2>6. old \subseteq fresh BY <2>4 DEF Newest
  <2>7. Registry(old) /\ Cardinality(old) \in Nat BY <2>2, <2>6, RegistryPart
  <2> QED BY <2>1, <2>5, <2>6, <2>7
<1>9. /\ left \subseteq old
      /\ Bytes(left) \in Nat /\ Bytes(left) + size <= MaxBytes
      /\ Cardinality({r \in left : r.session = s}) <= MaxPerSession - 1
  <2>1. size \in Nat BY <1>2, BoundsAreNumbers
  <2> HIDE DEF old, s, size
  <2> QED BY <1>2, <1>8, <2>1, RoomIsMade DEF left
<1>10. Registry(left) /\ IsFiniteSet(left) /\ Cardinality(left) \in Nat /\ Cardinality(left) <= n
  <2> HIDE DEF old, left, n
  <2>1. Registry(left) /\ Cardinality(left) \in Nat /\ Cardinality(left) <= Cardinality(old)
    BY <1>8, <1>9, RegistryPart
  <2>2. n \in Int BY BoundsAreNumbers DEF n
  <2> QED BY <2>1, <2>2, <1>8 DEF Registry
<1>11. new \notin left /\ \A r \in left : r.id <= stored /\ r \in Result
  <2>1. left \subseteq results BY <1>8, <1>9
  <2>2. \A r \in left : r.id <= stored /\ r \in Result BY <2>1 DEF QueryInv, QueriesOK
  <2> QED BY <2>2, <1>5, <1>7
<1> HIDE DEF new, left, old
<1>12. Registry(results')
  <2>1. IsFiniteSet(results') BY <1>1, <1>10, FS_AddElement
  <2>2. new.id \in Nat /\ new.made \in Nat /\ new.size \in Nat
    <3> HIDE DEF made, size
    <3> QED BY <1>2, <1>5, <1>7, BoundsAreNumbers
  <2>3. \A r \in left : r.id # new.id BY <1>11, <1>7, <1>5, <1>10 DEF Registry
  <2> QED BY <1>1, <1>10, <2>1, <2>2, <2>3 DEF Registry
<1>13. \A r \in results' : r.id <= stored' /\ r \in Result
  BY <1>1, <1>5, <1>7, <1>10, <1>11 DEF Registry
<1>14. \A u \in Turns : query'[u] \in Query /\
          (query'[u].step = "store" => query'[u].made <= now' /\ query'[u].size <= MaxBytes)
  BY <1>1, QueryFacts DEF QueryInv, QueriesOK
<1>15. query' \in [Turns -> Query] BY <1>1, QueryFacts DEF QueryInv, QueriesOK
<1>16. QueryInv' BY <1>1, <1>3, <1>6, <1>12, <1>13, <1>14, <1>15 DEF QueryInv, QueriesOK
<1>17. ASSUME QuotasHold PROVE QuotasHold'
  <2>1. Cardinality(results') = Cardinality(left) + 1 BY <1>1, <1>10, <1>11, FS_AddElement
  <2>2. Cardinality(results') <= MaxResults BY <2>1, <1>10, BoundsAreNumbers DEF n
  <2>3. ASSUME NEW x \in Sessions
        PROVE  Cardinality({r \in results' : r.session = x}) <= MaxPerSession
    <3>0. MaxPerSession \in Nat BY BoundsAreNumbers
    <3> DEFINE mine == {r \in left : r.session = x}
               more == mine \cup {new}
               has  == {r \in results' : r.session = x}
    <3>1. Registry(mine) /\ IsFiniteSet(mine) /\ Cardinality(mine) \in Nat
      <4>1. mine \in SUBSET left OBVIOUS
      <4> HIDE DEF mine
      <4> QED BY <4>1, <1>10, RegistryPart DEF Registry
    <3>2. CASE x = s
      <4>1. has = more BY <3>2, <1>1, <1>7
      <4>2. Cardinality(more) <= Cardinality(mine) + 1
        <5> HIDE DEF mine
        <5>1. Cardinality(more) = IF new \in mine THEN Cardinality(mine) ELSE Cardinality(mine) + 1
          BY <3>1, FS_AddElement
        <5> HIDE DEF more
        <5> QED BY <5>1, <3>1
      <4>3. Cardinality(mine) <= MaxPerSession - 1 BY <3>2, <1>9
      <4>4. IsFiniteSet(more)
        <5> HIDE DEF mine
        <5> QED BY <3>1, FS_AddElement
      <4>5. Cardinality(more) \in Nat BY <4>4, FS_CardinalityType
      <4>6. Cardinality(more) <= MaxPerSession
        <5> HIDE DEF more, mine
        <5> QED BY <4>2, <4>3, <4>5, <3>0, <3>1
      <4> HIDE DEF more, has
      <4> QED BY <4>1, <4>6 DEF has
    <3>3. CASE x # s
      <4> DEFINE had == {r \in results : r.session = x}
      <4>1. has = mine BY <3>3, <1>1, <1>7
      <4>2. mine \subseteq had BY <1>8, <1>9
      <4>3. Registry(had)
        <5>1. had \in SUBSET results OBVIOUS
        <5> HIDE DEF had
        <5> QED BY <5>1, RegistryPart DEF QueryInv
      <4>4. Cardinality(had) <= MaxPerSession BY <1>17 DEF QuotasHold
      <4>5. Cardinality(mine) <= Cardinality(had) /\ Cardinality(had) \in Nat
        <5> HIDE DEF mine, had
        <5> QED BY <4>2, <4>3, RegistryPart, FS_CardinalityType DEF Registry
      <4>6. Cardinality(mine) <= MaxPerSession
        <5> HIDE DEF mine, had
        <5> QED BY <4>4, <4>5, <3>0, <3>1
      <4> HIDE DEF mine, has
      <4> QED BY <4>1, <4>6 DEF has
    <3> QED BY <3>2, <3>3
  <2>4. Bytes(results') <= MaxBytes
    <3>1. Sized(results') BY <1>12, RegistryPart
    <3>2. results' \ {new} = left BY <1>1, <1>11
    <3>3. new \in results' BY <1>1
    <3>4. Bytes(results') = new.size + Bytes(left) BY <3>1, <3>2, <3>3, BytesRemove
    <3>5. size \in Nat BY <1>2, BoundsAreNumbers
    <3> HIDE DEF size
    <3> QED BY <3>4, <3>5, <1>7, <1>9, BoundsAreNumbers
  <2> QED BY <2>2, <2>3, <2>4 DEF QuotasHold
<1> QED BY <1>16, <1>17

(* Pruning drops results and nothing else. *)
LEMMA PruneDrops ==
    ASSUME NEW R, NEW at, NEW reserve
    PROVE  Prune(R, at, reserve) \subseteq Fresh(R, at) /\ Fresh(R, at) \subseteq R
BY DEF Prune, Newest, Fresh

LEMMA QuotasShrink ==
    ASSUME QueryInv, QuotasHold, results' \subseteq results
    PROVE  QuotasHold'
<1>1. Registry(results) BY DEF QueryInv
<1>2. /\ Sized(results') /\ Cardinality(results') <= Cardinality(results)
      /\ Cardinality(results') \in Nat /\ Cardinality(results) \in Nat
      /\ Bytes(results') <= Bytes(results) /\ Bytes(results') \in Nat /\ Bytes(results) \in Nat
  BY <1>1, RegistryPart, BytesGrow, BytesRemove
<1>3. ASSUME NEW s \in Sessions
      PROVE  Cardinality({r \in results' : r.session = s}) <= MaxPerSession
  <2> DEFINE has == {r \in results' : r.session = s}
             had == {r \in results : r.session = s}
  <2>1. has \subseteq had /\ had \subseteq results OBVIOUS
  <2>2. Registry(had) /\ Cardinality(had) \in Nat
    <3> HIDE DEF had
    <3> QED BY <2>1, <1>1, RegistryPart
  <2>3. Cardinality(has) \in Nat /\ Cardinality(has) <= Cardinality(had)
    <3> HIDE DEF had, has
    <3> QED BY <2>1, <2>2, RegistryPart
  <2>4. Cardinality(had) <= MaxPerSession BY DEF QuotasHold
  <2> HIDE DEF had
  <2> QED BY <2>2, <2>3, <2>4, BoundsAreNumbers
<1>4. Cardinality(results') <= MaxResults /\ Bytes(results') <= MaxBytes
  BY <1>2, BoundsAreNumbers DEF QuotasHold
<1> QED BY <1>3, <1>4 DEF QuotasHold

(* What a step does to queries and results. *)
QueryStep ==
    \/ \E t \in Turns : Begins(t) \/ Queries(t)
    \/ \E t \in Turns, id \in 1..stored, found \in BOOLEAN : Reads(t, id, found)
    \/ Tick \/ UNCHANGED queryVars
    \/ Crash

LEMMA NextQueries == [Next]_vars => QueryStep
<1> SUFFICES ASSUME [Next]_vars PROVE QueryStep OBVIOUS
<1>1. CASE UNCHANGED vars BY <1>1 DEF vars, QueryStep
<1>2. CASE Users \/ Time BY <1>2 DEF Users, Time, QueryStep
<1>7. ASSUME NEW t \in Turns, Starts(t) PROVE QueryStep BY <1>7 DEF Starts, QueryStep
<1>3. CASE Crash BY <1>3 DEF QueryStep
<1>4. ASSUME NEW t \in Turns, Call(t) PROVE QueryStep BY <1>4 DEF Call, QueryStep
<1>5. ASSUME NEW t \in Turns, Works(t) PROVE QueryStep BY <1>5 DEF Works, QueryStep
<1>6. ASSUME NEW t \in Turns, Passes(t) PROVE QueryStep BY <1>6 DEF Passes, QueryStep
<1> QED BY <1>1, <1>2, <1>3, <1>4, <1>5, <1>6, <1>7 DEF Next

LEMMA InitQueryInv == Init => QueryInv /\ QuotasHold
<1> SUFFICES ASSUME Init PROVE QueryInv /\ QuotasHold OBVIOUS
<1> USE DEF Init, QueryInit
<1>1. QueriesOK BY QueryFacts, BoundsAreNumbers DEF QueriesOK
<1>2. Busy = {} BY DEF Busy
<1>3. IsFiniteSet(Busy) /\ stored + Cardinality(Busy) <= MaxQueries
  BY <1>2, FS_EmptySet, BoundsAreNumbers
<1>4. Registry(results) BY FS_EmptySet DEF Registry
<1>5. \A t \in Turns : query[t].step # "store" BY QueryFacts
<1>6. \A s : {r \in results : r.session = s} = {} OBVIOUS
<1>7. QuotasHold BY <1>6, FS_EmptySet, BytesOfEmpty, BoundsAreNumbers DEF QuotasHold
<1> QED BY <1>1, <1>3, <1>4, <1>5, <1>7 DEF QueryInv

LEMMA NextQueryInv == QueryInv /\ QuotasHold /\ [Next]_vars => QueryInv' /\ QuotasHold'
<1> SUFFICES ASSUME QueryInv, QuotasHold, QueryStep PROVE QueryInv' /\ QuotasHold'
  BY NextQueries
<1>1. ASSUME results' \subseteq results, UNCHANGED <<query, stored, now>>
      PROVE  QueryInv' /\ QuotasHold'
  BY <1>1, ResultsAreDropped, QuotasShrink
<1>2. CASE UNCHANGED queryVars BY <1>1, <1>2 DEF queryVars
<1>3. ASSUME NEW t \in Turns, NEW id \in 1..stored, NEW found \in BOOLEAN, Reads(t, id, found)
      PROVE  QueryInv' /\ QuotasHold'
  <2>1. results' \subseteq results BY <1>3, PruneDrops DEF Reads
  <2> QED BY <1>1, <1>3, <2>1 DEF Reads
<1>4. ASSUME NEW t \in Turns, Begins(t) PROVE QueryInv' /\ QuotasHold'
  <2>1. /\ query[t] = NoQuery /\ stored + Cardinality(Busy) < MaxQueries
        /\ query' = [query EXCEPT ![t] = Run(1)] /\ UNCHANGED <<results, stored, now>>
    BY <1>4 DEF Begins, Busy
  <2>2. Run(1) \in Query /\ Run(1).step = "run" /\ Run(1) # NoQuery BY QueryFacts, BoundsAreNumbers
  <2>3. \A u \in Turns : query'[u] = IF u = t THEN Run(1) ELSE query[u]
    BY <2>1 DEF QueryInv, QueriesOK
  <2>4. query' \in [Turns -> Query] BY <2>1, <2>2 DEF QueryInv, QueriesOK
  <2>5. Busy' = Busy \cup {t} /\ t \notin Busy BY <2>1, <2>2, <2>3 DEF Busy
  <2>6. IsFiniteSet(Busy') /\ Cardinality(Busy') = Cardinality(Busy) + 1
    BY <2>5, FS_AddElement DEF QueryInv
  <2>7. Cardinality(Busy) \in Nat BY FS_CardinalityType DEF QueryInv
  <2>8. stored' + Cardinality(Busy') <= MaxQueries
    BY <2>1, <2>6, <2>7, BoundsAreNumbers DEF QueryInv, QueriesOK
  <2>9. QueryInv' BY <2>1, <2>2, <2>3, <2>4, <2>6, <2>8 DEF QueryInv, QueriesOK
  <2> QED BY <2>1, <2>9, QuotasShrink
<1>5. ASSUME NEW t \in Turns, Queries(t) PROVE QueryInv' /\ QuotasHold'
  <2>1. CASE Stores(t) BY <2>1, StoreKeeps
  <2>2. CASE Loses(t) \/ Errs(t) \/ Returns(t)
    <3>1. UNCHANGED <<results, stored, now>> /\ query[t].step = "run"
      BY <2>2 DEF Loses, Errs, Returns
    <3>2. query[t] \in Query /\ query[t] # NoQuery /\ query[t].attempt \in 1..ReadAttempts
      BY <3>1, QueryFacts DEF QueryInv, QueriesOK
    <3>3. \E q \in Query : /\ query' = [query EXCEPT ![t] = q]
                           /\ q.step = "store" => q.made <= now /\ q.size <= MaxBytes
      <4>1. CASE Errs(t) BY <4>1, QueryFacts DEF Errs
      <4>2. CASE Loses(t)
        <5> DEFINE n == query[t].attempt
        <5>1. Again(n) => Run(n + 1) \in Query /\ Run(n + 1).step = "run"
          BY <3>2, QueryFacts, BoundsAreNumbers DEF Again
        <5>2. query' = [query EXCEPT ![t] = IF Again(n) THEN Run(n + 1) ELSE NoQuery]
          BY <4>2 DEF Loses
        <5> HIDE DEF n
        <5> QED BY <5>1, <5>2, QueryFacts
      <4>3. CASE Returns(t)
        <5>1. PICK bytes \in Sizes :
                 query' = [query EXCEPT ![t] =
                    IF bytes > MaxResultBytes \/ bytes > MaxBytes THEN NoQuery ELSE Hold(now, bytes)]
          BY <4>3 DEF Returns
        <5>2. now \in 0..MaxTime BY DEF QueryInv, QueriesOK
        <5>3. Hold(now, bytes) \in Query /\ Hold(now, bytes).made = now /\ Hold(now, bytes).size = bytes
          BY <5>2, QueryFacts
        <5>4. bytes \in Nat /\ MaxBytes \in Nat /\ now \in Nat BY <5>2, BoundsAreNumbers
        <5>5. CASE bytes > MaxResultBytes \/ bytes > MaxBytes BY <5>1, <5>5, QueryFacts
        <5>6. CASE ~(bytes > MaxResultBytes \/ bytes > MaxBytes)
          <6>1. query' = [query EXCEPT ![t] = Hold(now, bytes)] BY <5>1, <5>6
          <6>2. bytes <= MaxBytes /\ now <= now BY <5>4, <5>6
          <6> QED BY <5>3, <6>1, <6>2
        <5> QED BY <5>5, <5>6
      <4> QED BY <2>2, <4>1, <4>2, <4>3
    <3>4. QueryInv' BY <3>1, <3>2, <3>3, QueryGoesOn
    <3> QED BY <3>1, <3>4, QuotasShrink
  <2> QED BY <1>5, <2>1, <2>2 DEF Queries
<1>6. CASE Tick
  <2>1. now' \in 0..MaxTime /\ now' >= now BY <1>6, BoundsAreNumbers DEF Tick, QueryInv, QueriesOK
  <2>2. UNCHANGED <<query, results, stored, Busy>> BY <1>6 DEF Tick, Busy
  <2>3. \A t \in Turns : query[t].step = "store" => query[t].made <= now'
    <3> SUFFICES ASSUME NEW t \in Turns, query[t].step = "store" PROVE query[t].made <= now' OBVIOUS
    <3>1. query[t].made \in 0..MaxTime /\ query[t].made <= now
      BY QueryFacts DEF QueryInv, QueriesOK
    <3> QED BY <3>1, <2>1, BoundsAreNumbers DEF QueryInv, QueriesOK
  <2>4. QueryInv' BY <2>1, <2>2, <2>3 DEF QueryInv, QueriesOK
  <2> QED BY <2>2, <2>4, QuotasShrink
<1>7. CASE Crash
  <2>1. results' = {} /\ query' = [t \in Turns |-> NoQuery] /\ UNCHANGED <<stored, now>>
    BY <1>7 DEF Crash
  <2>2. Busy' = {} BY <2>1 DEF Busy
  <2>3. IsFiniteSet(Busy') /\ stored' + Cardinality(Busy') <= MaxQueries
    BY <2>1, <2>2, FS_EmptySet, BoundsAreNumbers DEF QueryInv, QueriesOK
  <2>4. Registry(results') BY <2>1, FS_EmptySet DEF Registry
  <2>5. QueryInv' BY <2>1, <2>3, <2>4, QueryFacts DEF QueryInv, QueriesOK
  <2> QED BY <2>1, <2>5, QuotasShrink
<1> QED BY <1>2, <1>3, <1>4, <1>5, <1>6, <1>7 DEF QueryStep

-----------------------------------------------------------------------------
(* What the user saw last goes last. *)
LEMMA LeavesInOrder ==
    ASSUME NEW R, Registry(R), NEW at, NEW reserve, MaxResults - reserve \in Nat,
           NEW r \in Fresh(R, at) \ Prune(R, at, reserve), NEW k \in Prune(R, at, reserve)
    PROVE  Before(r, k)
<1> DEFINE fresh == Fresh(R, at)
<1>1. Registry(fresh)
  <2>1. fresh \in SUBSET R BY PruneDrops
  <2> HIDE DEF fresh
  <2> QED BY <2>1, RegistryPart
<1> HIDE DEF fresh
<1> QED BY <1>1, NewestAreNew DEF Prune, fresh

LEMMA RoomInOrder ==
    ASSUME NEW R, Registry(R), NEW s, NEW bytes \in Nat,
           NEW r \in R \ MakeRoom(R, s, bytes), NEW k \in MakeRoom(R, s, bytes),
           k.session = r.session
    PROVE  Before(r, k)
<1> DEFINE own  == {q \in R : q.session = s}
           few  == Newest(own, MaxPerSession - 1)
           kept == (R \ own) \cup few
<1>1. MakeRoom(R, s, bytes) = {q \in kept : Bytes(From(kept, q)) + bytes <= MaxBytes}
  BY DEF MakeRoom
<1>2. few \subseteq own /\ kept \subseteq R /\ k \in kept BY <1>1 DEF Newest
<1>3. MaxPerSession - 1 \in Nat /\ MaxBytes \in Nat BY BoundsAreNumbers
<1>4. Registry(own) /\ Registry(kept)
  <2> HIDE DEF few, kept
  <2> QED BY <1>2, RegistryPart
<1>5. CASE r \notin kept
  <2>1. r \in own \ few /\ k \in few BY <1>2, <1>5
  <2> HIDE DEF own
  <2> QED BY <2>1, <1>3, <1>4, NewestAreNew
<1>6. CASE r \in kept
  <2>1. /\ Bytes(From(kept, k)) + bytes <= MaxBytes
        /\ ~(Bytes(From(kept, r)) + bytes <= MaxBytes)
        /\ k # r
    BY <1>1, <1>6
  <2> SUFFICES ASSUME Before(k, r) PROVE FALSE
    <3> HIDE DEF kept
    <3> QED BY <1>2, <1>4, <1>6, <2>1, Ordered
  <2>2. /\ Bytes(From(kept, r)) \in Nat /\ Bytes(From(kept, k)) \in Nat
        /\ Bytes(From(kept, r)) <= Bytes(From(kept, k))
    <3> HIDE DEF kept
    <3> QED BY <1>2, <1>4, <1>6, FromGrows
  <2> HIDE DEF kept
  <2> QED BY <2>1, <2>2, <1>3
<1> QED BY <1>5, <1>6

(* The step of OldestLeaveFirst. *)
LeaveInOrder ==
    \A r \in results \ results' :
        \/ r.made + Ttl <= now
        \/ results' = {}
        \/ \A k \in results \cap results' : k.session = r.session => Before(r, k)

LEMMA StepsLeaveInOrder == QueryInv /\ QueryStep => LeaveInOrder
<1> SUFFICES ASSUME QueryInv, QueryStep, NEW r \in results \ results', ~(r.made + Ttl <= now),
                    NEW k \in results \cap results', k.session = r.session
             PROVE  results' = {} \/ Before(r, k)
  BY DEF LeaveInOrder
<1>0. Registry(results) /\ r \in results /\ k \in results BY DEF QueryInv
<1>1. CASE UNCHANGED results BY <1>1
<1>2. CASE Crash BY <1>2 DEF Crash
<1>3. ASSUME NEW t \in Turns, NEW id \in 1..stored, NEW found \in BOOLEAN, Reads(t, id, found)
      PROVE  Before(r, k)
  <2>1. results' = Prune(results, now, 0) BY <1>3 DEF Reads
  <2>2. r \in Fresh(results, now)
    BY BoundsAreNumbers DEF Fresh, QueryInv, QueriesOK, Registry
  <2>3. MaxResults - 0 \in Nat BY BoundsAreNumbers
  <2> QED BY <1>0, <2>1, <2>2, <2>3, LeavesInOrder
<1>4. ASSUME NEW t \in Turns, Stores(t) PROVE Before(r, k)
  <2> DEFINE s    == SessionOf[t]
             made == query[t].made
             size == query[t].size
             old  == Prune(results, made, 1)
             left == MakeRoom(old, s, size)
  <2>1. /\ results' = left \cup {[id |-> stored + 1, session |-> s, made |-> made, size |-> size]}
        /\ query[t].step = "store"
    BY <1>4 DEF Stores
  <2>2. k.id <= stored /\ k.id \in Nat /\ stored \in Nat
    BY <1>0, BoundsAreNumbers DEF QueryInv, QueriesOK, Registry
  <2>3. k \in left /\ r \notin left BY <2>1, <2>2
  <2>4. made \in Nat /\ made <= now /\ now \in Nat /\ size \in Nat
    <3>1. query[t] \in Query /\ now \in 0..MaxTime BY DEF QueryInv, QueriesOK
    <3>2. query[t].made \in 0..MaxTime /\ query[t].size \in Sizes BY <2>1, <3>1, QueryFacts
    <3>3. query[t].made <= now BY <2>1 DEF QueryInv
    <3>4. 0..MaxTime \subseteq Nat /\ Sizes \subseteq Nat BY BoundsAreNumbers
    <3> QED BY <3>1, <3>2, <3>3, <3>4
  <2>5. r \in Fresh(results, made)
    <3> HIDE DEF made
    <3> QED BY <1>0, <2>4, BoundsAreNumbers DEF Fresh, Registry
  <2>6. MaxResults - 1 \in Nat BY BoundsAreNumbers
  <2>7. k \in old
    <3> HIDE DEF old
    <3> QED BY <2>3 DEF left, MakeRoom, Newest
  <2>8. Registry(old)
    <3>1. old \in SUBSET results BY PruneDrops
    <3> HIDE DEF old
    <3> QED BY <3>1, <1>0, RegistryPart
  <2> HIDE DEF made, s, size
  <2>9. CASE r \notin old BY <2>9, <1>0, <2>5, <2>6, <2>7, LeavesInOrder
  <2>10. CASE r \in old
    <3> HIDE DEF old
    <3> QED BY <2>10, <2>3, <2>4, <2>8, RoomInOrder DEF left
  <2> QED BY <2>9, <2>10
<1>5. ASSUME NEW t \in Turns, Begins(t) \/ Queries(t) PROVE Before(r, k)
  BY <1>1, <1>4, <1>5 DEF Begins, Queries, Loses, Errs, Returns
<1> QED BY <1>1, <1>2, <1>3, <1>5 DEF QueryStep, Tick, queryVars

(* Queries and the registry agree, and a quota is kept by every store, also *)
(* one that comes with an older stamp than the last (store, _make_room and  *)
(* _prune of query_results.py).                                             *)
THEOREM RegistryAgrees == Spec => [](QueryInv /\ QuotasHold)
BY InitQueryInv, NextQueryInv, PTL DEF Spec

(* Whatever a store or a read evicts before its time is older than every    *)
(* result of its session that stays (_make_room and _prune).                *)
THEOREM LastSeenLeavesLast == Spec => OldestLeaveFirst
<1>1. QueryInv /\ [Next]_vars => [LeaveInOrder]_queryVars BY NextQueries, StepsLeaveInOrder
<1>2. [][LeaveInOrder]_queryVars <=> OldestLeaveFirst BY DEF LeaveInOrder, OldestLeaveFirst
<1> QED BY <1>1, <1>2, RegistryAgrees, PTL DEF Spec

-----------------------------------------------------------------------------
(* Report files.  While a file is exported its agent was told nothing and  *)
(* no other export is about it; and what is known of a file outside its    *)
(* export follows from what the agent was told.                            *)

Exporting(t, f) == export[t] \in {At("upload", f), At("mark", f)}

Places == {NoExport, [step |-> "write"]}
             \cup {At(step, f) : step \in {"upload", "mark"}, f \in 1..MaxExports}

ExportInv(t) ==
    \A f \in 1..MaxExports : Exporting(t, f) =>
        /\ Oss /\ f \in Written /\ file[f].told = "nothing"
        /\ export[t] = At("mark", f) => file[f].object
        /\ \A u \in Turns : Exporting(u, f) => u = t

FileInv(f) ==
    /\ file[f].told # "error" /\ ~file[f].removed => file[f].local
    /\ file[f].told = "error" => ~file[f].local
    /\ file[f].told = "ok" /\ Oss => file[f].mark
    /\ file[f].mark => Oss /\ file[f].object
    /\ Oss /\ file[f].local /\ ~file[f].mark => file[f].cut \/ \E t \in Turns : Exporting(t, f)

FilesInv ==
    /\ FilesOK
    /\ \E n \in 0..MaxExports : Written = 1..n
    /\ \A t \in Turns : ExportInv(t)
    /\ \A f \in Written : FileInv(f)

LEMMA ExportsAreTold ==
    /\ \A f, g : At("upload", f) # At("mark", g)
    /\ \A step \in {"upload", "mark"} : \A f, g : At(step, f) = At(step, g) => f = g
    /\ \A step, f : /\ At(step, f) # NoExport /\ At(step, f) # [step |-> "write"]
                    /\ At(step, f).step = step /\ At(step, f).file = f
    /\ NoExport.step = "none" /\ [step |-> "write"].step = "write"
    /\ NoExport # [step |-> "write"]
BY DEF At, NoExport

LEMMA FileFacts ==
    /\ \A x \in File : x # NoFile
    /\ \A s \in Sessions : NewFile(s) \in File
BY DEF File, NoFile, NewFile

(* The step and the file of an export, from its place. *)
LEMMA ExportPlace ==
    ASSUME FilesOK, NEW t \in Turns
    PROVE  /\ export[t].step = "upload" => /\ export[t].file \in 1..MaxExports
                                           /\ export[t] = At("upload", export[t].file)
           /\ export[t].step = "mark"   => /\ export[t].file \in 1..MaxExports
                                           /\ export[t] = At("mark", export[t].file)
<1>1. export[t] \in {NoExport, [step |-> "write"]}
         \cup {At(step, f) : step \in {"upload", "mark"}, f \in 1..MaxExports}
  BY DEF FilesOK
<1>2. CASE export[t] \in {NoExport, [step |-> "write"]} BY <1>2, ExportsAreTold
<1>3. ASSUME NEW step \in {"upload", "mark"}, NEW f \in 1..MaxExports, export[t] = At(step, f)
      PROVE  export[t].step = step /\ export[t].file = f
  BY <1>3, ExportsAreTold
<1> QED BY <1>1, <1>2, <1>3

(* A turn does nothing in this step, or is about f and does it right. *)
AtMostAbout(t, f) ==
    \/ export'[t] = export[t] /\ ~Exporting(t, f)
    \/ ExportInv(t)' /\ \A g \in 1..MaxExports \ {f} : ~Exporting(t, g)' /\ ~Exporting(t, g)

(* One file that is there changes, to one that is sound by itself or that  *)
(* is still exported, and exports of other files stay as they are.         *)
LEMMA OneFileChanges ==
    ASSUME FilesInv, NEW f \in Written, NEW x \in File, file' = [file EXCEPT ![f] = x],
           export' \in [Turns -> Places],
           \A t \in Turns : AtMostAbout(t, f),
           FileInv(f)'
    PROVE  FilesInv'
<1> USE DEF FilesInv
<1>1. f \in 1..MaxExports BY DEF Written
<1>2. \A g \in 1..MaxExports : file'[g] = IF g = f THEN x ELSE file[g] BY DEF FilesOK
<1>3. FilesOK' BY <1>1 DEF FilesOK, Places
<1>4. Written' = Written BY <1>1, <1>2, FileFacts DEF Written
<1>5. \A t \in Turns, g \in 1..MaxExports \ {f} : Exporting(t, g)' <=> Exporting(t, g)
  BY DEF Exporting, AtMostAbout
<1>6. ASSUME NEW g \in Written, g # f PROVE FileInv(g)'
  <2>1. file'[g] = file[g] /\ g \in 1..MaxExports BY <1>2, <1>6 DEF Written
  <2> QED BY <1>5, <1>6, <2>1 DEF FileInv
<1>7. ASSUME NEW t \in Turns, export'[t] = export[t], ~Exporting(t, f) PROVE ExportInv(t)'
  <2> SUFFICES ASSUME NEW g \in 1..MaxExports, Exporting(t, g)'
               PROVE  /\ Oss /\ g \in Written' /\ file'[g].told = "nothing"
                      /\ export'[t] = At("mark", g) => file'[g].object
                      /\ \A u \in Turns : Exporting(u, g)' => u = t
    BY DEF ExportInv
  <2>1. Exporting(t, g) /\ g # f BY <1>7 DEF Exporting
  <2>2. file'[g] = file[g] BY <1>2, <2>1
  <2> QED BY <1>4, <1>5, <1>7, <2>1, <2>2 DEF ExportInv
<1> QED BY <1>3, <1>4, <1>6, <1>7 DEF AtMostAbout

(* Files that are there change, but neither what their agents were told    *)
(* nor the bucket; some exports end.                                       *)
LEMMA FilesChange ==
    ASSUME FilesInv, FilesOK', Written' = Written,
           \A t \in Turns, f \in 1..MaxExports :
              Exporting(t, f)' => Exporting(t, f) /\ export'[t] = export[t],
           \A f \in Written : /\ file'[f].told = file[f].told /\ file'[f].object = file[f].object
                              /\ FileInv(f)'
    PROVE  FilesInv'
<1> USE DEF FilesInv
<1>1. ASSUME NEW t \in Turns PROVE ExportInv(t)' BY DEF ExportInv
<1> QED BY <1>1

(* What changes in the files that leave the storage. *)
LEMMA RemovedAreSound ==
    ASSUME FilesInv, NEW F \in SUBSET Written, NEW g, g = Removes(F)
    PROVE  /\ g \in [1..MaxExports -> File \cup {NoFile}]
           /\ \A f \in 1..MaxExports : g[f] = NoFile <=> file[f] = NoFile
           /\ \A f \in Written : /\ g[f].told = file[f].told /\ g[f].object = file[f].object
                                 /\ g[f].mark = file[f].mark /\ g[f].session = file[f].session
                                 /\ (g[f].local <=> file[f].local /\ f \notin F)
                                 /\ (g[f].removed <=> file[f].removed \/ f \in F)
                                 /\ g[f].cut = file[f].cut /\ g[f] \in File
<1>1. ASSUME NEW f \in 1..MaxExports, f \notin F PROVE g[f] = file[f] BY <1>1 DEF Removes
<1>2. ASSUME NEW f \in F
      PROVE  /\ g[f] = [file[f] EXCEPT !.local = FALSE, !.removed = TRUE]
             /\ file[f] \in File /\ file[f] # NoFile
  <2>1. f \in 1..MaxExports /\ file[f] # NoFile BY <1>2 DEF Written
  <2>2. file[f] \in File BY <2>1 DEF FilesInv, FilesOK
  <2>3. g[f] = [file[f] EXCEPT !.local = FALSE, !.removed = TRUE] BY <1>2, <2>1 DEF Removes
  <2> QED BY <2>1, <2>2, <2>3
<1>3. ASSUME NEW x \in File
      PROVE  \A y : y = [x EXCEPT !.local = FALSE, !.removed = TRUE] =>
                /\ y \in File /\ y.told = x.told /\ y.object = x.object /\ y.mark = x.mark
                /\ y.session = x.session /\ ~y.local /\ y.removed /\ y.cut = x.cut
  BY DEF File
<1>4. ASSUME NEW f \in F
      PROVE  /\ g[f] \in File /\ g[f].told = file[f].told /\ g[f].object = file[f].object
             /\ g[f].mark = file[f].mark /\ g[f].session = file[f].session
             /\ ~g[f].local /\ g[f].removed /\ g[f].cut = file[f].cut
  <2> DEFINE x == file[f]
             y == g[f]
  <2>1. x \in File /\ y = [x EXCEPT !.local = FALSE, !.removed = TRUE] BY <1>2
  <2> HIDE DEF x, y
  <2> QED BY <2>1, <1>3 DEF x, y
<1>5. \A f \in Written : file[f] \in File /\ f \in 1..MaxExports BY DEF Written, FilesInv, FilesOK
<1>6. \A f \in Written : file[f].local \in BOOLEAN /\ file[f].removed \in BOOLEAN BY <1>5 DEF File
<1>7. g = [f \in 1..MaxExports |-> g[f]] BY DEF Removes
<1>8. \A f \in 1..MaxExports : g[f] \in File \cup {NoFile} BY <1>1, <1>4 DEF FilesInv, FilesOK
<1>9. \A f \in 1..MaxExports : g[f] = NoFile <=> file[f] = NoFile BY <1>1, <1>2, <1>4, FileFacts
<1>10. g \in [1..MaxExports -> File \cup {NoFile}]
  <2> HIDE DEF FilesInv
  <2> QED BY <1>7, <1>8
<1>11. ASSUME NEW f \in Written
       PROVE  /\ g[f].told = file[f].told /\ g[f].object = file[f].object
              /\ g[f].mark = file[f].mark /\ g[f].session = file[f].session
              /\ (g[f].local <=> file[f].local /\ f \notin F)
              /\ (g[f].removed <=> file[f].removed \/ f \in F)
              /\ g[f].cut = file[f].cut /\ g[f] \in File
  <2>1. CASE f \in F BY <1>4, <1>6, <2>1, <1>8
  <2>2. CASE f \notin F BY <1>1, <1>5, <1>6, <2>2
  <2> QED BY <2>1, <2>2
<1> QED BY <1>9, <1>10, <1>11

LEMMA RemovesKeeps ==
    ASSUME FilesInv, NEW F \in SUBSET Written, file' = Removes(F),
           export' \in [Turns -> Places],
           \A t \in Turns : \/ export'[t] = export[t]
                            \/ \A f \in 1..MaxExports : ~Exporting(t, f)' /\ ~Exporting(t, f)
    PROVE  FilesInv'
<1>1. /\ file' \in [1..MaxExports -> File \cup {NoFile}]
      /\ \A f \in 1..MaxExports : file'[f] = NoFile <=> file[f] = NoFile
      /\ \A f \in Written : /\ file'[f].told = file[f].told /\ file'[f].object = file[f].object
                            /\ file'[f].mark = file[f].mark
                            /\ (file'[f].local <=> file[f].local /\ f \notin F)
                            /\ (file'[f].removed <=> file[f].removed \/ f \in F)
                            /\ file'[f].cut = file[f].cut
  BY RemovedAreSound
<1>2. FilesOK' /\ Written' = Written BY <1>1 DEF FilesOK, Written, Places
<1>3. \A t \in Turns, f \in 1..MaxExports : Exporting(t, f)' <=> Exporting(t, f) BY DEF Exporting
<1>4. \A t \in Turns, f \in 1..MaxExports : Exporting(t, f)' => export'[t] = export[t] OBVIOUS
<1>5. ASSUME NEW f \in Written PROVE FileInv(f)'
  <2>1. FileInv(f) /\ f \in 1..MaxExports BY DEF FilesInv, Written
  <2> QED BY <1>1, <1>3, <2>1 DEF FileInv
<1> QED BY <1>1, <1>2, <1>3, <1>4, <1>5, FilesChange

(* No file comes into the storage or changes its session. *)
Shrinks == Stored' \subseteq Stored /\ \A f \in Stored' : file'[f].session = file[f].session

LEMMA RemovesShrinks ==
    ASSUME FilesInv, NEW F \in SUBSET Written, file' = Removes(F)
    PROVE  Shrinks
<1>1. /\ \A f \in 1..MaxExports : file'[f] = NoFile <=> file[f] = NoFile
      /\ \A f \in Written : /\ file'[f].session = file[f].session
                            /\ (file'[f].local <=> file[f].local /\ f \notin F)
  BY RemovedAreSound
<1>2. Written' = Written BY <1>1 DEF Written
<1> QED BY <1>1, <1>2 DEF Shrinks, Stored

(* The limits hold of fewer files. *)
LEMMA LimitsShrink ==
    ASSUME FilesInv, FilesWithinLimits, Shrinks
    PROVE  FilesWithinLimits'
<1>1. PICK n \in 0..MaxExports : Written = 1..n BY DEF FilesInv
<1>2. MaxExports \in Nat /\ MaxFiles \in Nat /\ MaxAll \in Nat BY ReportFilesAssumption
<1>3. IsFiniteSet(Written) BY <1>1, <1>2, FS_Interval
<1>4. ASSUME NEW S, S \subseteq Written, NEW T, T \subseteq S
      PROVE  /\ Cardinality(S) \in Nat /\ Cardinality(T) \in Nat
             /\ Cardinality(T) <= Cardinality(S)
  BY <1>3, <1>4, FS_Subset, FS_CardinalityType
<1>5. Stored \subseteq Written BY DEF Stored
<1>6. Cardinality(Stored') <= MaxAll
  BY <1>2, <1>4, <1>5 DEF Shrinks, FilesWithinLimits
<1>7. ASSUME NEW s \in Sessions PROVE Cardinality(Of(s)') <= MaxFiles
  <2>1. Of(s)' \subseteq Of(s) /\ Of(s) \subseteq Written BY <1>5 DEF Of, Shrinks
  <2>2. Cardinality(Of(s)) <= MaxFiles BY DEF FilesWithinLimits
  <2> QED BY <1>2, <1>4, <2>1, <2>2
<1> QED BY <1>6, <1>7 DEF FilesWithinLimits

(* A turn that was about to write ends, and old files are removed. *)
LEMMA WriteEnds ==
    ASSUME FilesInv, FilesWithinLimits, NEW t \in Turns, \A f \in 1..MaxExports : ~Exporting(t, f),
           NEW F \in SUBSET Written, file' = Removes(F), Finish(t)
    PROVE  FilesInv' /\ FilesWithinLimits'
<1>1. \A u \in Turns : export'[u] = IF u = t THEN NoExport ELSE export[u]
  BY DEF Finish, FilesInv, FilesOK
<1>2. export' \in [Turns -> Places] BY DEF Finish, FilesInv, FilesOK, Places
<1>3. \A f \in 1..MaxExports : ~Exporting(t, f)' BY <1>1, ExportsAreTold DEF Exporting
<1>4. \A u \in Turns : \/ export'[u] = export[u]
                       \/ \A f \in 1..MaxExports : ~Exporting(u, f)' /\ ~Exporting(u, f)
  BY <1>1, <1>3
<1>5. FilesInv' BY <1>2, <1>4, RemovesKeeps
<1> QED BY <1>5, RemovesShrinks, LimitsShrink

(* An export that is about to upload or to record ends or goes on. *)
LEMMA UploadsKeeps ==
    ASSUME FilesInv, NEW t \in Turns, Uploads(t) \/ Marks(t)
    PROVE  FilesInv' /\ Shrinks
<1>0. PICK f : f = export[t].file OBVIOUS
<1>1. /\ f \in 1..MaxExports /\ Exporting(t, f)
      /\ export[t].step = "upload" => export[t] = At("upload", f)
      /\ export[t].step = "mark" => export[t] = At("mark", f)
  BY <1>0, ExportPlace DEF Uploads, Marks, Exporting, FilesInv
<1>2. /\ Oss /\ f \in Written /\ file[f].told = "nothing"
      /\ export[t].step = "mark" => file[f].object
      /\ \A u \in Turns : Exporting(u, f) => u = t
  BY <1>1 DEF FilesInv, ExportInv
<1>3. file[f] \in File BY <1>2 DEF Written, FilesInv, FilesOK
<1>4. \A g \in 1..MaxExports \ {f} : ~Exporting(t, g) BY <1>1, ExportsAreTold DEF Exporting
<1>5. FileInv(f) BY <1>2 DEF FilesInv
<1>6. ASSUME NEW x \in File, file' = [file EXCEPT ![f] = x], FileInv(f)',
             x.session = file[f].session, x.local => file[f].local,
             \/ export' = [export EXCEPT ![t] = NoExport]
             \/ /\ export' = [export EXCEPT ![t] = At("mark", f)]
                /\ x.told = "nothing" /\ x.object
      PROVE  FilesInv' /\ Shrinks
  <2>1. \A u \in Turns \ {t} : export'[u] = export[u] /\ ~Exporting(u, f)
    BY <1>2, <1>6 DEF FilesInv, FilesOK
  <2>2. export'[t] = NoExport \/ (export'[t] = At("mark", f) /\ x.told = "nothing" /\ x.object)
    BY <1>6 DEF FilesInv, FilesOK
  <2>3. export' \in [Turns -> Places]
    BY <1>1, <1>6 DEF FilesInv, FilesOK, Places
  <2>4. \A g \in 1..MaxExports : Exporting(t, g)' => g = f BY <2>2, ExportsAreTold DEF Exporting
  <2>5. file'[f] = x /\ f \in Written' BY <1>1, <1>6, FileFacts DEF FilesInv, FilesOK, Written
  <2>6. \A u \in Turns \ {t} : ~Exporting(u, f)' BY <2>1 DEF Exporting
  <2>7. ExportInv(t)'
    <3> SUFFICES ASSUME NEW g \in 1..MaxExports, Exporting(t, g)'
                 PROVE  /\ Oss /\ g \in Written' /\ file'[g].told = "nothing"
                        /\ export'[t] = At("mark", g) => file'[g].object
                        /\ \A u \in Turns : Exporting(u, g)' => u = t
      BY DEF ExportInv
    <3>1. g = f BY <2>4
    <3>2. export'[t] = At("mark", f) /\ x.told = "nothing" /\ x.object
      BY <2>2, ExportsAreTold DEF Exporting
    <3> QED BY <1>2, <2>5, <2>6, <3>1, <3>2
  <2>8. \A u \in Turns : AtMostAbout(u, f) BY <1>4, <2>1, <2>4, <2>7 DEF AtMostAbout
  <2>9. FilesInv' BY <1>2, <1>6, <2>3, <2>8, OneFileChanges
  <2>10. \A g \in 1..MaxExports : file'[g] = IF g = f THEN x ELSE file[g]
    BY <1>6 DEF FilesInv, FilesOK
  <2>11. Shrinks BY <1>2, <1>3, <1>6, <2>10, FileFacts DEF Shrinks, Stored, Written
  <2> QED BY <2>9, <2>11
<1>7. ASSUME NEW sent \in BOOLEAN, NEW marked \in BOOLEAN, Abandons(f, sent, marked), Finish(t),
             marked => file[f].object
      PROVE  FilesInv' /\ Shrinks
  <2> DEFINE x == [file[f] EXCEPT !.local = FALSE, !.object = @ \/ sent, !.mark = @ \/ marked,
                                  !.told = "error"]
  <2>1. x \in File /\ ~x.local /\ x.session = file[f].session /\ x.told = "error" /\ (x.mark => Oss /\ x.object)
    BY <1>2, <1>3, <1>5, <1>7 DEF File, FileInv
  <2>2. file' = [file EXCEPT ![f] = x] BY <1>7 DEF Abandons
  <2> HIDE DEF x
  <2>3. file'[f] = x BY <1>1, <2>2 DEF FilesInv, FilesOK
  <2>4. FileInv(f)' BY <2>1, <2>3 DEF FileInv
  <2> QED BY <1>6, <1>7, <2>1, <2>2, <2>4 DEF Finish
<1>8. CASE Uploads(t)
  <2>1. CASE file[f].local /\ file' = [file EXCEPT ![f].object = TRUE] /\ Goes(t, "mark")
    <3> DEFINE x == [file[f] EXCEPT !.object = TRUE]
    <3>1. /\ x \in File /\ x.told = "nothing" /\ x.object /\ x.local = file[f].local
          /\ x.session = file[f].session
          /\ x.mark = file[f].mark /\ x.removed = file[f].removed /\ x.cut = file[f].cut
      BY <1>2, <1>3 DEF File
    <3>2. file' = [file EXCEPT ![f] = x] BY <2>1
    <3>3. export' = [export EXCEPT ![t] = At("mark", f)]
      <4>1. export[t] = [step |-> "upload", file |-> f] BY <1>1, <1>8 DEF Uploads, At
      <4>2. export' = [export EXCEPT ![t] = [export[t] EXCEPT !.step = "mark"]] BY <2>1 DEF Goes
      <4>3. [export[t] EXCEPT !.step = "mark"] = At("mark", f) BY <4>1 DEF At
      <4> QED BY <4>2, <4>3
    <3> HIDE DEF x
    <3>4. file'[f] = x BY <1>1, <3>2 DEF FilesInv, FilesOK
    <3>5. Exporting(t, f)' BY <3>3 DEF Exporting, FilesInv, FilesOK
    <3>6. FileInv(f)' BY <1>5, <1>2, <2>1, <3>1, <3>4, <3>5 DEF FileInv
    <3> QED BY <1>6, <3>1, <3>2, <3>3, <3>6
  <2>2. CASE (\E sent \in {FALSE, file[f].local} : Abandons(f, sent, FALSE)) /\ Finish(t)
    <3>1. file[f].local \in BOOLEAN BY <1>3 DEF File
    <3> QED BY <1>7, <2>2, <3>1
  <2> QED BY <1>0, <1>8, <2>1, <2>2 DEF Uploads
<1>9. CASE Marks(t)
  <2>1. file[f].object BY <1>0, <1>2, <1>9 DEF Marks
  <2>2. CASE file' = [file EXCEPT ![f].mark = TRUE, ![f].told = "ok"] /\ Finish(t)
    <3> DEFINE x == [file[f] EXCEPT !.mark = TRUE, !.told = "ok"]
    <3>1. /\ x \in File /\ x.told = "ok" /\ x.object = file[f].object /\ x.local = file[f].local
          /\ x.session = file[f].session
          /\ x.mark /\ x.removed = file[f].removed
      BY <1>3 DEF File
    <3>2. file' = [file EXCEPT ![f] = x] BY <1>1, <2>2 DEF FilesInv, FilesOK
    <3> HIDE DEF x
    <3>3. file'[f] = x BY <1>1, <3>2 DEF FilesInv, FilesOK
    <3>4. FileInv(f)' BY <1>5, <1>2, <2>1, <3>1, <3>3 DEF FileInv
    <3> QED BY <1>6, <2>2, <3>1, <3>2, <3>4 DEF Finish
  <2>3. CASE (\E marked \in BOOLEAN : Abandons(f, FALSE, marked)) /\ Finish(t)
    BY <1>7, <2>1, <2>3
  <2> QED BY <1>0, <1>9, <2>2, <2>3 DEF Marks
<1> QED BY <1>8, <1>9

(* _write_artifact puts a new file into the storage. *)
LEMMA WritesKeeps ==
    ASSUME FilesInv, FilesWithinLimits, NEW t \in Turns, Writes(t)
    PROVE  FilesInv' /\ FilesWithinLimits'
<1> DEFINE s == SessionOf[t]
<1>0. PICK f : f = Cardinality(Written) + 1 OBVIOUS
<1>1. PICK n \in 0..MaxExports : Written = 1..n BY DEF FilesInv
<1>2. MaxExports \in Nat /\ MaxFiles \in Nat /\ MaxAll \in Nat BY ReportFilesAssumption
<1>3. f = n + 1
  <2>1. Cardinality(Written) = n BY <1>1, <1>2, FS_Interval
  <2> QED BY <1>0, <2>1
<1>4. export[t].step = "write" /\ f \in 1..MaxExports /\ f \notin Written
  BY <1>0, <1>1, <1>2, <1>3 DEF Writes
<1>5. \A g \in 1..MaxExports : ~Exporting(t, g)
  BY <1>4, ExportsAreTold DEF Exporting
<1>6. \A u \in Turns : ~Exporting(u, f) BY <1>4 DEF FilesInv, ExportInv
<1>7. Old \in SUBSET Written BY DEF Old, Stored
<1>8. PICK g : g = Removes(Old) OBVIOUS
<1>9. /\ g \in [1..MaxExports -> File \cup {NoFile}]
      /\ \A h \in 1..MaxExports : g[h] = NoFile <=> file[h] = NoFile
      /\ \A h \in Written : /\ g[h].told = file[h].told /\ g[h].object = file[h].object
                            /\ g[h].mark = file[h].mark /\ g[h].session = file[h].session
                            /\ (g[h].local <=> file[h].local /\ h \notin Old)
                            /\ (g[h].removed <=> file[h].removed \/ h \in Old)
                            /\ g[h].cut = file[h].cut
  BY <1>7, <1>8, RemovedAreSound
<1>10. IsFiniteSet(Written) BY <1>1, <1>2, FS_Interval
<1>11. CASE Room(s)
  <2> DEFINE x == [NewFile(s) EXCEPT !.told = IF Oss THEN "nothing" ELSE "ok"]
  <2>1. s \in Sessions BY SessionOfAssumption
  <2>2. /\ x \in File /\ x.told = (IF Oss THEN "nothing" ELSE "ok") /\ x.local /\ ~x.mark
        /\ ~x.removed /\ x.session = s
    BY <2>1 DEF NewFile, File
  <2>3. /\ file' = [g EXCEPT ![f] = x]
        /\ export' = [export EXCEPT ![t] = IF Oss THEN At("upload", f) ELSE NoExport]
    BY <1>0, <1>8, <1>11 DEF Writes
  <2> HIDE DEF x
  <2>4. \A h \in 1..MaxExports : file'[h] = IF h = f THEN x ELSE g[h] BY <1>9, <2>3
  <2>5. FilesOK' BY <1>4, <1>9, <2>2, <2>3 DEF FilesInv, FilesOK
  <2>6. Written' = Written \cup {f} BY <1>4, <1>9, <2>2, <2>4, FileFacts DEF Written
  <2>7. Written' = 1..(n + 1) BY <1>1, <1>2, <1>3, <2>6
  <2>8. n + 1 \in 0..MaxExports BY <1>2, <1>3, <1>4
  <2>9. \A u \in Turns : export'[u] = IF u = t THEN IF Oss THEN At("upload", f) ELSE NoExport
                                              ELSE export[u]
    BY <2>3 DEF FilesInv, FilesOK
  <2>10. /\ \A h \in 1..MaxExports : Exporting(t, h)' <=> h = f /\ Oss
         /\ export'[t] # At("mark", f)
    BY <1>4, <2>9, ExportsAreTold DEF Exporting
  <2>11. \A u \in Turns \ {t}, h \in 1..MaxExports : Exporting(u, h)' <=> Exporting(u, h)
    BY <2>9 DEF Exporting
  <2>12. ASSUME NEW u \in Turns PROVE ExportInv(u)'
    <3>1. CASE u = t BY <1>4, <1>6, <2>2, <2>4, <2>6, <2>10, <2>11, <3>1 DEF ExportInv
    <3>2. CASE u # t
      <4> SUFFICES ASSUME NEW h \in 1..MaxExports, Exporting(u, h)'
                   PROVE  /\ Oss /\ h \in Written' /\ file'[h].told = "nothing"
                          /\ export'[u] = At("mark", h) => file'[h].object
                          /\ \A v \in Turns : Exporting(v, h)' => v = u
        BY DEF ExportInv
      <4>1. Exporting(u, h) /\ h # f BY <1>6, <2>11, <3>2
      <4>2. /\ Oss /\ h \in Written /\ file[h].told = "nothing"
            /\ export[u] = At("mark", h) => file[h].object
            /\ \A v \in Turns : Exporting(v, h) => v = u
        BY <4>1 DEF FilesInv, ExportInv
      <4> QED BY <1>9, <2>4, <2>6, <2>9, <2>10, <2>11, <3>2, <4>1, <4>2
    <3> QED BY <3>1, <3>2
  <2>13. ASSUME NEW h \in Written' PROVE FileInv(h)'
    <3>1. CASE h = f
      <4>1. file'[f] = x BY <1>4, <2>4
      <4>2. Oss => Exporting(t, f)' BY <1>4, <2>10
      <4> QED BY <2>2, <3>1, <4>1, <4>2, ReportFilesAssumption DEF FileInv
    <3>2. CASE h # f
      <4>1. h \in Written /\ h \in 1..MaxExports BY <2>6, <3>2 DEF Written
      <4>2. file'[h] = g[h] BY <2>4, <3>2, <4>1
      <4>3. FileInv(h) BY <4>1 DEF FilesInv
      <4>4. \A u \in Turns : Exporting(u, h) => Exporting(u, h)' BY <1>5, <2>11, <4>1
      <4> QED BY <1>9, <4>1, <4>2, <4>3, <4>4 DEF FileInv
    <3> QED BY <3>1, <3>2
  <2>14. FilesInv' BY <2>5, <2>7, <2>8, <2>12, <2>13 DEF FilesInv
  <2>15. Stored' = (Stored \ Old) \cup {f}
    BY <1>4, <1>9, <2>2, <2>4, <2>6 DEF Stored, Written
  <2>16. \A h \in Stored \ Old : file'[h].session = file[h].session /\ h # f
    BY <1>4, <1>9, <2>4 DEF Stored, Written
  <2>17. file'[f].session = s BY <1>4, <2>2, <2>4
  <2>18. ASSUME NEW S, S \subseteq Written
         PROVE  /\ IsFiniteSet(S) /\ Cardinality(S) \in Nat
                /\ IsFiniteSet(S \cup {f}) /\ Cardinality(S \cup {f}) = Cardinality(S) + 1
    BY <1>4, <1>10, <2>18, FS_Subset, FS_CardinalityType, FS_AddElement
  <2>19. Cardinality(Stored') <= MaxAll
    <3>1. Stored \ Old \subseteq Written BY DEF Stored
    <3>2. Cardinality((Stored \ Old) \cup {f}) = Cardinality(Stored \ Old) + 1
          /\ Cardinality(Stored \ Old) \in Nat
      BY <3>1, <2>18
    <3>3. Cardinality(Stored \ Old) < MaxAll BY <1>11 DEF Room
    <3> QED BY <2>15, <3>2, <3>3, <1>2
  <2>20. ASSUME NEW z \in Sessions PROVE Cardinality(Of(z)') <= MaxFiles
    <3>1. CASE z = s
      <4>1. Of(z)' = (Of(s) \ Old) \cup {f} BY <2>15, <2>16, <2>17, <3>1 DEF Of
      <4>2. Of(s) \ Old \subseteq Written BY DEF Of, Stored
      <4>3. Cardinality((Of(s) \ Old) \cup {f}) = Cardinality(Of(s) \ Old) + 1
            /\ Cardinality(Of(s) \ Old) \in Nat
        BY <4>2, <2>18
      <4>4. Cardinality(Of(s) \ Old) < MaxFiles BY <1>11 DEF Room
      <4> QED BY <4>1, <4>3, <4>4, <1>2
    <3>2. CASE z # s
      <4>1. Of(z)' \subseteq Of(z) BY <2>15, <2>16, <2>17, <3>2 DEF Of
      <4>2. Of(z) \subseteq Written BY DEF Of, Stored
      <4>3. IsFiniteSet(Of(z)) /\ Cardinality(Of(z)) \in Nat BY <4>2, <2>18
      <4>4. Cardinality(Of(z)') <= Cardinality(Of(z)) /\ Cardinality(Of(z)') \in Nat
        BY <4>1, <4>3, FS_Subset, FS_CardinalityType
      <4> QED BY <4>3, <4>4, <1>2 DEF FilesWithinLimits
    <3> QED BY <3>1, <3>2
  <2> QED BY <2>14, <2>19, <2>20 DEF FilesWithinLimits
<1>12. CASE ~Room(s)
  <2>1. file' = Removes(Old) /\ Finish(t) BY <1>12 DEF Writes
  <2> QED BY <1>5, <1>7, <2>1, WriteEnds
<1> QED BY <1>11, <1>12

(* Ages and DeleteFiles of the service, and a crash of Hermes. *)
LEMMA AroundKeepsFiles ==
    ASSUME FilesInv, FilesWithinLimits,
           \/ \E s \in Sessions : DeleteFiles(s)
           \/ \E f \in 1..MaxExports : Ages(f)
           \/ Cuts
    PROVE  FilesInv' /\ FilesWithinLimits'
<1>1. ASSUME NEW s \in Sessions, DeleteFiles(s) PROVE FilesInv' /\ FilesWithinLimits'
  <2>1. Of(s) \in SUBSET Written /\ file' = Removes(Of(s)) /\ export' = export
    BY <1>1 DEF DeleteFiles, Of, Stored
  <2>2. export' \in [Turns -> Places] BY <2>1 DEF FilesInv, FilesOK, Places
  <2>3. FilesInv' BY <2>1, <2>2, RemovesKeeps
  <2> QED BY <2>1, <2>3, RemovesShrinks, LimitsShrink
<1>2. ASSUME NEW f \in 1..MaxExports, Ages(f) PROVE FilesInv' /\ FilesWithinLimits'
  <2> DEFINE x == [file[f] EXCEPT !.old = TRUE]
  <2>1. /\ f \in Written /\ file[f] \in File /\ file[f].told # "nothing"
        /\ file' = [file EXCEPT ![f] = x] /\ export' = export
    BY <1>2 DEF Ages, Stored, Written, FilesInv, FilesOK
  <2>2. /\ x \in File /\ x.told = file[f].told /\ x.local = file[f].local /\ x.mark = file[f].mark
        /\ x.object = file[f].object /\ x.removed = file[f].removed /\ x.cut = file[f].cut
        /\ x.session = file[f].session
    BY <2>1 DEF File
  <2> HIDE DEF x
  <2>3. \A g \in 1..MaxExports : file'[g] = IF g = f THEN x ELSE file[g]
    BY <2>1 DEF FilesInv, FilesOK
  <2>4. \A t \in Turns : AtMostAbout(t, f) BY <2>1 DEF AtMostAbout, FilesInv, ExportInv
  <2>5. FileInv(f)'
    <3>1. FileInv(f) BY <2>1 DEF FilesInv
    <3>2. \A t \in Turns : Exporting(t, f)' <=> Exporting(t, f) BY <2>1 DEF Exporting
    <3> QED BY <2>2, <2>3, <3>1, <3>2 DEF FileInv
  <2>6. export' \in [Turns -> Places] BY <2>1 DEF FilesInv, FilesOK, Places
  <2>7. FilesInv' BY <2>1, <2>2, <2>4, <2>5, <2>6, OneFileChanges
  <2>8. Shrinks BY <2>1, <2>2, <2>3, FileFacts DEF Shrinks, Stored, Written
  <2> QED BY <2>7, <2>8, LimitsShrink
<1>3. CASE Cuts
  <2> DEFINE cut == {export[t].file : t \in {u \in Turns : export[u].step \in {"upload", "mark"}}}
  <2>1. /\ file' = [f \in 1..MaxExports |->
               IF f \in cut THEN [file[f] EXCEPT !.cut = TRUE] ELSE file[f]]
        /\ export' = [t \in Turns |-> NoExport]
    BY <1>3 DEF Cuts
  <2>2. ASSUME NEW f \in cut PROVE f \in Written /\ file[f] \in File
    <3>1. PICK t \in Turns : export[t].step \in {"upload", "mark"} /\ f = export[t].file
      BY <2>2
    <3>2. f \in 1..MaxExports /\ Exporting(t, f)
      BY <3>1, ExportPlace DEF Exporting, FilesInv
    <3> QED BY <3>2 DEF FilesInv, ExportInv, FilesOK, Written
  <2>3. ASSUME NEW f \in 1..MaxExports, NEW t \in Turns, Exporting(t, f) PROVE f \in cut
    BY <2>3, ExportsAreTold DEF Exporting
  <2> HIDE DEF cut
  <2>4. ASSUME NEW x \in File, NEW y, y = [x EXCEPT !.cut = TRUE]
        PROVE  /\ y \in File /\ y.told = x.told /\ y.local = x.local /\ y.mark = x.mark
               /\ y.object = x.object /\ y.removed = x.removed /\ y.session = x.session /\ y.cut
    BY <2>4 DEF File
  <2>5. ASSUME NEW f \in cut
        PROVE  /\ file'[f] \in File /\ file'[f].told = file[f].told /\ file'[f].local = file[f].local
               /\ file'[f].mark = file[f].mark /\ file'[f].object = file[f].object
               /\ file'[f].removed = file[f].removed /\ file'[f].session = file[f].session
               /\ file'[f].cut
    <3> DEFINE x == file[f]
               y == file'[f]
    <3>1. f \in 1..MaxExports BY <2>2 DEF Written
    <3>2. x \in File /\ y = [x EXCEPT !.cut = TRUE] BY <2>1, <2>2, <3>1
    <3> HIDE DEF x, y
    <3>3. /\ y \in File /\ y.told = x.told /\ y.local = x.local /\ y.mark = x.mark
          /\ y.object = x.object /\ y.removed = x.removed /\ y.session = x.session /\ y.cut
      BY <2>4, <3>2
    <3> QED BY <3>3 DEF x, y
  <2>6. \A f \in 1..MaxExports \ cut : file'[f] = file[f] BY <2>1
  <2>7. file' = [f \in 1..MaxExports |-> file'[f]] BY <2>1
  <2>8. \A f \in 1..MaxExports : file'[f] \in File \cup {NoFile}
    BY <2>5, <2>6 DEF FilesInv, FilesOK
  <2>9. FilesOK' BY <2>1, <2>7, <2>8 DEF FilesOK
  <2>10. Written' = Written BY <2>2, <2>5, <2>6, FileFacts DEF Written
  <2>11. \A t \in Turns, f \in 1..MaxExports : ~Exporting(t, f)'
    BY <2>1, ExportsAreTold DEF Exporting
  <2>12. ASSUME NEW f \in Written
         PROVE  /\ file'[f].told = file[f].told /\ file'[f].object = file[f].object /\ FileInv(f)'
                /\ file'[f].local = file[f].local /\ file'[f].session = file[f].session
    <3>1. f \in 1..MaxExports /\ FileInv(f) BY DEF Written, FilesInv
    <3>2. CASE f \in cut BY <2>5, <3>1, <3>2 DEF FileInv
    <3>3. CASE f \notin cut
      <4>1. file'[f] = file[f] BY <2>6, <3>1, <3>3
      <4>2. \A t \in Turns : ~Exporting(t, f) BY <2>3, <3>1, <3>3
      <4> QED BY <3>1, <4>1, <4>2 DEF FileInv
    <3> QED BY <3>2, <3>3
  <2>13. FilesInv' BY <2>9, <2>10, <2>11, <2>12, FilesChange
  <2>14. Shrinks BY <2>10, <2>12 DEF Shrinks, Stored
  <2> QED BY <2>13, <2>14, LimitsShrink
<1> QED BY <1>1, <1>2, <1>3

LEMMA PlacesOfFiles ==
    ASSUME export \in [Turns -> Places], file \in [1..MaxExports -> File \cup {NoFile}]
    PROVE  FilesOK
BY DEF FilesOK, Places

(* What an earlier process left in the storage. *)
LEMMA InitFilesInv == Init => FilesInv /\ FilesWithinLimits
<1> SUFFICES ASSUME NEW left \in Earlier, FileInit(left) PROVE FilesInv /\ FilesWithinLimits
  BY DEF Init
<1>1. /\ left \in Seq(Sessions) /\ Len(left) <= MaxExports /\ Len(left) <= MaxAll
      /\ \A s \in Sessions : Cardinality({f \in 1..Len(left) : left[f] = s}) <= MaxFiles
      /\ MaxExports \in Nat /\ Oss \in BOOLEAN
  BY ReportFilesAssumption
<1>2. PICK n : n = Len(left) OBVIOUS
<1>3. n \in 0..MaxExports /\ \A f \in 1..n : left[f] \in Sessions BY <1>1, <1>2
<1>4. \A f \in 1..n : f \in 1..MaxExports BY <1>1, <1>3
<1>5. \A f \in 1..MaxExports :
         file[f] = IF f \in 1..n
                   THEN [NewFile(left[f]) EXCEPT !.object = Oss, !.mark = Oss, !.told = "ok"]
                   ELSE NoFile
  BY <1>2, Zenon DEF FileInit
<1>6. \A f \in 1..n :
        /\ f \in 1..MaxExports
        /\ file[f] = [NewFile(left[f]) EXCEPT !.object = Oss, !.mark = Oss, !.told = "ok"]
  BY <1>4, <1>5
<1>7. \A f \in 1..n : /\ file[f] \in File /\ file[f].session = left[f]
                       /\ file[f].local /\ file[f].told = "ok" /\ ~file[f].removed
                       /\ (file[f].object <=> Oss) /\ (file[f].mark <=> Oss)
  BY <1>1, <1>3, <1>6 DEF NewFile, File
<1>8. \A f \in (1..MaxExports) \ (1..n) : file[f] = NoFile BY <1>5
<1>9. FilesOK
  <2>1. DOMAIN file = 1..MaxExports /\ file = [f \in 1..MaxExports |-> file[f]]
    BY DEF FileInit
  <2>2. \A f \in 1..MaxExports : file[f] \in File \cup {NoFile} BY <1>7, <1>8
  <2>3. file \in [1..MaxExports -> File \cup {NoFile}] BY <2>1, <2>2
  <2>4. export = [t \in Turns |-> NoExport] BY DEF FileInit
  <2>5. NoExport \in Places BY DEF Places
  <2>6. export \in [Turns -> Places] BY <2>4, <2>5
  <2> QED BY <2>3, <2>6, PlacesOfFiles
<1>10. Written = 1..n
  <2>1. \A f \in 1..MaxExports : file[f] # NoFile <=> f \in 1..n BY <1>7, <1>8, FileFacts
  <2>2. Written = {f \in 1..MaxExports : f \in 1..n} BY <2>1 DEF Written
  <2> QED BY <1>4, <2>2
<1>11. \A t \in Turns, f \in 1..MaxExports : ~Exporting(t, f)
  BY ExportsAreTold DEF FileInit, Exporting
<1>12. \A f \in Written : FileInv(f) BY <1>1, <1>7, <1>10 DEF FileInv
<1>13. FilesInv BY <1>3, <1>9, <1>10, <1>11, <1>12 DEF FilesInv, ExportInv
<1>14. Stored = 1..n BY <1>7, <1>10 DEF Stored
<1>15. Cardinality(Stored) <= MaxAll
  <2>1. n \in Nat /\ n <= MaxAll BY <1>1, <1>2, <1>3
  <2>2. Cardinality(1..n) = n BY <2>1, FS_Interval
  <2> QED BY <1>14, <2>1, <2>2
<1>16. ASSUME NEW s \in Sessions PROVE Cardinality(Of(s)) <= MaxFiles
  <2>1. Of(s) = {f \in 1..Len(left) : left[f] = s} BY <1>2, <1>7, <1>14 DEF Of
  <2> QED BY <1>1, <2>1
<1> QED BY <1>13, <1>15, <1>16 DEF FilesWithinLimits

LEMMA NextFilesInv == FilesInv /\ FilesWithinLimits /\ [Next]_vars => FilesInv' /\ FilesWithinLimits'
<1> SUFFICES ASSUME FilesInv, FilesWithinLimits, [Next]_vars PROVE FilesInv' /\ FilesWithinLimits'
  OBVIOUS
<1>0. ASSUME UNCHANGED fileVars PROVE FilesInv' /\ FilesWithinLimits'
  BY <1>0 DEF fileVars, FilesInv, FilesOK, Written, ExportInv, Exporting, FileInv, FilesWithinLimits,
             Stored, Of
<1>1. ASSUME NEW t \in Turns, Call(t) PROVE FilesInv' /\ FilesWithinLimits'
  <2>1. CASE UNCHANGED fileVars BY <1>0, <2>1
  <2>2. ASSUME NEW found \in BOOLEAN, export[t] = NoExport, UNCHANGED file,
               export' = [export EXCEPT ![t] = IF found THEN [step |-> "write"] ELSE NoExport]
        PROVE  FilesInv' /\ FilesWithinLimits'
    <3>1. \A u \in Turns : export'[u] = IF u = t THEN IF found THEN [step |-> "write"] ELSE NoExport
                                                 ELSE export[u]
      BY <2>2 DEF FilesInv, FilesOK
    <3>2. FilesOK' BY <2>2 DEF FilesInv, FilesOK
    <3>3. Written' = Written BY <2>2 DEF Written
    <3>4. \A u \in Turns, f \in 1..MaxExports : Exporting(u, f)' <=> Exporting(u, f)
      BY <2>2, <3>1, ExportsAreTold DEF Exporting
    <3>5. \A u \in Turns, f \in 1..MaxExports : Exporting(u, f)' => export'[u] = export[u]
      BY <3>1, ExportsAreTold DEF Exporting
    <3>6. ASSUME NEW f \in Written PROVE FileInv(f)'
      <4>1. FileInv(f) /\ f \in 1..MaxExports BY DEF FilesInv, Written
      <4> QED BY <2>2, <3>4, <4>1 DEF FileInv
    <3>7. FilesInv' BY <2>2, <3>2, <3>3, <3>4, <3>5, <3>6, FilesChange
    <3> QED BY <2>2, <3>7 DEF FilesWithinLimits, Stored, Of, Written
  <2> QED BY <1>1, <2>1, <2>2 DEF Call, Free
<1>2. ASSUME NEW t \in Turns, Exports(t) PROVE FilesInv' /\ FilesWithinLimits'
  <2>1. CASE Writes(t) BY <2>1, WritesKeeps
  <2>2. CASE WriteFails(t)
    <3>1. \A f \in 1..MaxExports : ~Exporting(t, f) BY <2>2, ExportsAreTold DEF WriteFails, Exporting
    <3>2. Old \in SUBSET Written /\ {} \in SUBSET Written BY DEF Old, Stored
    <3>3. file = Removes({}) BY DEF Removes, FilesInv, FilesOK
    <3>4. Finish(t) /\ (file' = Removes({}) \/ file' = Removes(Old)) BY <2>2, <3>3 DEF WriteFails
    <3> QED BY <3>1, <3>2, <3>4, WriteEnds
  <2>3. CASE Uploads(t) \/ Marks(t) BY <2>3, UploadsKeeps, LimitsShrink
  <2> QED BY <1>2, <2>1, <2>2, <2>3 DEF Exports
<1>3. CASE UNCHANGED vars BY <1>0, <1>3 DEF vars
<1>4. CASE Users \/ Time BY <1>0, <1>4, AroundKeepsFiles DEF Users, Time
<1>8. ASSUME NEW t \in Turns, Starts(t) PROVE FilesInv' /\ FilesWithinLimits'
  BY <1>0, <1>8 DEF Starts
<1>5. CASE Crash BY <1>5, AroundKeepsFiles DEF Crash
<1>6. ASSUME NEW t \in Turns, Works(t) PROVE FilesInv' /\ FilesWithinLimits'
  BY <1>0, <1>2, <1>6 DEF Works
<1>7. ASSUME NEW t \in Turns, Passes(t) PROVE FilesInv' /\ FilesWithinLimits'
  BY <1>0, <1>7 DEF Passes
<1> QED BY <1>1, <1>3, <1>4, <1>5, <1>6, <1>7, <1>8 DEF Next

(* What is known of a file from its export and from what its agent was     *)
(* told, and the limits of the storage (_write_artifact).                  *)
THEOREM FilesAgree == Spec => [](FilesInv /\ FilesWithinLimits)
BY InitFilesInv, NextFilesInv, PTL DEF Spec

(* A client gets a report that was exported and no other, whatever upload, *)
(* record and deletion fail or cross each other (export_report_file,       *)
(* upload_report_artifact, and the route of a download).                   *)
THEOREM ExportsStayWhole == Spec => []ExportsAreWhole
<1>1. FilesInv => ExportsAreWhole
  <2> SUFFICES ASSUME FilesInv, NEW f \in Written
               PROVE  /\ file[f].told = "ok" /\ ~file[f].removed => Served(f) = IF Oss THEN "link" ELSE "file"
                      /\ file[f].told = "error" => Served(f) = "nothing"
                      /\ Served(f) = "link" => file[f].object
                      /\ Oss /\ Served(f) = "file" =>
                             file[f].cut \/ \E t \in Turns : export[t] \in {At("upload", f), At("mark", f)}
    BY DEF ExportsAreWhole
  <2>1. FileInv(f) BY DEF FilesInv
  <2>2. Oss \in BOOLEAN BY ReportFilesAssumption
  <2> QED BY <2>1, <2>2 DEF FileInv, Served, Found, Linked, Exporting
<1> QED BY <1>1, FilesAgree, PTL

-----------------------------------------------------------------------------
(* The limits of the registry and of the storage, whatever turns, users    *)
(* and crashes do (query_results.py, and _write_artifact).                 *)
THEOREM LimitsHold == Spec => []WithinLimits
BY RegistryAgrees, FilesAgree, PTL DEF WithinLimits

(* Turns, registries, files and bounds keep their types. *)
THEOREM ReportTypes == Spec => []TypeOK
<1> DEFINE Load == load \in [Events -> Nat]
<1>1. Init => Load
  <2> SUFFICES ASSUME NEW left \in Earlier,
                      load = [event \in Events |-> IF event = "kept" THEN Len(left) ELSE 0]
               PROVE  Load
    BY DEF Init
  <2>1. Len(left) \in Nat BY ReportFilesAssumption
  <2> QED BY <2>1
<1>2. Load /\ [Next]_vars => Load'
  <2> SUFFICES ASSUME Load, [Next]_vars PROVE Load' OBVIOUS
  <2>1. ASSUME NEW event \in Events, Counts(event) PROVE Load'
    <3>1. load[event] + 1 \in Nat OBVIOUS
    <3> QED BY <2>1, <3>1 DEF Counts
  <2>2. CASE UNCHANGED load BY <2>2
  <2>3. Load' \/ UNCHANGED load
    BY <2>1 DEF Next, Users, Time, Crash, Starts, Call, Works, Passes, vars, Events
  <2> QED BY <2>2, <2>3
<1>3. Spec => []Load BY <1>1, <1>2, PTL DEF Spec
<1>4. ClarifyInv /\ QueryInv /\ FilesInv /\ Load => TypeOK
  BY DEF ClarifyInv, QueryInv, FilesInv, TypeOK
<1> QED BY <1>3, <1>4, ClarifyInvariant, RegistryAgrees, FilesAgree, PTL
=============================================================================
