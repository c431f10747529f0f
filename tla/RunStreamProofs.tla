-------------------------- MODULE RunStreamProofs --------------------------
(***************************************************************************)
(* Proofs about RunStream, for every set of runs and clients, every limit  *)
(* of the logs, and every bound: what a log holds, what a client that      *)
(* reconnects receives of it, and what it was told when its stream ends.   *)
(*                                                                         *)
(* The invariant ties three things together: an event and the record of    *)
(* its run (Sound), the events of one log (LogInv), and a log and the ids  *)
(* that a connection holds (ConnInv).  The text and the outcomes of a      *)
(* client need two more (ReadInv, ToldInv), as long as no log loses an     *)
(* event.                                                                  *)
(***************************************************************************)
EXTENDS RunStream, FiniteSetTheorems, SequenceTheorems, WellFoundedInduction, TLAPS

(* Induction on numbers for a given set: what holds at 0 and goes up to    *)
(* the next holds up to L.                                                 *)
LEMMA UpFromZero ==
  ASSUME NEW L \in Nat, NEW T, 0 \in T, \A n \in 0 .. L - 1 : n \in T => n + 1 \in T
  PROVE  \A n \in 0 .. L : n \in T
<1>1. SUFFICES ASSUME {n \in 0 .. L : n \notin T} # {} PROVE FALSE OBVIOUS
<1> DEFINE F == {n \in 0 .. L : n \notin T}
<1>2. F \subseteq Nat /\ F # {} BY <1>1
<1>3. PICK n \in F : \A m \in F : ~(<<m, n>> \in OpToRel(<, Nat))
  <2> HIDE DEF F
  <2> QED BY <1>2, NatLessThanWellFounded, WFMin, Zenon
<1>4. \A m \in F : ~(m < n) BY <1>2, <1>3 DEF OpToRel
<1>5. n \in 0 .. L /\ n \notin T BY <1>3
<1>6. n # 0 BY <1>5
<1>7. n - 1 \in 0 .. L - 1 /\ n - 1 \in 0 .. L /\ n - 1 < n /\ n - 1 + 1 = n BY <1>5, <1>6
<1>8. n - 1 \in T BY <1>4, <1>7
<1> QED BY <1>5, <1>7, <1>8

(* The sequences picked from the first entries. *)
UpTo(f, entries, places, n) ==
  f = [m \in 0 .. n |->
         IF m = 0 THEN <<>>
         ELSE IF m \in places THEN Append(f[m - 1], entries[m]) ELSE f[m - 1]]

(* The recursive function of Picked exists.                                *)
LEMMA UpToExists ==
  ASSUME NEW entries, NEW places, NEW L \in Nat
  PROVE  \E f : UpTo(f, entries, places, L)
<1> DEFINE T == {n \in Nat : \E f : UpTo(f, entries, places, n)}
<1>1. 0 \in T
  <2> DEFINE f == [m \in 0 .. 0 |-> <<>>]
  <2>1. UpTo(f, entries, places, 0) BY DEF UpTo
  <2> HIDE DEF f
  <2> QED BY <2>1
<1>2. ASSUME NEW n \in 0 .. L - 1, n \in T PROVE n + 1 \in T
  <2>1. PICK f : UpTo(f, entries, places, n) BY <1>2
  <2>2. PICK v : v = IF n + 1 \in places THEN Append(f[n], entries[n + 1]) ELSE f[n] OBVIOUS
  <2>3. PICK g : g = [m \in 0 .. n + 1 |-> IF m = n + 1 THEN v ELSE f[m]] OBVIOUS
  <2>4. ASSUME NEW m \in 0 .. n + 1
        PROVE  g[m] = IF m = 0 THEN <<>>
                      ELSE IF m \in places THEN Append(g[m - 1], entries[m]) ELSE g[m - 1]
    <3>1. CASE m = n + 1 BY <2>2, <2>3, <3>1
    <3>2. CASE m \in 0 .. n
      <4>1. f[m] = IF m = 0 THEN <<>>
                   ELSE IF m \in places THEN Append(f[m - 1], entries[m]) ELSE f[m - 1]
        BY <2>1, <3>2 DEF UpTo
      <4>2. g[m] = f[m] /\ (m # 0 => g[m - 1] = f[m - 1]) BY <2>3, <3>2
      <4> QED BY <4>1, <4>2
    <3> QED BY <3>1, <3>2
  <2>5. UpTo(g, entries, places, n + 1) BY <2>3, <2>4 DEF UpTo
  <2> QED BY <2>5
<1>3. \A n \in 0 .. L : n \in T
  <2> HIDE DEF T
  <2> QED BY <1>1, <1>2, UpFromZero
<1> QED BY <1>3

(* A sequence s lists some places of entries, in order. *)
Lists(s, entries, places) ==
  \E f : /\ f \in [1 .. Len(s) -> places]
         /\ \A i, j \in 1 .. Len(s) : i < j => f[i] < f[j]
         /\ \A p \in places : \E i \in 1 .. Len(s) : f[i] = p
         /\ \A i \in 1 .. Len(s) : s[i] = entries[f[i]]

(* One more place at the end.                                              *)
LEMMA ListsNext ==
  ASSUME NEW S, NEW s \in Seq(S), NEW entries, NEW n \in Nat, NEW places \in SUBSET (1 .. n),
         Lists(s, entries, places), entries[n + 1] \in S
  PROVE  Lists(Append(s, entries[n + 1]), entries, places \cup {n + 1})
<1>1. PICK f : /\ f \in [1 .. Len(s) -> places]
               /\ \A i, j \in 1 .. Len(s) : i < j => f[i] < f[j]
               /\ \A p \in places : \E i \in 1 .. Len(s) : f[i] = p
               /\ \A i \in 1 .. Len(s) : s[i] = entries[f[i]]
  BY DEF Lists
<1>2. PICK t : t = Append(s, entries[n + 1]) OBVIOUS
<1>3. /\ Len(s) \in Nat /\ Len(t) = Len(s) + 1 /\ t[Len(s) + 1] = entries[n + 1]
      /\ \A i \in 1 .. Len(s) : t[i] = s[i]
  BY <1>2, AppendProperties, LenProperties
<1>4. PICK g : g = [i \in 1 .. Len(s) + 1 |-> IF i = Len(s) + 1 THEN n + 1 ELSE f[i]] OBVIOUS
<1>5. g[Len(s) + 1] = n + 1 /\ \A i \in 1 .. Len(s) : g[i] = f[i] BY <1>3, <1>4
<1>6. \A i \in 1 .. Len(s) : f[i] \in places /\ f[i] < n + 1
  <2>1. \A p \in places : p < n + 1 OBVIOUS
  <2> QED BY <1>1, <2>1
<1>7. g \in [1 .. Len(t) -> places \cup {n + 1}] BY <1>3, <1>4, <1>6
<1>8. \A i, j \in 1 .. Len(t) : i < j => g[i] < g[j] BY <1>1, <1>3, <1>5, <1>6
<1>9. ASSUME NEW p \in places \cup {n + 1} PROVE \E i \in 1 .. Len(t) : g[i] = p
  <2>1. 1 .. Len(s) \subseteq 1 .. Len(t) /\ Len(s) + 1 \in 1 .. Len(t) BY <1>3
  <2>2. CASE p = n + 1 BY <1>5, <2>1, <2>2
  <2>3. CASE p \in places
    <3>1. PICK i \in 1 .. Len(s) : f[i] = p BY <1>1, <2>3
    <3> QED BY <1>5, <2>1, <3>1
  <2> QED BY <2>2, <2>3
<1>10. \A i \in 1 .. Len(t) : t[i] = entries[g[i]] BY <1>1, <1>3, <1>5
<1> QED BY <1>2, <1>7, <1>8, <1>9, <1>10 DEF Lists

(* What Picked returns: the entries at the places, each once and in order. *)
(*  After, Poll and the buffered answer pick the events of a log with it.  *)
LEMMA PickedLists ==
  ASSUME NEW S, NEW entries \in Seq(S), NEW places \in SUBSET DOMAIN entries
  PROVE  /\ Picked(entries, places) \in Seq(S)
         /\ Lists(Picked(entries, places), entries, places)
<1> DEFINE L == Len(entries)
<1>1. L \in Nat /\ DOMAIN entries = 1 .. L /\ \A n \in 1 .. L : entries[n] \in S
  BY LenProperties
<1>2. PICK f : UpTo(f, entries, places, L) /\ Picked(entries, places) = f[L]
  <2>1. \E f : UpTo(f, entries, places, L)
    <3> HIDE DEF L
    <3> QED BY <1>1, UpToExists
  <2>2. UpTo(CHOOSE f : UpTo(f, entries, places, L), entries, places, L) BY <2>1
  <2>3. Picked(entries, places) = (CHOOSE f : UpTo(f, entries, places, L))[L] BY DEF Picked, UpTo
  <2> QED BY <2>2, <2>3
<1>0. places \subseteq 1 .. L BY <1>1
<1> DEFINE Below(n) == {p \in places : p <= n}
           T == {n \in Nat : f[n] \in Seq(S) /\ Lists(f[n], entries, Below(n))}
<1>3. \A n \in 0 .. L : f[n] = IF n = 0 THEN <<>>
                               ELSE IF n \in places THEN Append(f[n - 1], entries[n]) ELSE f[n - 1]
  BY <1>2 DEF UpTo
<1>4. 0 \in T
  <2>1. f[0] = <<>> BY <1>1, <1>3
  <2>2. Below(0) = {} BY <1>0
  <2>3. <<>> \in [1 .. Len(<<>>) -> {}] /\ Len(<<>>) = 0 OBVIOUS
  <2>4. Lists(<<>>, entries, {}) BY <2>3 DEF Lists
  <2>5. f[0] \in Seq(S) /\ Lists(f[0], entries, Below(0))
    <3> HIDE DEF Below
    <3> QED BY <2>1, <2>2, <2>4, EmptySeq
  <2> HIDE DEF Below
  <2> QED BY <2>5
<1>5. ASSUME NEW n \in 0 .. L - 1, n \in T PROVE n + 1 \in T
  <2>0. n \in Nat /\ n + 1 \in 1 .. L /\ n + 1 - 1 = n /\ n + 1 # 0 BY <1>1
  <2>1. f[n] \in Seq(S) /\ Lists(f[n], entries, Below(n)) BY <1>5
  <2>4. PICK m : m = n + 1 OBVIOUS
  <2>5. f[m] = IF m \in places THEN Append(f[m - 1], entries[m]) ELSE f[m - 1]
    BY <1>1, <1>3, <2>0, <2>4
  <2>6. f[n + 1] = IF n + 1 \in places THEN Append(f[n], entries[n + 1]) ELSE f[n]
    BY <2>0, <2>4, <2>5
  <2>2. CASE n + 1 \in places
    <3>1. f[n + 1] = Append(f[n], entries[n + 1]) BY <2>2, <2>6
    <3>2. Below(n + 1) = Below(n) \cup {n + 1}
      <4>1. \A p \in places : p <= n + 1 <=> p <= n \/ p = n + 1 BY <1>0, <1>1, <2>0
      <4> QED BY <2>2, <4>1
    <3>3. Below(n) \in SUBSET (1 .. n)
      <4>1. \A p \in places : p \in Nat /\ 1 <= p BY <1>0, <1>1
      <4> QED BY <2>0, <4>1
    <3>4. entries[n + 1] \in S BY <1>1, <2>0
    <3> HIDE DEF Below
    <3>5. Lists(Append(f[n], entries[n + 1]), entries, Below(n) \cup {n + 1})
      <4>1. PICK s \in Seq(S) : s = f[n] BY <2>1
      <4>2. PICK B \in SUBSET (1 .. n) : B = Below(n) BY <3>3
      <4>3. Lists(s, entries, B) BY <2>1, <4>1, <4>2
      <4>4. Lists(Append(s, entries[n + 1]), entries, B \cup {n + 1}) BY <2>0, <3>4, <4>3, ListsNext
      <4> QED BY <4>1, <4>2, <4>4
    <3>6. f[n + 1] \in Seq(S) BY <2>1, <3>1, <3>4, AppendProperties
    <3>7. Lists(f[n + 1], entries, Below(n + 1)) BY <3>1, <3>2, <3>5
    <3> QED BY <2>0, <3>6, <3>7
  <2>3. CASE n + 1 \notin places
    <3>1. f[n + 1] = f[n] BY <2>3, <2>6
    <3>2. Below(n + 1) = Below(n)
      <4>1. \A p \in places : p <= n + 1 <=> p <= n BY <1>0, <1>1, <2>0, <2>3
      <4> QED BY <4>1
    <3>3. Lists(f[n + 1], entries, Below(n + 1)) /\ f[n + 1] \in Seq(S)
      <4> HIDE DEF Below
      <4> QED BY <2>1, <3>1, <3>2
    <3> HIDE DEF Below
    <3> QED BY <2>0, <3>3
  <2> QED BY <2>2, <2>3
<1>6. L \in T
  <2> HIDE DEF T, L
  <2>1. \A n \in 0 .. L : n \in T BY <1>1, <1>4, <1>5, UpFromZero
  <2> QED BY <1>1, <2>1
<1>7. Below(L) = places BY <1>0, <1>1
<1> QED BY <1>2, <1>6, <1>7

-----------------------------------------------------------------------------
(* What publishing does to a log: the new drafts get the next ids and go    *)
(* to the end, and what is dropped goes from the front.                     *)

Grows(r, new, d) ==
  /\ nextId' = nextId + Len(new)
  /\ Len(log'[r]) = Len(log[r]) + Len(new) - d
  /\ \A i \in 1 .. Len(log'[r]) :
       log'[r][i] = IF i + d <= Len(log[r]) THEN log[r][i + d]
                    ELSE [id   |-> nextId + (i + d - Len(log[r])) - 1,
                          what |-> new[i + d - Len(log[r])]]
  /\ d = 0 \/ Len(log'[r]) = EventLimit
  /\ Len(log'[r]) <= EventLimit
  /\ \A other \in Runs \ {r} :
       log'[other] = IF Evicts(r) /\ other = Head(kept) THEN <<>> ELSE log[other]

LogsOK ==
  /\ log \in [Runs -> Seq(Event)]
  /\ kept \in Seq(Runs)
  /\ nextId \in Nat \ {0}

(* A publication gives its drafts consecutive ids.                         *)
LEMMA Numbers ==
  ASSUME nextId \in Nat \ {0}, NEW new \in Seq(Draft)
  PROVE  /\ Numbered(new) \in Seq(Event) /\ Len(Numbered(new)) = Len(new)
         /\ \A i \in 1 .. Len(new) : Numbered(new)[i] = [id |-> nextId + i - 1, what |-> new[i]]
<1>1. Len(new) \in Nat /\ \A i \in 1 .. Len(new) : new[i] \in Draft BY LenProperties
<1>2. \A i \in 1 .. Len(new) : [id |-> nextId + i - 1, what |-> new[i]] \in Event
  BY <1>1 DEF Event
<1>3. Numbered(new) \in [1 .. Len(new) -> Event] BY <1>2 DEF Numbered
<1>4. Numbered(new) \in Seq(Event) BY <1>1, <1>3, SeqDef
<1>5. Len(Numbered(new)) = Len(new) BY <1>1, <1>3, <1>4, LenProperties
<1> QED BY <1>4, <1>5 DEF Numbered

(* The limit drops events from the front, and never the last one.          *)
LEMMA Trims ==
  ASSUME NEW entries \in Seq(Event)
  PROVE  /\ Trimmed(entries) \in Seq(Event) /\ Len(Trimmed(entries)) <= EventLimit
         /\ \E d \in 0 .. Len(entries) :
              /\ Len(Trimmed(entries)) = Len(entries) - d
              /\ d = 0 \/ Len(Trimmed(entries)) = EventLimit
              /\ \A i \in 1 .. Len(entries) - d : Trimmed(entries)[i] = entries[i + d]
              /\ entries # <<>> => Trimmed(entries) # <<>>
<1>1. Len(entries) \in Nat /\ EventLimit \in Nat /\ EventLimit >= 1
      /\ \A i \in 1 .. Len(entries) : entries[i] \in Event
  BY LenProperties, LimitsAssumption
<1> DEFINE d == IF Len(entries) > EventLimit THEN Len(entries) - EventLimit ELSE 0
           t == SubSeq(entries, d + 1, Len(entries))
<1>2. d \in 0 .. Len(entries) /\ d + 1 \in Int /\ Len(entries) \in Int
      /\ Len(entries) - d <= EventLimit /\ (entries # <<>> => Len(entries) - d >= 1)
      /\ (d = 0 \/ Len(entries) - d = EventLimit)
  BY <1>1, EmptySeq
<1>3. Trimmed(entries) = t BY <1>1 DEF Trimmed
<1> HIDE DEF d
<1>4. \A i \in d + 1 .. Len(entries) : entries[i] \in Event BY <1>1, <1>2
<1>5. /\ t \in Seq(Event)
      /\ Len(t) = IF d + 1 <= Len(entries) THEN Len(entries) - (d + 1) + 1 ELSE 0
      /\ \A i \in 1 .. Len(entries) - (d + 1) + 1 : t[i] = entries[(d + 1) + i - 1]
  BY <1>2, <1>4, SubSeqProperties
<1> HIDE DEF t
<1>6. Len(t) = Len(entries) - d BY <1>1, <1>2, <1>5
<1>7. \A i \in 1 .. Len(entries) - d : t[i] = entries[i + d]
  <2>1. ASSUME NEW i \in 1 .. Len(entries) - d PROVE t[i] = entries[i + d]
    <3>1. i \in 1 .. Len(entries) - (d + 1) + 1 /\ (d + 1) + i - 1 = i + d BY <1>1, <1>2
    <3> QED BY <1>5, <3>1
  <2> QED BY <2>1
<1>8. entries # <<>> => t # <<>> BY <1>1, <1>2, <1>6
<1> QED BY <1>2, <1>3, <1>5, <1>6, <1>7, <1>8

(* The events that the service publishes are well formed.                  *)
LEMMA DraftsTyped ==
  /\ \A n, m \in Nat : LiveDelta(n, m) \in Draft /\ \A k \in Nat : FinalDelta(n, m, k) \in Draft
  /\ \A n \in Nat, status \in Unfinished : Progress(n, status) \in Draft
  /\ \A rec \in Record : rec.status \in Settled => TerminalDraft(rec) \in Draft
  /\ Unavailable \in Draft
<1>1. \A rec \in Record : rec.status \in Settled => TerminalKey(rec) \in Key /\ TerminalEvent(rec.status) \in
        {"clarification.required", "error", "run.completed"}
  BY DEF TerminalKey, TerminalEvent, Key, Record, Settled
<1>2. \A rec \in Record : rec.status \in Settled => TerminalDraft(rec) \in Draft
  BY <1>1 DEF TerminalDraft, Draft, Record
<1>3. NoKey \in Key BY DEF NoKey, Key
<1>4. \A n, m \in Nat : LiveDelta(n, m) \in Draft BY <1>3 DEF LiveDelta, Draft
<1>5. \A n, m, k \in Nat : FinalDelta(n, m, k) \in Draft BY DEF FinalDelta, Draft, Key
<1>6. \A n \in Nat, status \in Unfinished : Progress(n, status) \in Draft
  BY DEF Progress, Draft, Key, Unfinished
<1>7. Unavailable \in Draft BY DEF Unavailable, Draft, Key
<1> QED BY <1>2, <1>4, <1>5, <1>6, <1>7

(* What a publication adds. *)
Added(r, deltas, draft) == IF IsKept(log[r], draft) THEN deltas ELSE Append(deltas, draft)

(* _publish_agent_run_event keeps all logs well formed, whether the draft  *)
(* is suppressed by its key, the log is trimmed, or another one is         *)
(* evicted.                                                                *)
LEMMA PublishGrows ==
  ASSUME LogsOK, NEW r \in Runs, NEW deltas \in Seq(Draft), NEW draft \in Draft,
         Publish(r, deltas, draft)
  PROVE  /\ Added(r, deltas, draft) \in Seq(Draft)
         /\ LogsOK' /\ log'[r] # <<>>
         /\ \E d \in Nat : Grows(r, Added(r, deltas, draft), d)
<1> USE DEF LogsOK
<1> DEFINE left == IF Evicts(r) THEN [log EXCEPT ![Head(kept)] = <<>>] ELSE log
<1>1. PICK new : new = Added(r, deltas, draft) OBVIOUS
<1>2. new \in Seq(Draft) BY <1>1, AppendProperties DEF Added
<1>3. log' = [left EXCEPT ![r] = Trimmed(log[r] \o Numbered(new))] /\ nextId' = nextId + Len(new)
      /\ kept' = IF log[r] # <<>> THEN kept ELSE Append(IF Evicts(r) THEN Tail(kept) ELSE kept, r)
  BY <1>1 DEF Publish, Added
<1>4. log[r] \in Seq(Event) /\ Numbered(new) \in Seq(Event) /\ Len(Numbered(new)) = Len(new)
      /\ Len(new) \in Nat /\ Len(log[r]) \in Nat
      /\ \A i \in 1 .. Len(new) : Numbered(new)[i] = [id |-> nextId + i - 1, what |-> new[i]]
  BY <1>2, Numbers, LenProperties
<1>5. PICK all : all = log[r] \o Numbered(new) OBVIOUS
<1>6. all \in Seq(Event) /\ Len(all) = Len(log[r]) + Len(new)
      /\ \A i \in 1 .. Len(log[r]) + Len(new) :
           all[i] = IF i <= Len(log[r]) THEN log[r][i] ELSE Numbered(new)[i - Len(log[r])]
  <2>1. PICK old \in Seq(Event) : old = log[r] BY <1>4
  <2>2. PICK more \in Seq(Event) : more = Numbered(new) BY <1>4
  <2>3. /\ old \o more \in Seq(Event) /\ Len(old \o more) = Len(old) + Len(more)
        /\ \A i \in 1 .. Len(old) + Len(more) :
             (old \o more)[i] = IF i <= Len(old) THEN old[i] ELSE more[i - Len(old)]
    BY ConcatProperties
  <2> QED BY <1>4, <1>5, <2>1, <2>2, <2>3
<1>7. PICK t : t = Trimmed(all) OBVIOUS
<1>8. PICK d \in 0 .. Len(all) :
              /\ Len(t) = Len(all) - d
              /\ d = 0 \/ Len(t) = EventLimit
              /\ \A i \in 1 .. Len(all) - d : t[i] = all[i + d]
              /\ all # <<>> => t # <<>>
  BY <1>6, <1>7, Trims
<1>9. t \in Seq(Event) /\ Len(t) <= EventLimit BY <1>6, <1>7, Trims
<1>10. Evicts(r) => kept # <<>> /\ Head(kept) \in Runs /\ Tail(kept) \in Seq(Runs) /\ Len(kept) >= RunLimit
  <2>1. Evicts(r) => Len(kept) >= RunLimit /\ RunLimit >= 1 /\ RunLimit \in Nat
    BY LimitsAssumption DEF Evicts
  <2>2. Len(kept) >= 1 => kept # <<>> OBVIOUS
  <2> QED BY <2>1, <2>2, HeadTailProperties, LenProperties
<1>11. <<>> \in Seq(Event) OBVIOUS
<1>12. left \in [Runs -> Seq(Event)] BY <1>10, <1>11
<1>13. \A other \in Runs : left[other] = IF Evicts(r) /\ other = Head(kept) THEN <<>> ELSE log[other]
  BY <1>10
<1> HIDE DEF left
<1>14. log' \in [Runs -> Seq(Event)] /\ log'[r] = t /\ \A other \in Runs \ {r} : log'[other] = left[other]
  BY <1>3, <1>5, <1>7, <1>9, <1>12
<1>15. nextId' \in Nat \ {0}
  <2>1. nextId' = nextId + Len(new) BY <1>3
  <2> QED BY <1>4, <2>1
<1>16. kept' \in Seq(Runs) BY <1>3, <1>10, AppendProperties
<1>17. ASSUME NEW i \in 1 .. Len(t)
       PROVE t[i] = IF i + d <= Len(log[r]) THEN log[r][i + d]
                    ELSE [id   |-> nextId + (i + d - Len(log[r])) - 1,
                          what |-> new[i + d - Len(log[r])]]
  <2>1. d \in Nat /\ i \in 1 .. Len(all) - d /\ i + d \in 1 .. Len(log[r]) + Len(new)
    BY <1>4, <1>6, <1>8
  <2>2. t[i] = all[i + d] BY <1>8, <2>1
  <2>3. CASE i + d <= Len(log[r]) BY <1>6, <2>1, <2>2, <2>3
  <2>4. CASE ~(i + d <= Len(log[r]))
    <3>1. i + d - Len(log[r]) \in 1 .. Len(new)
      <4>1. PICK n \in Nat, m \in Nat, k \in Nat : n = Len(log[r]) /\ m = Len(new) /\ k = i + d
        BY <1>4, <2>1
      <4>2. k \in 1 .. n + m /\ ~(k <= n) BY <2>1, <2>4, <4>1
      <4>3. k - n \in 1 .. m BY <4>2
      <4> QED BY <4>1, <4>3
    <3>2. all[i + d] = IF i + d <= Len(log[r]) THEN log[r][i + d]
                       ELSE Numbered(new)[(i + d) - Len(log[r])]
      BY <1>6, <2>1
    <3>3. t[i] = Numbered(new)[i + d - Len(log[r])] BY <2>2, <2>4, <3>2
    <3> QED BY <1>4, <2>4, <3>1, <3>3
  <2> QED BY <2>3, <2>4
<1>18. d \in Nat /\ Len(t) = Len(log[r]) + Len(new) - d
       /\ (d = 0 \/ Len(t) = EventLimit)
  BY <1>4, <1>6, <1>8
<1>19. Grows(r, new, d) BY <1>3, <1>9, <1>13, <1>14, <1>17, <1>18 DEF Grows
<1>20. log'[r] # <<>>
  <2>1. log[r] = <<>> => new = Append(deltas, draft) BY <1>1 DEF Added, IsKept
  <2>2. log[r] = <<>> => Len(new) >= 1 BY <2>1, AppendProperties, LenProperties
  <2>3. log[r] # <<>> => Len(log[r]) >= 1 BY <1>4, EmptySeq
  <2>4. all # <<>> BY <1>4, <1>6, <2>2, <2>3
  <2> QED BY <1>8, <1>14, <2>4
<1> QED BY <1>1, <1>2, <1>14, <1>15, <1>16, <1>18, <1>19, <1>20

-----------------------------------------------------------------------------
(* The runs that have a log.                                                *)

KeptInv ==
  /\ Len(kept) <= RunLimit
  /\ \A i, j \in DOMAIN kept : kept[i] = kept[j] => i = j
  /\ \A r \in Runs : log[r] # <<>> <=> \E i \in DOMAIN kept : kept[i] = r

(* The runs with a log are each listed once and never too many, whatever   *)
(* is evicted for a new one.                                               *)
LEMMA KeptFollows ==
  ASSUME LogsOK, LogsOK', KeptInv, NEW r \in Runs, NEW deltas, NEW draft, NEW new, NEW d,
         Publish(r, deltas, draft), Grows(r, new, d), log'[r] # <<>>
  PROVE  KeptInv'
<1> DEFINE old == IF Evicts(r) THEN Tail(kept) ELSE kept
<1>1. kept' = IF log[r] # <<>> THEN kept ELSE Append(old, r) BY DEF Publish
<1>2. \A other \in Runs \ {r} :
         log'[other] = IF Evicts(r) /\ other = Head(kept) THEN <<>> ELSE log[other]
  BY DEF Grows
<1>3. kept \in Seq(Runs) /\ Len(kept) \in Nat /\ DOMAIN kept = 1 .. Len(kept)
      /\ RunLimit \in Nat /\ RunLimit >= 1
  BY LenProperties, LimitsAssumption DEF LogsOK
<1>6. \A i, j \in 1 .. Len(kept) : kept[i] = kept[j] => i = j BY <1>3 DEF KeptInv
<1>4. CASE log[r] # <<>>
  <2>1. ~Evicts(r) BY <1>4 DEF Evicts
  <2>2. \A other \in Runs : log'[other] # <<>> <=> log[other] # <<>> BY <1>2, <1>4, <2>1
  <2>3. kept' = kept BY <1>1, <1>4
  <2> QED BY <2>2, <2>3 DEF KeptInv
<1>5. CASE log[r] = <<>>
  <2>1. /\ old \in Seq(Runs) /\ Len(old) \in Nat /\ Len(old) < RunLimit
        /\ \A i, j \in 1 .. Len(old) : old[i] = old[j] => i = j
        /\ \A other \in Runs \ {r} :
             log'[other] # <<>> <=> \E i \in 1 .. Len(old) : old[i] = other
        /\ \A i \in 1 .. Len(old) : old[i] # r
    <3>1. CASE ~Evicts(r)
      <4>1. Len(kept) < RunLimit BY <1>3, <1>5, <3>1 DEF Evicts
      <4>2. \A i \in 1 .. Len(kept) : kept[i] # r BY <1>3, <1>5 DEF KeptInv
      <4> QED BY <1>2, <1>3, <3>1, <4>1, <4>2 DEF KeptInv
    <3>2. CASE Evicts(r)
      <4>1. kept # <<>> BY <1>3, <3>2 DEF Evicts
      <4>2. PICK tail : tail = Tail(kept) OBVIOUS
      <4>3. /\ tail \in Seq(Runs) /\ Len(tail) = Len(kept) - 1
            /\ \A i \in 1 .. Len(tail) : tail[i] = kept[i + 1]
        BY <1>3, <4>1, <4>2, HeadTailProperties
      <4>4. Len(kept) = RunLimit /\ Len(tail) \in Nat /\ Len(tail) < RunLimit
        <5>1. Len(kept) <= RunLimit BY DEF KeptInv
        <5>2. Len(kept) >= RunLimit BY <3>2 DEF Evicts
        <5>3. Len(kept) \in Nat /\ RunLimit \in Nat /\ RunLimit >= 1 /\ Len(tail) = Len(kept) - 1
          BY <1>3, <4>3
        <5> QED BY <5>1, <5>2, <5>3
      <4>5. Head(kept) = kept[1] /\ 1 \in 1 .. Len(kept) BY <1>3, <4>4
      <4>6. \A i \in 1 .. Len(tail) : i + 1 \in 1 .. Len(kept) /\ i + 1 # 1
        BY <1>3, <4>3
      <4>7. \A i, j \in 1 .. Len(tail) : tail[i] = tail[j] => i = j
        <5>1. ASSUME NEW i \in 1 .. Len(tail), NEW j \in 1 .. Len(tail), tail[i] = tail[j] PROVE i = j
          <6>1. i + 1 = j + 1 BY <1>6, <4>3, <4>6, <5>1
          <6> QED BY <6>1
        <5> QED BY <5>1
      <4>8. \A i \in 1 .. Len(tail) : tail[i] # r BY <1>3, <1>5, <4>3, <4>6 DEF KeptInv
      <4>9. ASSUME NEW other \in Runs \ {r}
            PROVE  log'[other] # <<>> <=> \E i \in 1 .. Len(tail) : tail[i] = other
        <5>1. CASE other = Head(kept)
          <6>1. log'[other] = <<>> BY <1>2, <3>2, <5>1
          <6>2. \A i \in 1 .. Len(tail) : tail[i] # other
            BY <1>6, <4>3, <4>5, <4>6, <5>1
          <6> QED BY <6>1, <6>2
        <5>2. CASE other # Head(kept)
          <6>1. log'[other] = log[other] BY <1>2, <5>2
          <6>2. \A j \in 1 .. Len(kept) : kept[j] = other => j # 1 BY <4>5, <5>2
          <6>3. \A j \in 1 .. Len(kept) : j # 1 => j - 1 \in 1 .. Len(tail) /\ tail[j - 1] = kept[j]
            BY <1>3, <4>3
          <6>4. (\E j \in 1 .. Len(kept) : kept[j] = other) <=> \E i \in 1 .. Len(tail) : tail[i] = other
            BY <4>3, <4>6, <6>2, <6>3
          <6> QED BY <1>3, <6>1, <6>4 DEF KeptInv
        <5> QED BY <5>1, <5>2
      <4> QED BY <3>2, <4>2, <4>3, <4>4, <4>7, <4>8, <4>9
    <3> QED BY <3>1, <3>2
  <2>2. kept' = Append(old, r) BY <1>1, <1>5
  <2> HIDE DEF old
  <2>3. /\ Len(kept') = Len(old) + 1 /\ kept'[Len(old) + 1] = r
        /\ \A i \in 1 .. Len(old) : kept'[i] = old[i]
        /\ DOMAIN kept' = 1 .. Len(old) + 1
    BY <2>1, <2>2, AppendProperties, LenProperties
  <2>4. \A i, j \in DOMAIN kept' : kept'[i] = kept'[j] => i = j BY <2>1, <2>3
  <2>5. \A other \in Runs \ {r} : (\E i \in DOMAIN kept' : kept'[i] = other)
                                  <=> \E i \in 1 .. Len(old) : old[i] = other
    BY <2>1, <2>3
  <2>6. \E i \in DOMAIN kept' : kept'[i] = r BY <2>1, <2>3
  <2>7. Len(kept') <= RunLimit BY <1>3, <2>1, <2>3
  <2> QED BY <2>1, <2>4, <2>5, <2>6, <2>7 DEF KeptInv
<1> QED BY <1>4, <1>5

-----------------------------------------------------------------------------
(* What an event of a log says of the record of its run: of which attempt   *)
(* and outcome it may be, and that its key is its own.                      *)

DeltaSound(d, rec) ==
  /\ d.attempt <= rec.attempt
  /\ d.attempt = rec.attempt /\ rec.status # "succeeded" => d.item <= rec.streamed
  /\ \/ d.key = NoKey
     \/ /\ rec.status = "succeeded"
        /\ \E o \in DOMAIN rec.content : d = FinalDelta(rec.attempt, rec.content[o], o)

OutcomeSound(d, rec) ==
  /\ d.attempt <= rec.attempt /\ 1 <= d.item /\ d.item <= rec.outcome
  /\ d.key.attempt = d.attempt
  /\ d.key.item = IF d.key.of = "waiting_input" THEN d.item ELSE 0
  /\ rec.status \in Settled /\ d.item = rec.outcome => d.attempt = rec.attempt /\ d.key.of = rec.status
  /\ d.key.of = "failed" /\ d.attempt = rec.attempt =>
       rec.retried \/ (rec.status = "failed" /\ d.item = rec.outcome)
  /\ d.key.of = "succeeded" => rec.status = "succeeded" /\ d.item = rec.outcome

Sound(d, rec) ==
  \/ d.event = "progress" /\ d.key.of \in Unfinished
  \/ d = Unavailable
  \/ d.event = "answer.delta" /\ DeltaSound(d, rec)
  \/ d.key.of \in Settled /\ d.event = TerminalEvent(d.key.of) /\ OutcomeSound(d, rec)

(* What the steps of a run keep of its record.                              *)
RecordInv(rec) ==
  /\ rec.status \in Settled => rec.outcome >= 1
  /\ rec.status = "succeeded" => rec.content \in Answers
  /\ rec.status = "absent" => rec = Absent
  /\ rec.retried /\ ~EarlyFailures => rec.status # "failed"

(* How far a run has come: each outcome, and each leg after it.             *)
Stage(rec) == 2 * rec.outcome + IF rec.status \in Settled THEN 0 ELSE 1

(* An answer numbers its pieces upwards, or is the one corrected text.     *)
LEMMA AnswersAreOrdered ==
  ASSUME NEW a \in Answers
  PROVE  /\ a \in Seq(Nat)
         /\ \A i \in DOMAIN a : a[i] = i \/ (a[i] = 0 /\ Len(a) = 1)
<1>1. CASE a = Corrected
  <2>1. <<0>> \in Seq(Nat) /\ Len(<<0>>) = 1 /\ DOMAIN <<0>> = 1 .. 1 /\ <<0>>[1] = 0 OBVIOUS
  <2> QED BY <1>1, <2>1 DEF Corrected
<1>2. ASSUME NEW n \in 1 .. Pieces, a = [i \in 1 .. n |-> i]
      PROVE a \in Seq(Nat) /\ \A i \in DOMAIN a : a[i] = i
  <2>1. n \in Nat BY StreamBoundsAssumption
  <2>2. a \in [1 .. n -> Nat] BY <1>2, <2>1
  <2> QED BY <1>2, <2>1, <2>2, SeqDef
<1> QED BY <1>1, <1>2 DEF Answers

(* A step of a run moves its record on, and every event that was sound of  *)
(* the old record is sound of the new one: attempts, outcomes and legs     *)
(* only go forward.                                                        *)
LEMMA MoveIsSound ==
  ASSUME run \in [Runs -> Record], NEW r \in Runs, RecordInv(run[r]), RunStep(r)
  PROVE  /\ run' = [run EXCEPT ![r] = run'[r]] /\ run'[r] \in Record /\ RecordInv(run'[r])
         /\ Stage(run[r]) <= Stage(run'[r])
         /\ run'[r].status # "absent"
         /\ \A d \in Draft : Sound(d, run[r]) => Sound(d, run'[r])
<1>1. PICK old \in Record : old = run[r] OBVIOUS
<1>2. PICK new : new = run'[r] OBVIOUS
<1> DEFINE Goal == /\ run' = [run EXCEPT ![r] = new] /\ new \in Record /\ RecordInv(new)
                   /\ Stage(old) <= Stage(new) /\ new.status # "absent"
                   /\ \A d \in Draft : Sound(d, old) => Sound(d, new)
<1>3. SUFFICES Goal BY <1>1, <1>2
<1>4. \A d \in Draft : d.attempt \in Nat /\ d.item \in Nat BY DEF Draft
<1>5. /\ old.attempt \in Nat /\ old.epoch \in Nat /\ old.streamed \in Nat /\ old.outcome \in Nat
      /\ old.content \in Seq(Nat) /\ old.retryable \in BOOLEAN /\ old.retried \in BOOLEAN
  BY DEF Record
<1>6. ASSUME NEW rec \in Record, Move(r, rec) PROVE run' = [run EXCEPT ![r] = new] /\ new = rec
  BY <1>2, <1>6 DEF Move
<1> DEFINE Passes(rec) == \A d \in Draft : Sound(d, old) => Sound(d, rec)
<1> USE DEF Unfinished, Settled
<1>7. CASE Create(r)
  <2>1. PICK rec : rec = [old EXCEPT !.status = "pending"] OBVIOUS
  <2>2. old = Absent BY <1>1, <1>7 DEF Create, RecordInv
  <2>3. rec \in Record BY <2>1 DEF Record
  <2>4. Move(r, rec) BY <1>7, <2>1, <2>2 DEF Create
  <2>5. Passes(rec) BY <1>4, <2>1, <2>2 DEF Sound, DeltaSound, OutcomeSound, Absent
  <2>6. RecordInv(rec) /\ Stage(old) <= Stage(rec) /\ rec.status # "absent"
    BY <2>1, <2>2 DEF RecordInv, Stage, Absent
  <2> QED BY <1>6, <2>3, <2>4, <2>5, <2>6
<1>8. CASE Claim(r)
  <2>1. PICK rec : rec = [old EXCEPT !.status = "running", !.attempt = @ + 1,
                            !.streamed = 0, !.retried = FALSE] OBVIOUS
  <2>2. old.status = "pending" /\ Move(r, rec) BY <1>1, <1>8, <2>1 DEF Claim
  <2>7. old.attempt + 1 \in Nat BY <1>5
  <2>3. rec \in Record BY <2>1, <2>7 DEF Record
  <2>4. rec.status = "running" /\ rec.attempt = old.attempt + 1 /\ ~rec.retried /\ rec.outcome = old.outcome
    BY <2>1 DEF Record
  <2>5. Passes(rec) BY <1>4, <1>5, <2>2, <2>4 DEF Sound, DeltaSound, OutcomeSound
  <2>6. RecordInv(rec) /\ Stage(old) <= Stage(rec) /\ rec.status # "absent"
    BY <1>5, <2>2, <2>4 DEF RecordInv, Stage
  <2> QED BY <1>6, <2>2, <2>3, <2>5, <2>6
<1>9. CASE StreamPiece(r)
  <2>1. PICK rec : rec = [old EXCEPT !.streamed = @ + 1] OBVIOUS
  <2>2. old.status = "running" /\ Move(r, rec) BY <1>1, <1>9, <2>1 DEF StreamPiece
  <2>7. old.streamed + 1 \in Nat BY <1>5
  <2>3. rec \in Record BY <2>1, <2>7 DEF Record
  <2>4. /\ rec.status = "running" /\ rec.attempt = old.attempt /\ rec.retried = old.retried
        /\ rec.outcome = old.outcome /\ rec.streamed = old.streamed + 1
    BY <2>1, <2>2 DEF Record
  <2>5. Passes(rec) BY <1>4, <1>5, <2>2, <2>4 DEF Sound, DeltaSound, OutcomeSound
  <2>6. RecordInv(rec) /\ Stage(old) <= Stage(rec) /\ rec.status # "absent"
    BY <1>5, <2>2, <2>4 DEF RecordInv, Stage
  <2> QED BY <1>6, <2>2, <2>3, <2>5, <2>6
<1>10. CASE RequeueRun(r)
  <2>1. PICK rec : rec = [old EXCEPT !.status = "pending"] OBVIOUS
  <2>2. old.status = "running" /\ Move(r, rec) BY <1>1, <1>10, <2>1 DEF RequeueRun
  <2>3. rec \in Record BY <2>1 DEF Record
  <2>4. /\ rec.status = "pending" /\ rec.attempt = old.attempt /\ rec.retried = old.retried
        /\ rec.outcome = old.outcome /\ rec.streamed = old.streamed
    BY <2>1 DEF Record
  <2>5. Passes(rec) BY <1>4, <1>5, <2>2, <2>4 DEF Sound, DeltaSound, OutcomeSound
  <2>6. RecordInv(rec) /\ Stage(old) <= Stage(rec) /\ rec.status # "absent"
    BY <1>5, <2>2, <2>4 DEF RecordInv, Stage
  <2> QED BY <1>6, <2>2, <2>3, <2>5, <2>6
<1>11. CASE Finish(r) \/ Fail(r)
  <2>1. \/ \E content \in Answers : Move(r, [old EXCEPT !.status = "succeeded", !.outcome = @ + 1,
                                                         !.content = content])
        \/ Move(r, [old EXCEPT !.status = "waiting_input", !.outcome = @ + 1])
        \/ \E retryable \in BOOLEAN : Move(r, [old EXCEPT !.status = "failed", !.outcome = @ + 1,
                                                          !.retryable = retryable])
    BY <1>1, <1>11 DEF Finish, Fail
  <2>2. old.status \in Unfinished BY <1>1, <1>11 DEF Finish, Fail
  <2>4. old.outcome + 1 \in Nat BY <1>5
  <2>3. PICK rec \in Record :
           /\ Move(r, rec) /\ rec.attempt = old.attempt /\ (rec.retried <=> old.retried)
           /\ rec.outcome = old.outcome + 1 /\ rec.streamed = old.streamed
           /\ rec.status \in Settled /\ (rec.status = "succeeded" => rec.content \in Answers)
    <3>1. ASSUME NEW content \in Answers, NEW rec,
                 rec = [old EXCEPT !.status = "succeeded", !.outcome = @ + 1, !.content = content]
          PROVE  rec \in Record /\ rec.attempt = old.attempt /\ (rec.retried <=> old.retried)
                 /\ rec.outcome = old.outcome + 1 /\ rec.streamed = old.streamed
                 /\ rec.status \in Settled /\ rec.content \in Answers
      <4>1. content \in Seq(Nat) BY AnswersAreOrdered
      <4> QED BY <2>4, <3>1, <4>1 DEF Record
    <3>2. ASSUME NEW status \in {"waiting_input", "failed"}, NEW retryable \in BOOLEAN, NEW rec,
                 rec = [old EXCEPT !.status = status, !.outcome = @ + 1, !.retryable = retryable]
          PROVE  rec \in Record /\ rec.attempt = old.attempt /\ (rec.retried <=> old.retried)
                 /\ rec.outcome = old.outcome + 1 /\ rec.streamed = old.streamed
                 /\ rec.status \in Settled /\ rec.status # "succeeded"
      BY <2>4, <3>2 DEF Record
    <3>3. [old EXCEPT !.status = "waiting_input", !.outcome = @ + 1]
             = [old EXCEPT !.status = "waiting_input", !.outcome = @ + 1, !.retryable = old.retryable]
      BY DEF Record
    <3> QED BY <1>5, <2>1, <3>1, <3>2, <3>3
  <2>5. ASSUME NEW d \in Draft, Sound(d, old) PROVE Sound(d, rec)
    <3>1. ASSUME DeltaSound(d, old) PROVE DeltaSound(d, rec) BY <1>4, <2>2, <2>3, <3>1 DEF DeltaSound
    <3>2. ASSUME OutcomeSound(d, old) PROVE OutcomeSound(d, rec)
      <4>1. d.item \in Nat /\ d.item <= old.outcome /\ old.outcome \in Nat
        BY <1>4, <1>5, <3>2 DEF OutcomeSound
      <4>2. d.item # rec.outcome /\ d.item <= rec.outcome BY <2>3, <4>1
      <4>3. old.status # "failed" /\ old.status # "succeeded" BY <2>2
      <4>4. /\ d.attempt <= rec.attempt /\ 1 <= d.item /\ d.key.attempt = d.attempt
            /\ d.key.item = IF d.key.of = "waiting_input" THEN d.item ELSE 0
        BY <2>3, <3>2 DEF OutcomeSound
      <4>5. d.key.of = "failed" /\ d.attempt = old.attempt => old.retried BY <3>2, <4>3 DEF OutcomeSound
      <4>6. d.key.of # "succeeded" BY <3>2, <4>3 DEF OutcomeSound
      <4>7. d.key.of = "failed" /\ d.attempt = rec.attempt => rec.retried BY <2>3, <4>5
      <4>8. d.key.of = "failed" /\ d.attempt = rec.attempt =>
              rec.retried \/ (rec.status = "failed" /\ d.item = rec.outcome)
        BY <4>7, Zenon
      <4>9. /\ rec.status \in Settled /\ d.item = rec.outcome => d.attempt = rec.attempt /\ d.key.of = rec.status
            /\ d.key.of = "succeeded" => rec.status = "succeeded" /\ d.item = rec.outcome
        BY <4>2, <4>6
      <4> QED BY <4>2, <4>4, <4>8, <4>9 DEF OutcomeSound
    <3> QED BY <2>5, <3>1, <3>2 DEF Sound
  <2>6. rec.retried /\ ~EarlyFailures => rec.status # "failed"
    <3>1. CASE Finish(r)
      <4>1. PICK x : /\ x.status # "failed" /\ Move(r, x)
        <5>1. ASSUME NEW content PROVE [old EXCEPT !.status = "succeeded", !.outcome = @ + 1,
                                                   !.content = content].status # "failed"
          BY DEF Record
        <5>2. [old EXCEPT !.status = "waiting_input", !.outcome = @ + 1].status # "failed" BY DEF Record
        <5> QED BY <1>1, <3>1, <5>1, <5>2 DEF Finish
      <4>2. new = x BY <1>2, <4>1 DEF Move
      <4> QED BY <1>6, <2>3, <4>1, <4>2
    <3>2. CASE Fail(r) BY <1>1, <2>3, <3>2 DEF Fail
    <3> QED BY <1>11, <3>1, <3>2
  <2>7. RecordInv(rec) /\ Stage(old) <= Stage(rec) /\ rec.status # "absent"
    BY <1>5, <2>2, <2>3, <2>6 DEF RecordInv, Stage
  <2> QED BY <1>6, <2>3, <2>5, <2>7
<1>12. CASE RetryByClient(r)
  <2>1. PICK rec : rec = [old EXCEPT !.status = "pending", !.retryable = FALSE, !.retried = TRUE] OBVIOUS
  <2>2. old.status = "failed" /\ Move(r, rec) BY <1>1, <1>12, <2>1 DEF RetryByClient
  <2>3. rec \in Record BY <2>1 DEF Record
  <2>4. /\ rec.status = "pending" /\ rec.attempt = old.attempt /\ rec.retried
        /\ rec.outcome = old.outcome /\ rec.streamed = old.streamed
    BY <2>1 DEF Record
  <2>5. Passes(rec) BY <1>4, <1>5, <2>2, <2>4 DEF Sound, DeltaSound, OutcomeSound
  <2>6. RecordInv(rec) /\ Stage(old) <= Stage(rec) /\ rec.status # "absent"
    BY <1>5, <2>2, <2>4 DEF RecordInv, Stage
  <2> QED BY <1>6, <2>2, <2>3, <2>5, <2>6
<1>13. CASE Answer(r)
  <2>1. PICK rec : rec = [old EXCEPT !.status = "pending", !.epoch = old.attempt] OBVIOUS
  <2>2. old.status = "waiting_input" /\ Move(r, rec) BY <1>1, <1>13, <2>1 DEF Answer
  <2>3. rec \in Record BY <1>5, <2>1 DEF Record
  <2>4. /\ rec.status = "pending" /\ rec.attempt = old.attempt /\ rec.retried = old.retried
        /\ rec.outcome = old.outcome /\ rec.streamed = old.streamed
    BY <2>1 DEF Record
  <2>5. Passes(rec) BY <1>4, <1>5, <2>2, <2>4 DEF Sound, DeltaSound, OutcomeSound
  <2>6. RecordInv(rec) /\ Stage(old) <= Stage(rec) /\ rec.status # "absent"
    BY <1>5, <2>2, <2>4 DEF RecordInv, Stage
  <2> QED BY <1>6, <2>2, <2>3, <2>5, <2>6
<1> QED BY <1>7, <1>8, <1>9, <1>10, <1>11, <1>12, <1>13 DEF RunStep

-----------------------------------------------------------------------------
(* The log of a run: ids increase, keys are unique, the pieces of an answer *)
(* are in order, and each event is sound.                                   *)

Precedes(d, e) ==
  /\ d.key = e.key => e.key = NoKey
  /\ d.event = "answer.delta" /\ e.event = "answer.delta" /\ d.attempt = e.attempt => d.item < e.item

LogInv(r) ==
  /\ Len(log[r]) <= EventLimit
  /\ \A i \in 1 .. Len(log[r]) :
       /\ 1 <= log[r][i].id /\ log[r][i].id < nextId
       /\ Sound(log[r][i].what, run[r])
       /\ log[r][i].what = Unavailable => budget.faults > 0
  /\ \A i, j \in 1 .. Len(log[r]) :
       i < j => log[r][i].id < log[r][j].id /\ Precedes(log[r][i].what, log[r][j].what)

(* New drafts that keep it so. *)
Fresh(r, new) ==
  /\ \A i \in 1 .. Len(new) :
       /\ Sound(new[i], run'[r]) /\ (new[i] = Unavailable => budget'.faults > 0)
       /\ \A j \in 1 .. Len(log[r]) : Precedes(log[r][j].what, new[i])
  /\ \A i, j \in 1 .. Len(new) : i < j => Precedes(new[i], new[j])

(* Records, drafts and faults only go forward. *)
Onward(r) ==
  /\ \A d \in Draft : Sound(d, run[r]) => Sound(d, run'[r])
  /\ budget.faults > 0 => budget'.faults > 0

(* The entries of a log and their fields.                                  *)
LEMMA EntriesTyped ==
  ASSUME LogsOK, NEW r \in Runs
  PROVE  /\ Len(log[r]) \in Nat /\ DOMAIN log[r] = 1 .. Len(log[r])
         /\ \A i \in 1 .. Len(log[r]) : /\ log[r][i] \in Event /\ log[r][i].id \in Nat
                                        /\ log[r][i].what \in Draft
                                        /\ log[r][i] = [id |-> log[r][i].id, what |-> log[r][i].what]
<1>1. log[r] \in Seq(Event) BY DEF LogsOK
<1>2. \A e \in Event : e.id \in Nat /\ e.what \in Draft /\ e = [id |-> e.id, what |-> e.what]
  BY DEF Event
<1> QED BY <1>1, <1>2, LenProperties

(* The entries of a log that has grown: old ones, and new ones after them.  *)
LEMMA GrownEntries ==
  ASSUME LogsOK, NEW r \in Runs, NEW new \in Seq(Draft), NEW d \in Nat, Grows(r, new, d)
  PROVE  /\ Len(new) \in Nat
         /\ \A i \in 1 .. Len(log'[r]) :
              \/ /\ i + d \in 1 .. Len(log[r])
                 /\ log'[r][i] = log[r][i + d]
              \/ /\ i + d - Len(log[r]) \in 1 .. Len(new)
                 /\ log'[r][i].id = nextId + (i + d - Len(log[r])) - 1
                 /\ log'[r][i].what = new[i + d - Len(log[r])]
<1>1. Len(log[r]) \in Nat BY EntriesTyped
<1>2. Len(new) \in Nat BY LenProperties
<1>3. Len(log'[r]) = Len(log[r]) + Len(new) - d BY DEF Grows
<1>4. ASSUME NEW i \in 1 .. Len(log'[r])
      PROVE  \/ /\ i + d \in 1 .. Len(log[r])
                /\ log'[r][i] = log[r][i + d]
             \/ /\ i + d - Len(log[r]) \in 1 .. Len(new)
                /\ log'[r][i].id = nextId + (i + d - Len(log[r])) - 1
                /\ log'[r][i].what = new[i + d - Len(log[r])]
  <2>1. log'[r][i] = IF i + d <= Len(log[r]) THEN log[r][i + d]
                    ELSE [id   |-> nextId + (i + d - Len(log[r])) - 1,
                          what |-> new[i + d - Len(log[r])]]
    BY DEF Grows
  <2>2. CASE i + d <= Len(log[r])
    <3>1. i + d \in 1 .. Len(log[r]) BY <1>1, <1>2, <1>3, <2>2
    <3> QED BY <2>1, <2>2, <3>1
  <2>3. CASE ~(i + d <= Len(log[r]))
    <3>1. i + d - Len(log[r]) \in 1 .. Len(new) BY <1>1, <1>2, <1>3, <2>3
    <3> QED BY <2>1, <2>3, <3>1
  <2> QED BY <2>2, <2>3
<1> QED BY <1>2, <1>4

(* A log stays in order when fresh drafts are added to it.                 *)
LEMMA GrowsInOrder ==
  ASSUME LogsOK, NEW r \in Runs, NEW new \in Seq(Draft), NEW d \in Nat,
         LogInv(r), Grows(r, new, d), Fresh(r, new), Onward(r)
  PROVE  LogInv(r)'
<1>1. /\ Len(log[r]) \in Nat /\ Len(new) \in Nat /\ nextId \in Nat
      /\ \A i \in 1 .. Len(log[r]) : log[r][i].id \in Nat /\ log[r][i].what \in Draft
  BY EntriesTyped, LenProperties DEF LogsOK
<1>2. Len(log'[r]) <= EventLimit /\ nextId' = nextId + Len(new) BY DEF Grows
<1> DEFINE Old(i) == i + d \in 1 .. Len(log[r]) /\ log'[r][i] = log[r][i + d]
           New(i) == /\ i + d - Len(log[r]) \in 1 .. Len(new)
                     /\ log'[r][i].id = nextId + (i + d - Len(log[r])) - 1
                     /\ log'[r][i].what = new[i + d - Len(log[r])]
<1>3. \A i \in 1 .. Len(log'[r]) : Old(i) \/ New(i) BY GrownEntries
<1>4. ASSUME NEW i \in 1 .. Len(log'[r])
      PROVE  /\ 1 <= log'[r][i].id /\ log'[r][i].id < nextId'
             /\ Sound(log'[r][i].what, run'[r])
             /\ log'[r][i].what = Unavailable => budget'.faults > 0
  <2>1. CASE Old(i)
    <3>1. PICK k \in 1 .. Len(log[r]) : k = i + d /\ log'[r][i] = log[r][k] BY <2>1
    <3>2. 1 <= log[r][k].id /\ log[r][k].id < nextId /\ log[r][k].id \in Nat BY <1>1 DEF LogInv
    <3>3. Sound(log'[r][i].what, run'[r]) BY <1>1, <3>1 DEF LogInv, Onward
    <3>4. log'[r][i].what = Unavailable => budget'.faults > 0 BY <3>1 DEF LogInv, Onward
    <3> QED BY <1>1, <1>2, <3>1, <3>2, <3>3, <3>4
  <2>2. CASE New(i)
    <3>1. PICK k \in 1 .. Len(new) : /\ log'[r][i].id = nextId + k - 1 /\ log'[r][i].what = new[k]
      BY <2>2
    <3>2. 1 <= log'[r][i].id /\ log'[r][i].id < nextId' BY <1>1, <1>2, <3>1 DEF LogsOK
    <3> QED BY <3>1, <3>2 DEF Fresh
  <2> QED BY <1>3, <2>1, <2>2
<1>5. ASSUME NEW i \in 1 .. Len(log'[r]), NEW j \in 1 .. Len(log'[r]), i < j
      PROVE  log'[r][i].id < log'[r][j].id /\ Precedes(log'[r][i].what, log'[r][j].what)
  <2>1. i \in Int /\ j \in Int OBVIOUS
  <2>2. CASE Old(i) /\ Old(j)
    <3>1. PICK k \in 1 .. Len(log[r]) : k = i + d /\ log'[r][i] = log[r][k] BY <2>2
    <3>2. PICK l \in 1 .. Len(log[r]) : l = j + d /\ log'[r][j] = log[r][l] BY <2>2
    <3>3. k < l BY <1>5, <2>1, <3>1, <3>2
    <3> QED BY <3>1, <3>2, <3>3 DEF LogInv
  <2>3. CASE Old(i) /\ New(j)
    <3>1. PICK k \in 1 .. Len(log[r]) : k = i + d /\ log'[r][i] = log[r][k] BY <2>3
    <3>2. PICK l \in 1 .. Len(new) : log'[r][j].id = nextId + l - 1 /\ log'[r][j].what = new[l]
      BY <2>3
    <3>3. log[r][k].id < nextId /\ log[r][k].id \in Nat BY <1>1 DEF LogInv
    <3>4. Precedes(log[r][k].what, new[l]) BY DEF Fresh
    <3> QED BY <1>1, <3>1, <3>2, <3>3, <3>4
  <2>4. CASE New(i) /\ New(j)
    <3>1. PICK k \in 1 .. Len(new) : /\ k = i + d - Len(log[r])
                                     /\ log'[r][i].id = nextId + k - 1 /\ log'[r][i].what = new[k]
      BY <2>4
    <3>2. PICK l \in 1 .. Len(new) : /\ l = j + d - Len(log[r])
                                     /\ log'[r][j].id = nextId + l - 1 /\ log'[r][j].what = new[l]
      BY <2>4
    <3>3. k < l
      <4>1. PICK n \in Nat : n = Len(log[r]) BY <1>1
      <4>2. k = i + d - n /\ l = j + d - n BY <3>1, <3>2, <4>1
      <4>3. i + d - n < j + d - n
        <5> HIDE DEF Old, New
        <5>1. \A x, y \in Int : x < y => x + d - n < y + d - n OBVIOUS
        <5> QED BY <1>5, <2>1, <5>1
      <4> QED BY <4>2, <4>3
    <3>4. Precedes(new[k], new[l]) BY <3>3 DEF Fresh
    <3>5. nextId + k - 1 < nextId + l - 1
      <4>1. \A x \in Nat : x + k - 1 < x + l - 1 BY <3>3
      <4> QED BY <1>1, <4>1
    <3> QED BY <3>1, <3>2, <3>4, <3>5
  <2>5. ~(New(i) /\ Old(j))
    <3>1. SUFFICES ASSUME New(i), Old(j) PROVE FALSE OBVIOUS
    <3>2. PICK n \in Nat : n = Len(log[r]) BY <1>1
    <3>3. i + d - n >= 1 /\ j + d <= n BY <3>1, <3>2
    <3> QED BY <1>5, <2>1, <3>2, <3>3
  <2> QED BY <1>3, <2>2, <2>3, <2>4, <2>5
<1> QED BY <1>2, <1>4, <1>5 DEF LogInv

(* The logs of other runs stay or are evicted, and an evicted one is sound. *)
LEMMA OthersInOrder ==
  ASSUME LogsOK, NEW r \in Runs, NEW new \in Seq(Draft), NEW d \in Nat, Grows(r, new, d),
         NEW other \in Runs \ {r}, LogInv(other), Onward(other)
  PROVE  LogInv(other)'
<1>1. nextId' = nextId + Len(new) /\ Len(new) \in Nat /\ nextId \in Nat
  BY LenProperties DEF Grows, LogsOK
<1>2. log'[other] = log[other] \/ log'[other] = <<>> BY DEF Grows
<1>3. EventLimit \in Nat /\ Len(<<>>) = 0 BY LimitsAssumption
<1>4. CASE log'[other] = <<>> BY <1>3, <1>4 DEF LogInv
<1>5. CASE log'[other] = log[other]
  <2>1. \A i \in 1 .. Len(log[other]) : log[other][i].id \in Nat /\ log[other][i].what \in Draft
    BY EntriesTyped
  <2>2. ASSUME NEW i \in 1 .. Len(log[other])
        PROVE  /\ 1 <= log[other][i].id /\ log[other][i].id < nextId'
               /\ Sound(log[other][i].what, run'[other])
               /\ log[other][i].what = Unavailable => budget'.faults > 0
    BY <1>1, <2>1 DEF LogInv, Onward
  <2> QED BY <1>5, <2>2 DEF LogInv
<1> QED BY <1>2, <1>4, <1>5

(* One event that comes without text. *)
LEMMA OneIsFresh ==
  ASSUME LogsOK, NEW r \in Runs, LogInv(r), NEW draft \in Draft, Sound(draft, run'[r]),
         draft = Unavailable => budget'.faults > 0,
         draft.event = "answer.delta" =>
            \A e \in Draft : Sound(e, run[r]) /\ e.event = "answer.delta" /\ e.attempt = draft.attempt
                                => e.item < draft.item
  PROVE  Fresh(r, Added(r, <<>>, draft))
<1>1. PICK new : new = Added(r, <<>>, draft) OBVIOUS
<1>2. CASE IsKept(log[r], draft)
  <2>1. new = <<>> /\ Len(new) = 0 BY <1>1, <1>2 DEF Added
  <2> QED BY <1>1, <2>1 DEF Fresh
<1>3. CASE ~IsKept(log[r], draft)
  <2>1. new = <<draft>> /\ Len(new) = 1 /\ new[1] = draft BY <1>1, <1>3 DEF Added
  <2>2. ASSUME NEW j \in 1 .. Len(log[r]) PROVE Precedes(log[r][j].what, draft)
    <3>1. log[r][j].what \in Draft /\ Sound(log[r][j].what, run[r]) /\ j \in DOMAIN log[r]
      BY EntriesTyped DEF LogInv
    <3>2. log[r][j].what.key = draft.key => draft.key = NoKey BY <1>3, <3>1 DEF IsKept
    <3> QED BY <3>1, <3>2 DEF Precedes
  <2>3. \A i \in 1 .. Len(new) : i = 1 /\ new[i] = draft BY <2>1
  <2> QED BY <1>1, <2>2, <2>3 DEF Fresh
<1> QED BY <1>2, <1>3

(* A log that is left alone, or lost, stays in order. *)
LEMMA OneStays ==
  ASSUME LogsOK, NEW r \in Runs, LogInv(r), Onward(r), nextId' \in Nat, nextId' >= nextId,
         log'[r] = log[r] \/ log'[r] = <<>>
  PROVE  LogInv(r)'
<1>1. nextId \in Nat BY DEF LogsOK
<1>2. EventLimit \in Nat /\ Len(<<>>) = 0 BY LimitsAssumption
<1>3. CASE log'[r] = <<>> BY <1>2, <1>3 DEF LogInv
<1>4. CASE log'[r] = log[r]
  <2>1. \A i \in 1 .. Len(log[r]) : log[r][i].id \in Nat /\ log[r][i].what \in Draft
    BY EntriesTyped
  <2>2. ASSUME NEW i \in 1 .. Len(log[r])
        PROVE  /\ 1 <= log[r][i].id /\ log[r][i].id < nextId'
               /\ Sound(log[r][i].what, run'[r])
               /\ log[r][i].what = Unavailable => budget'.faults > 0
    BY <1>1, <2>1 DEF LogInv, Onward
  <2> QED BY <1>4, <2>2 DEF LogInv
<1> QED BY <1>3, <1>4

(* All logs, whatever is published.                                         *)
LEMMA PublishKeepsLogs ==
  ASSUME LogsOK, KeptInv, \A o \in Runs : LogInv(o), \A o \in Runs : Onward(o),
         NEW r \in Runs, NEW deltas \in Seq(Draft), NEW draft \in Draft,
         Publish(r, deltas, draft), Fresh(r, Added(r, deltas, draft))
  PROVE  LogsOK' /\ KeptInv' /\ (\A o \in Runs : LogInv(o))'
<1>1. /\ Added(r, deltas, draft) \in Seq(Draft)
      /\ LogsOK' /\ log'[r] # <<>>
      /\ \E d \in Nat : Grows(r, Added(r, deltas, draft), d)
  BY PublishGrows
<1>2. PICK new \in Seq(Draft) : new = Added(r, deltas, draft) BY <1>1
<1>3. PICK d \in Nat : Grows(r, new, d) BY <1>1, <1>2
<1>4. KeptInv' BY <1>1, <1>3, KeptFollows
<1>5. LogInv(r)' BY <1>2, <1>3, GrowsInOrder
<1>6. ASSUME NEW o \in Runs \ {r} PROVE LogInv(o)' BY <1>3, <1>6, OthersInOrder
<1> QED BY <1>1, <1>4, <1>5, <1>6

-----------------------------------------------------------------------------
(* What the steps publish.                                                  *)

(* What a step of the executor or of a handler publishes for its run is at *)
(* most one event.                                                         *)
LEMMA RunStepPublishes ==
  ASSUME LogsOK, run \in [Runs -> Record], NEW r \in Runs, RecordInv(run[r]), LogInv(r), RunStep(r)
  PROVE  \/ UNCHANGED buffer
         \/ \E draft \in Draft : /\ Publish(r, <<>>, draft)
                                 /\ Fresh(r, Added(r, <<>>, draft))
<1>1. /\ run' = [run EXCEPT ![r] = run'[r]] /\ run'[r] \in Record
      /\ \A d \in Draft : Sound(d, run[r]) => Sound(d, run'[r])
  BY MoveIsSound
<1>2. run[r] \in Record /\ run[r].attempt \in Nat /\ run[r].streamed \in Nat BY DEF Record
<1>3. ASSUME NEW n \in Nat, NEW status \in Unfinished, Publish(r, <<>>, Progress(n, status))
      PROVE  \E draft \in Draft : Publish(r, <<>>, draft) /\ Fresh(r, Added(r, <<>>, draft))
  <2>1. PICK draft \in Draft : draft = Progress(n, status) BY DraftsTyped
  <2>2. draft.event = "progress" /\ draft.key.of \in Unfinished /\ draft # Unavailable
    BY <2>1 DEF Progress, Unavailable
  <2>3. Sound(draft, run'[r]) BY <2>2 DEF Sound
  <2>4. Fresh(r, Added(r, <<>>, draft)) BY <2>2, <2>3, OneIsFresh
  <2> QED BY <1>3, <2>1, <2>4
<1>4. CASE Create(r) BY <1>3, <1>4 DEF Create, Unfinished
<1>5. CASE Claim(r)
  <2>1. run[r].attempt + 1 \in Nat BY <1>2
  <2> QED BY <1>3, <1>5, <2>1 DEF Claim, Unfinished
<1>6. CASE Answer(r) BY <1>2, <1>3, <1>6 DEF Answer, Unfinished
<1>7. CASE StreamPiece(r)
  <2>1. run[r].streamed + 1 \in Nat BY <1>2
  <2>2. PICK draft \in Draft : draft = LiveDelta(run[r].attempt, run[r].streamed + 1)
    BY <1>2, <2>1, DraftsTyped
  <2>3. Publish(r, <<>>, draft) BY <1>7, <2>2 DEF StreamPiece
  <2>4. /\ draft.event = "answer.delta" /\ draft.key = NoKey /\ draft # Unavailable
        /\ draft.attempt = run[r].attempt /\ draft.item = run[r].streamed + 1
    BY <2>2 DEF LiveDelta, Unavailable
  <2>5. /\ run'[r].attempt = run[r].attempt /\ run'[r].streamed = run[r].streamed + 1
        /\ run[r].status = "running"
    BY <1>2, <1>7 DEF StreamPiece, Move, Record
  <2>6. Sound(draft, run'[r]) BY <1>2, <2>1, <2>4, <2>5 DEF Sound, DeltaSound
  <2>7. ASSUME NEW e \in Draft, Sound(e, run[r]), e.event = "answer.delta", e.attempt = draft.attempt
        PROVE  e.item < draft.item
    <3>1. DeltaSound(e, run[r]) BY <2>7 DEF Sound, Unavailable, TerminalEvent, Settled
    <3>2. e.item \in Nat /\ e.item <= run[r].streamed BY <2>4, <2>5, <2>7, <3>1 DEF DeltaSound, Draft
    <3> QED BY <1>2, <2>4, <3>2
  <2>8. Fresh(r, Added(r, <<>>, draft)) BY <2>4, <2>6, <2>7, OneIsFresh
  <2> QED BY <2>3, <2>8
<1>8. CASE RequeueRun(r) \/ Finish(r) \/ Fail(r) \/ RetryByClient(r)
  BY <1>8 DEF RequeueRun, Finish, Fail, RetryByClient
<1> QED BY <1>4, <1>5, <1>6, <1>7, <1>8 DEF RunStep

-----------------------------------------------------------------------------
(* What a sound draft is, by its event or its key.                          *)

(* What a sound event is, by its kind.                                     *)
LEMMA SoundByEvent ==
  ASSUME NEW d \in Draft, NEW rec, Sound(d, rec)
  PROVE  /\ d.event = "answer.delta" => DeltaSound(d, rec)
         /\ d.event \notin {"progress", "answer.delta"} =>
              \/ d = Unavailable
              \/ d.key.of \in Settled /\ d.event = TerminalEvent(d.key.of) /\ OutcomeSound(d, rec)
BY DEF Sound, Unavailable, TerminalEvent, Settled

(* What a sound event is, by its key.                                      *)
LEMMA SoundByKey ==
  ASSUME NEW d \in Draft, NEW rec, Sound(d, rec)
  PROVE  /\ d.key.of = "final-answer" =>
              /\ rec.status = "succeeded" /\ d.event = "answer.delta"
              /\ \E o \in DOMAIN rec.content : d = FinalDelta(rec.attempt, rec.content[o], o)
         /\ d.key.of = "unavailable" => d = Unavailable
         /\ d.key.of \in Settled => d.event = TerminalEvent(d.key.of) /\ OutcomeSound(d, rec)
<1> USE DEF Sound, DeltaSound, Unavailable, Unfinished, Settled, NoKey, FinalDelta
<1>1. d.key.of = "final-answer" => d.event = "answer.delta" /\ DeltaSound(d, rec) /\ d.key # NoKey
  OBVIOUS
<1>2. d.key.of = "unavailable" => d = Unavailable OBVIOUS
<1>3. d.key.of \in Settled => d.event = TerminalEvent(d.key.of) /\ OutcomeSound(d, rec) OBVIOUS
<1> QED BY <1>1, <1>2, <1>3

(* Two pieces of an answer are in order.                                   *)
LEMMA AnswersGrow ==
  ASSUME NEW a \in Answers, NEW k \in 1 .. Len(a), NEW l \in 1 .. Len(a), k < l
  PROVE  a[k] < a[l] /\ a[k] \in Nat
<1>1. a \in Seq(Nat) /\ \A i \in DOMAIN a : a[i] = i \/ (a[i] = 0 /\ Len(a) = 1)
  BY AnswersAreOrdered
<1>2. Len(a) \in Nat /\ DOMAIN a = 1 .. Len(a) BY <1>1, LenProperties
<1>3. k \in Nat /\ l \in Nat /\ Len(a) # 1 BY <1>2
<1> QED BY <1>1, <1>2, <1>3

(* The pieces of the attempt that the log holds. *)
LEMMA BufferedHolds ==
  ASSUME LogsOK, run \in [Runs -> Record], NEW r \in Runs
  PROVE  /\ Buffered(r) \in Seq(Nat)
         /\ \A i \in 1 .. Len(log[r]) :
              log[r][i].what.event = "answer.delta" /\ log[r][i].what.attempt = run[r].attempt =>
                \E k \in 1 .. Len(Buffered(r)) : Buffered(r)[k] = log[r][i].what.item
<1>1. PICK entries \in Seq(Event) : entries = log[r] BY DEF LogsOK
<1>2. PICK places \in SUBSET DOMAIN entries :
        places = {i \in DOMAIN log[r] : /\ log[r][i].what.event = "answer.delta"
                                        /\ log[r][i].what.attempt = run[r].attempt}
  BY <1>1
<1>3. PICK deltas : deltas = Picked(entries, places) OBVIOUS
<1>4. deltas \in Seq(Event) /\ Lists(deltas, entries, places) BY <1>3, PickedLists
<1>5. Buffered(r) = [i \in DOMAIN deltas |-> deltas[i].what.item] BY <1>1, <1>2, <1>3 DEF Buffered
<1>6. DOMAIN deltas = 1 .. Len(deltas) /\ Len(deltas) \in Nat
      /\ \A i \in 1 .. Len(deltas) : deltas[i].what.item \in Nat
  <2>1. DOMAIN deltas = 1 .. Len(deltas) /\ Len(deltas) \in Nat
        /\ \A i \in 1 .. Len(deltas) : deltas[i] \in Event
    BY <1>4, LenProperties
  <2> QED BY <2>1 DEF Event, Draft
<1>7. PICK b : b = Buffered(r) OBVIOUS
<1>8. b \in [1 .. Len(deltas) -> Nat] BY <1>5, <1>6, <1>7
<1>9. b \in Seq(Nat) /\ Len(b) = Len(deltas) BY <1>6, <1>8, SeqDef, LenProperties
<1>10. ASSUME NEW i \in 1 .. Len(log[r]),
              log[r][i].what.event = "answer.delta", log[r][i].what.attempt = run[r].attempt
       PROVE  \E k \in 1 .. Len(b) : b[k] = log[r][i].what.item
  <2>1. i \in places BY <1>2, <1>10, EntriesTyped
  <2>2. PICK k \in 1 .. Len(deltas) : deltas[k] = entries[i] BY <1>4, <2>1 DEF Lists
  <2> QED BY <1>1, <1>5, <1>6, <1>7, <1>9, <2>2
<1> QED BY <1>7, <1>9, <1>10

(* The pieces that the projection of a settled run adds were not streamed  *)
(* before: they come after all pieces of the attempt in the log            *)
(* (_materialize_agent_run_stream_events).                                 *)
LEMMA MissingAreFresh ==
  ASSUME LogsOK, run \in [Runs -> Record], NEW r \in Runs, RecordInv(run[r]), LogInv(r),
         NEW replay \in BOOLEAN
  PROVE  /\ MissingDeltas(r, replay) \in Seq(Draft)
         /\ \A i \in 1 .. Len(MissingDeltas(r, replay)) :
              /\ MissingDeltas(r, replay)[i].key.of = "final-answer"
              /\ Sound(MissingDeltas(r, replay)[i], run[r])
              /\ \A j \in 1 .. Len(log[r]) : Precedes(log[r][j].what, MissingDeltas(r, replay)[i])
         /\ \A i, j \in 1 .. Len(MissingDeltas(r, replay)) :
              i < j => Precedes(MissingDeltas(r, replay)[i], MissingDeltas(r, replay)[j])
<1>1. PICK rec \in Record : rec = run[r] OBVIOUS
<1>2. PICK m : m = MissingDeltas(r, replay) OBVIOUS
<1>3. PICK b \in Seq(Nat) :
        /\ b = Buffered(r)
        /\ \A i \in 1 .. Len(log[r]) :
              log[r][i].what.event = "answer.delta" /\ log[r][i].what.attempt = rec.attempt =>
                \E k \in 1 .. Len(b) : b[k] = log[r][i].what.item
  BY <1>1, BufferedHolds
<1>4. Len(b) \in Nat BY LenProperties
<1> DEFINE Replays == rec.status = "succeeded" /\ replay /\ IsPrefix(b, rec.content)
<1>5. CASE ~Replays
  <2>1. m = <<>> BY <1>1, <1>2, <1>3, <1>5 DEF MissingDeltas
  <2>2. <<>> \in Seq(Draft) /\ Len(<<>>) = 0 OBVIOUS
  <2> QED BY <1>2, <2>1, <2>2
<1>6. CASE Replays
  <2>1. PICK a \in Answers : a = rec.content BY <1>1, <1>6 DEF RecordInv
  <2>2. a \in Seq(Nat) /\ Len(a) \in Nat /\ DOMAIN a = 1 .. Len(a) /\ \A i \in 1 .. Len(a) : a[i] \in Nat
    BY <2>1, AnswersAreOrdered, LenProperties
  <2>3. Len(b) <= Len(a) /\ SubSeq(b, 1, Len(b)) = SubSeq(a, 1, Len(b)) BY <1>6, <2>1 DEF IsPrefix
  <2>4. \A k \in 1 .. Len(b) : b[k] = a[k]
    <3>1. PICK n \in Nat : n = Len(b) BY <1>4
    <3>2. \A k \in 1 .. n : SubSeq(b, 1, n)[k] = b[k]
      <4>1. \A k \in 1 .. n : b[k] \in Nat BY <3>1, LenProperties
      <4>2. \A k \in 1 .. n - 1 + 1 : SubSeq(b, 1, n)[k] = b[1 + k - 1] BY <4>1, SubSeqProperties
      <4> QED BY <4>2
    <3>3. \A k \in 1 .. n : SubSeq(a, 1, n)[k] = a[k]
      <4>1. \A k \in 1 .. n : a[k] \in Nat BY <2>2, <2>3, <3>1
      <4>2. \A k \in 1 .. n - 1 + 1 : SubSeq(a, 1, n)[k] = a[1 + k - 1] BY <4>1, SubSeqProperties
      <4> QED BY <4>2
    <3> QED BY <2>3, <3>1, <3>2, <3>3
  <2>5. m = [i \in 1 .. Len(a) - Len(b) |-> FinalDelta(rec.attempt, a[Len(b) + i], Len(b) + i)]
    BY <1>1, <1>2, <1>3, <1>6, <2>1 DEF MissingDeltas
  <2>6. rec.attempt \in Nat BY DEF Record
  <2>7. \A i \in 1 .. Len(a) - Len(b) :
           Len(b) + i \in 1 .. Len(a) /\ Len(b) + i \in Nat /\ Len(b) < Len(b) + i
    BY <1>4, <2>2
  <2>8. m \in Seq(Draft) /\ Len(m) = Len(a) - Len(b)
    <3>1. Len(a) - Len(b) \in Nat BY <1>4, <2>2, <2>3
    <3>2. m \in [1 .. Len(a) - Len(b) -> Draft] BY <2>2, <2>5, <2>6, <2>7, DraftsTyped
    <3>3. m \in Seq(Draft) BY <3>1, <3>2, SeqDef
    <3> QED BY <3>1, <3>2, <3>3, LenProperties
  <2>9. ASSUME NEW i \in 1 .. Len(m)
        PROVE  /\ Len(b) + i \in 1 .. Len(a) /\ Len(b) < Len(b) + i
               /\ m[i].event = "answer.delta" /\ m[i].attempt = rec.attempt
               /\ m[i].item = a[Len(b) + i]
               /\ m[i].key.of = "final-answer" /\ m[i].key.item = Len(b) + i
               /\ m[i] = FinalDelta(rec.attempt, a[Len(b) + i], Len(b) + i)
    BY <2>5, <2>7, <2>8 DEF FinalDelta
  <2>10. ASSUME NEW i \in 1 .. Len(m) PROVE m[i].key.of = "final-answer" /\ Sound(m[i], rec)
    <3>1. PICK o \in DOMAIN rec.content : m[i] = FinalDelta(rec.attempt, rec.content[o], o)
      BY <2>1, <2>2, <2>9
    <3>2. m[i].attempt <= rec.attempt BY <2>6, <2>9
    <3>3. DeltaSound(m[i], rec) BY <1>6, <3>1, <3>2 DEF DeltaSound
    <3> QED BY <2>9, <3>3 DEF Sound
  <2>11. ASSUME NEW i \in 1 .. Len(m), NEW j \in 1 .. Len(log[r]) PROVE Precedes(log[r][j].what, m[i])
    <3>1. PICK d \in Draft : d = log[r][j].what BY EntriesTyped
    <3>2. Sound(d, rec) BY <1>1, <3>1 DEF LogInv
    <3>3. d.event = "answer.delta" /\ d.attempt = rec.attempt =>
            \E k \in 1 .. Len(b) : d.item = a[k] /\ k \in 1 .. Len(a) /\ k < Len(b) + i
      <4>1. \A k \in 1 .. Len(b) : k \in 1 .. Len(a) /\ k < Len(b) + i BY <1>4, <2>2, <2>3, <2>9
      <4> QED BY <1>3, <2>4, <3>1, <4>1
    <3>4. d.event = "answer.delta" /\ d.attempt = rec.attempt => d.item < m[i].item
      BY <2>1, <2>9, <3>3, AnswersGrow
    <3>5. d.key # m[i].key
      <4>1. SUFFICES ASSUME d.key = m[i].key PROVE FALSE OBVIOUS
      <4>2. d.key.of = "final-answer" BY <2>9, <4>1
      <4>3. PICK o \in DOMAIN a : d = FinalDelta(rec.attempt, a[o], o) BY <2>1, <3>2, <4>2, SoundByKey
      <4>4. d.event = "answer.delta" /\ d.attempt = rec.attempt /\ d.item = a[o] /\ o = Len(b) + i
        <5>1. d.event = "answer.delta" /\ d.attempt = rec.attempt /\ d.item = a[o] /\ d.key.item = o
          BY <4>3 DEF FinalDelta
        <5>2. d.key.item = Len(b) + i BY <2>9, <4>1
        <5> QED BY <5>1, <5>2
      <4>5. d.item < m[i].item /\ d.item = m[i].item BY <2>9, <3>4, <4>4
      <4>6. m[i].item \in Nat BY <2>2, <2>9
      <4> QED BY <4>5, <4>6
    <3>6. m[i].event = "answer.delta" /\ m[i].attempt = rec.attempt BY <2>9
    <3> QED BY <3>1, <3>4, <3>5, <3>6 DEF Precedes
  <2>12. ASSUME NEW i \in 1 .. Len(m), NEW j \in 1 .. Len(m), i < j PROVE Precedes(m[i], m[j])
    <3>1. Len(b) + i < Len(b) + j /\ Len(b) + i # Len(b) + j BY <1>4, <2>8, <2>12
    <3>2. m[i].item < m[j].item BY <2>9, <3>1, AnswersGrow
    <3>3. m[i].key # m[j].key BY <2>9, <3>1
    <3> QED BY <3>2, <3>3 DEF Precedes
  <2> QED BY <1>1, <1>2, <2>8, <2>10, <2>11, <2>12
<1> QED BY <1>5, <1>6

(* The event that the projection of a record publishes says what the       *)
(* record says.                                                            *)
LEMMA ProjectionIsSound ==
  ASSUME NEW rec \in Record, RecordInv(rec), rec.status # "absent"
  PROVE  /\ Projection(rec) \in Draft /\ Sound(Projection(rec), rec)
         /\ Projection(rec) # Unavailable
         /\ Projection(rec).event # "answer.delta"
         /\ Projection(rec).key.of \notin {"none", "final-answer"}
<1>1. rec.attempt \in Nat /\ rec.outcome \in Nat BY DEF Record
<1>2. CASE rec.status \in Unfinished
  BY <1>1, <1>2, DraftsTyped DEF Projection, Progress, Sound, Unavailable, Unfinished
<1>3. CASE rec.status \in Settled
  <2>1. rec.status \notin Unfinished BY <1>3 DEF Settled, Unfinished
  <2>2. PICK d \in Draft : d = TerminalDraft(rec) /\ d = Projection(rec)
    BY <1>3, <2>1, DraftsTyped DEF Projection
  <2>3. /\ d.event = TerminalEvent(rec.status) /\ d.attempt = rec.attempt /\ d.item = rec.outcome
        /\ d.key.of = rec.status /\ d.key.attempt = rec.attempt
        /\ d.key.item = IF rec.status = "waiting_input" THEN rec.outcome ELSE 0
    BY <2>2 DEF TerminalDraft, TerminalKey
  <2>4. OutcomeSound(d, rec) BY <1>1, <1>3, <2>3 DEF OutcomeSound, RecordInv
  <2>5. Sound(d, rec) BY <1>3, <2>3, <2>4 DEF Sound
  <2>6. d # Unavailable /\ d.event # "answer.delta" /\ d.key.of \notin {"none", "final-answer"}
    BY <1>3, <2>3 DEF Unavailable, Settled, TerminalEvent
  <2> QED BY <2>2, <2>5, <2>6
<1>4. rec.status \in Unfinished \cup Settled BY DEF Record
<1> QED BY <1>2, <1>3, <1>4

(* What a round publishes before it reads the log keeps the log in order.  *)
LEMMA PollIsFresh ==
  ASSUME LogsOK, run \in [Runs -> Record], NEW r \in Runs, RecordInv(run[r]), LogInv(r),
         run[r].status # "absent", NEW replay \in BOOLEAN, UNCHANGED run
  PROVE  /\ MissingDeltas(r, replay) \in Seq(Draft) /\ Projection(run[r]) \in Draft
         /\ Fresh(r, Added(r, MissingDeltas(r, replay), Projection(run[r])))
<1>1. PICK m : m = MissingDeltas(r, replay) OBVIOUS
<1>2. /\ m \in Seq(Draft)
      /\ \A i \in 1 .. Len(m) : /\ m[i].key.of = "final-answer" /\ Sound(m[i], run'[r])
                                /\ \A j \in 1 .. Len(log[r]) : Precedes(log[r][j].what, m[i])
      /\ \A i, j \in 1 .. Len(m) : i < j => Precedes(m[i], m[j])
  BY <1>1, MissingAreFresh
<1>3. PICK d \in Draft : /\ d = Projection(run[r]) /\ Sound(d, run'[r]) /\ d # Unavailable
                         /\ d.event # "answer.delta" /\ d.key.of \notin {"none", "final-answer"}
  BY ProjectionIsSound
<1>4. \A i \in 1 .. Len(m) : m[i] # Unavailable BY <1>2 DEF Unavailable
<1>5. PICK new : new = Added(r, m, d) OBVIOUS
<1>6. CASE IsKept(log[r], d)
  <2>1. new = m BY <1>5, <1>6 DEF Added
  <2> QED BY <1>1, <1>2, <1>3, <1>4, <1>5, <2>1 DEF Fresh
<1>7. CASE ~IsKept(log[r], d)
  <2>1. new = Append(m, d) BY <1>5, <1>7 DEF Added
  <2>2. /\ Len(m) \in Nat /\ Len(new) = Len(m) + 1 /\ new[Len(m) + 1] = d
        /\ \A i \in 1 .. Len(m) : new[i] = m[i]
    BY <1>2, <2>1, AppendProperties, LenProperties
  <2>3. ASSUME NEW j \in 1 .. Len(log[r]) PROVE Precedes(log[r][j].what, d)
    <3>1. j \in DOMAIN log[r] BY EntriesTyped
    <3>2. log[r][j].what.key = d.key => d.key = NoKey BY <1>7, <3>1 DEF IsKept
    <3> QED BY <1>3, <3>2 DEF Precedes
  <2>4. \A i \in 1 .. Len(m) : Precedes(m[i], d) BY <1>2, <1>3 DEF Precedes
  <2>5. \A i \in 1 .. Len(new) : i \in 1 .. Len(m) \/ i = Len(m) + 1 BY <2>2
  <2>6. ASSUME NEW i \in 1 .. Len(new)
        PROVE  /\ Sound(new[i], run'[r]) /\ new[i] # Unavailable
               /\ \A j \in 1 .. Len(log[r]) : Precedes(log[r][j].what, new[i])
    BY <1>2, <1>3, <1>4, <2>2, <2>3, <2>5
  <2>7. ASSUME NEW i \in 1 .. Len(new), NEW j \in 1 .. Len(new), i < j PROVE Precedes(new[i], new[j])
    <3>1. i \in 1 .. Len(m) BY <2>2, <2>7
    <3>2. CASE j \in 1 .. Len(m) BY <1>2, <2>2, <2>7, <3>1, <3>2
    <3>3. CASE j = Len(m) + 1 BY <2>2, <2>4, <3>1, <3>3
    <3> QED BY <2>5, <3>2, <3>3
  <2> QED BY <1>1, <1>2, <1>3, <1>5, <2>6, <2>7 DEF Fresh
<1> QED BY <1>6, <1>7

-----------------------------------------------------------------------------
(* How the logs go on: what is new comes later, and as long as there is     *)
(* room nothing is dropped.                                                 *)

Room == Len(kept) < RunLimit /\ \A r \in Runs : Len(log[r]) < EventLimit

Later(r) ==
  \A i \in 1 .. Len(log'[r]) :
    (\E j \in 1 .. Len(log[r]) : log'[r][i] = log[r][j]) \/ log'[r][i].id >= nextId

Keeps(r) == \A j \in 1 .. Len(log[r]) : \E i \in 1 .. Len(log'[r]) : log'[r][i] = log[r][j]

GoesOn ==
  /\ nextId' >= nextId
  /\ \A r \in Runs : Later(r)
  /\ Room' => Room /\ \A r \in Runs : Keeps(r)

(* A publication adds events with new ids, and as long as there is room    *)
(* nothing is dropped.                                                     *)
LEMMA PublishGoesOn ==
  ASSUME LogsOK, NEW r \in Runs, NEW deltas \in Seq(Draft), NEW draft \in Draft,
         Publish(r, deltas, draft)
  PROVE  GoesOn
<1>1. PICK new \in Seq(Draft), d \in Nat : Grows(r, new, d) BY PublishGrows
<1>2. /\ Len(new) \in Nat /\ Len(log[r]) \in Nat /\ nextId \in Nat
      /\ kept \in Seq(Runs) /\ Len(kept) \in Nat /\ RunLimit \in Nat /\ RunLimit >= 1
      /\ EventLimit \in Nat
      /\ \A o \in Runs : Len(log[o]) \in Nat
  BY EntriesTyped, LenProperties, LimitsAssumption DEF LogsOK
<1>3. nextId' >= nextId BY <1>1, <1>2 DEF Grows
<1>4. Later(r)
  <2>1. ASSUME NEW i \in 1 .. Len(log'[r])
        PROVE  (\E j \in 1 .. Len(log[r]) : log'[r][i] = log[r][j]) \/ log'[r][i].id >= nextId
    <3>1. \/ i + d \in 1 .. Len(log[r]) /\ log'[r][i] = log[r][i + d]
          \/ \E k \in 1 .. Len(new) : log'[r][i].id = nextId + k - 1
      BY <1>1, GrownEntries
    <3>2. CASE \E k \in 1 .. Len(new) : log'[r][i].id = nextId + k - 1 BY <1>2, <3>2
    <3> QED BY <3>1, <3>2
  <2> QED BY <2>1 DEF Later
<1>5. \A o \in Runs \ {r} : log'[o] = log[o] \/ log'[o] = <<>> BY <1>1 DEF Grows
<1>6. \A o \in Runs \ {r} : Later(o)
  <2>1. Len(<<>>) = 0 OBVIOUS
  <2> QED BY <1>5, <2>1 DEF Later
<1>7. ASSUME Room' PROVE Room /\ \A o \in Runs : Keeps(o)
  <2>1. kept' = IF log[r] # <<>> THEN kept ELSE Append(IF Evicts(r) THEN Tail(kept) ELSE kept, r)
    BY DEF Publish
  <2>2. Len(kept') < RunLimit /\ Len(log'[r]) < EventLimit BY <1>7 DEF Room
  <2>3. ~Evicts(r)
    <3>1. SUFFICES ASSUME Evicts(r) PROVE FALSE OBVIOUS
    <3>2. log[r] = <<>> /\ Len(kept) >= RunLimit BY <3>1 DEF Evicts
    <3>3. kept # <<>> BY <1>2, <3>2
    <3>4. Tail(kept) \in Seq(Runs) /\ Len(Tail(kept)) = Len(kept) - 1 BY <1>2, <3>3, HeadTailProperties
    <3>5. PICK t \in Seq(Runs) : t = Tail(kept) BY <3>4
    <3>6. Len(Append(t, r)) = Len(t) + 1 BY AppendProperties
    <3>7. kept' = Append(t, r) BY <2>1, <3>1, <3>2, <3>5
    <3> QED BY <1>2, <2>2, <3>2, <3>4, <3>5, <3>6, <3>7
  <2>4. Len(kept) < RunLimit
    <3>1. Len(Append(kept, r)) = Len(kept) + 1 BY <1>2, AppendProperties
    <3> QED BY <1>2, <2>1, <2>2, <2>3, <3>1
  <2>5. \A o \in Runs \ {r} : log'[o] = log[o] BY <1>1, <2>3 DEF Grows
  <2>6. d = 0 /\ Len(log'[r]) = Len(log[r]) + Len(new) BY <1>1, <1>2, <2>2 DEF Grows
  <2>7. \A j \in 1 .. Len(log[r]) : j \in 1 .. Len(log'[r]) /\ j + d = j /\ j <= Len(log[r])
    BY <1>2, <2>6
  <2>8. Keeps(r)
    <3>1. ASSUME NEW j \in 1 .. Len(log[r]) PROVE log'[r][j] = log[r][j] BY <1>1, <2>7 DEF Grows
    <3> QED BY <2>7, <3>1 DEF Keeps
  <2>9. \A o \in Runs \ {r} : Keeps(o) BY <2>5 DEF Keeps
  <2>10. Len(log[r]) < EventLimit BY <1>2, <2>2, <2>6
  <2>11. \A o \in Runs \ {r} : Len(log[o]) < EventLimit BY <1>7, <2>5 DEF Room
  <2> QED BY <2>4, <2>8, <2>9, <2>10, <2>11 DEF Room
<1> QED BY <1>3, <1>4, <1>6, <1>7 DEF GoesOn

(* So does a step without a publication.                                   *)
LEMMA StillGoesOn ==
  ASSUME LogsOK, UNCHANGED buffer
  PROVE  GoesOn /\ LogsOK'
<1>1. log' = log /\ kept' = kept /\ nextId' = nextId /\ nextId \in Nat BY DEF buffer, LogsOK
<1> QED BY <1>1 DEF GoesOn, Later, Keeps, Room, LogsOK

-----------------------------------------------------------------------------
(* The records and the logs: no step of a connection matters to them.       *)

RunInv ==
  /\ run \in [Runs -> Record] /\ LogsOK /\ KeptInv
  /\ \A r \in Runs : RecordInv(run[r]) /\ LogInv(r)

(* What holds between a state and the next, whatever the step.              *)
Forward ==
  /\ RunInv'
  /\ \A r \in Runs : /\ Stage(run[r]) <= Stage(run'[r])
                     /\ run[r].status # "absent" => run'[r].status # "absent"

(* A step that leaves the records alone.                                   *)
LEMMA SameRunsForward ==
  ASSUME run \in [Runs -> Record], UNCHANGED run
  PROVE  /\ \A r \in Runs : /\ Stage(run[r]) <= Stage(run'[r])
                            /\ run[r].status # "absent" => run'[r].status # "absent"
         /\ budget'.faults \in Nat /\ budget'.faults >= budget.faults /\ budget.faults \in Nat
              => \A r \in Runs : Onward(r)
<1>1. \A r \in Runs : Stage(run[r]) \in Nat BY DEF Stage, Record
<1> QED BY <1>1 DEF Onward

(* A step of a run.                                                        *)
LEMMA RunStepForward ==
  ASSUME RunInv, NEW r \in Runs, RunStep(r), UNCHANGED budget
  PROVE  Forward /\ GoesOn
<1> USE DEF RunInv
<1>1. /\ run' = [run EXCEPT ![r] = run'[r]] /\ run'[r] \in Record /\ RecordInv(run'[r])
      /\ Stage(run[r]) <= Stage(run'[r]) /\ run'[r].status # "absent"
      /\ \A d \in Draft : Sound(d, run[r]) => Sound(d, run'[r])
  BY MoveIsSound
<1>2. run' \in [Runs -> Record] /\ \A o \in Runs \ {r} : run'[o] = run[o]
  <2>1. PICK new \in Record : new = run'[r] BY <1>1
  <2>2. run' = [run EXCEPT ![r] = new] BY <1>1, <2>1
  <2> QED BY <2>2
<1>3. \A o \in Runs : Onward(o) BY <1>1, <1>2 DEF Onward
<1>4. \A o \in Runs : Stage(run[o]) \in Nat BY DEF Stage, Record
<1>5. \A o \in Runs : /\ Stage(run[o]) <= Stage(run'[o]) /\ RecordInv(run'[o])
                      /\ run[o].status # "absent" => run'[o].status # "absent"
  BY <1>1, <1>2, <1>4
<1>6. CASE UNCHANGED buffer
  <2>1. GoesOn /\ LogsOK' BY <1>6, StillGoesOn
  <2>2. log' = log /\ kept' = kept /\ nextId' = nextId /\ nextId \in Nat BY <1>6 DEF buffer, LogsOK
  <2>3. \A o \in Runs : LogInv(o)' BY <1>3, <2>2, OneStays
  <2>4. KeptInv' BY <2>2 DEF KeptInv
  <2> QED BY <1>2, <1>5, <2>1, <2>3, <2>4 DEF Forward
<1>7. CASE \E draft \in Draft : Publish(r, <<>>, draft) /\ Fresh(r, Added(r, <<>>, draft))
  <2>1. PICK draft \in Draft : Publish(r, <<>>, draft) /\ Fresh(r, Added(r, <<>>, draft)) BY <1>7
  <2>2. <<>> \in Seq(Draft) OBVIOUS
  <2>3. LogsOK' /\ KeptInv' /\ (\A o \in Runs : LogInv(o))' BY <1>3, <2>1, <2>2, PublishKeepsLogs
  <2>4. GoesOn BY <2>1, <2>2, PublishGoesOn
  <2> QED BY <1>2, <1>5, <2>3, <2>4 DEF Forward
<1> QED BY <1>6, <1>7, RunStepPublishes

(* A step that leaves records and logs alone.                              *)
LEMMA StillForward ==
  ASSUME RunInv, UNCHANGED <<run, buffer>>, budget'.faults = budget.faults
  PROVE  Forward /\ GoesOn
<1> USE DEF RunInv
<1>1. log' = log /\ kept' = kept /\ nextId' = nextId /\ nextId \in Nat /\ run' = run
  BY DEF buffer, LogsOK
<1>2. GoesOn /\ LogsOK' BY StillGoesOn
<1>3. \A r \in Runs : Onward(r) BY <1>1 DEF Onward
<1>4. \A r \in Runs : LogInv(r)' BY <1>1, <1>3, OneStays
<1>5. KeptInv' BY <1>1 DEF KeptInv
<1> QED BY <1>1, <1>2, <1>4, <1>5, SameRunsForward DEF Forward

(* A round that reads its record.                                          *)
LEMMA PollForward ==
  ASSUME RunInv, NEW c \in Clients, run[RunOf[c]].status # "absent",
         NEW replay \in BOOLEAN, UNCHANGED run, UNCHANGED budget,
         Publish(RunOf[c], MissingDeltas(RunOf[c], replay), Projection(run[RunOf[c]]))
  PROVE  Forward /\ GoesOn
<1> USE DEF RunInv
<1>1. PICK r \in Runs : r = RunOf[c] BY RunOfAssumption
<1>2. /\ MissingDeltas(r, replay) \in Seq(Draft) /\ Projection(run[r]) \in Draft
      /\ Fresh(r, Added(r, MissingDeltas(r, replay), Projection(run[r])))
  BY <1>1, PollIsFresh
<1>3. PICK m \in Seq(Draft), d \in Draft :
        /\ m = MissingDeltas(r, replay) /\ d = Projection(run[r])
        /\ Publish(r, m, d) /\ Fresh(r, Added(r, m, d))
  BY <1>1, <1>2
<1>4. \A o \in Runs : Onward(o) BY DEF Onward
<1>5. LogsOK' /\ KeptInv' /\ (\A o \in Runs : LogInv(o))' BY <1>3, <1>4, PublishKeepsLogs
<1>6. GoesOn BY <1>3, PublishGoesOn
<1> QED BY <1>5, <1>6, SameRunsForward DEF Forward

(* A round whose record cannot be read.                                    *)
LEMMA PollFailsForward ==
  ASSUME RunInv, NEW c \in Clients, UNCHANGED run, budget.faults \in Nat,
         budget'.faults = budget.faults + 1, Publish(RunOf[c], <<>>, Unavailable)
  PROVE  Forward /\ GoesOn
<1> USE DEF RunInv
<1>1. PICK r \in Runs : r = RunOf[c] BY RunOfAssumption
<1>2. Unavailable \in Draft /\ <<>> \in Seq(Draft) BY DraftsTyped
<1>3. Sound(Unavailable, run'[r]) /\ Unavailable.event # "answer.delta" BY DEF Sound, Unavailable
<1>4. budget'.faults > 0 OBVIOUS
<1>5. Fresh(r, Added(r, <<>>, Unavailable)) BY <1>2, <1>3, <1>4, OneIsFresh
<1>6. \A o \in Runs : Onward(o) BY <1>4 DEF Onward
<1>7. Publish(r, <<>>, Unavailable) BY <1>1
<1>8. LogsOK' /\ KeptInv' /\ (\A o \in Runs : LogInv(o))' BY <1>2, <1>5, <1>6, <1>7, PublishKeepsLogs
<1>9. GoesOn BY <1>2, <1>7, PublishGoesOn
<1> QED BY <1>8, <1>9, SameRunsForward DEF Forward

(* A crash: the logs are lost, the records and the ids given are not.      *)
LEMMA CrashForward ==
  ASSUME RunInv, Crash, budget \in [connects : Nat, crashes : Nat, faults : Nat]
  PROVE  Forward /\ nextId' = nextId /\ budget'.crashes > 0
<1> USE DEF RunInv
<1>1. /\ log' = [r \in Runs |-> <<>>] /\ kept' = <<>> /\ nextId' = nextId /\ run' = run
      /\ budget' = [budget EXCEPT !.crashes = @ + 1]
  BY DEF Crash
<1>2. budget'.faults = budget.faults /\ budget'.crashes > 0 BY <1>1
<1>3. \A r \in Runs : Onward(r) BY <1>1, <1>2 DEF Onward
<1>4. \A r \in Runs : log'[r] = <<>> /\ <<>> \in Seq(Event) BY <1>1
<1>5. LogsOK' BY <1>1, <1>4 DEF LogsOK
<1>6. nextId \in Nat /\ nextId' >= nextId BY <1>1 DEF LogsOK
<1>7. \A r \in Runs : LogInv(r)' BY <1>1, <1>3, <1>4, <1>6, OneStays
<1>8. KeptInv'
  <2>1. Len(<<>>) = 0 /\ DOMAIN <<>> = {} OBVIOUS
  <2> QED BY <1>1, <1>4, <2>1, LimitsAssumption DEF KeptInv
<1> QED BY <1>1, <1>2, <1>5, <1>7, <1>8, SameRunsForward DEF Forward

-----------------------------------------------------------------------------
(* A connection: what it holds and what the client has received.            *)

Terminal(draft) == draft.event \notin {"progress", "answer.delta"}

ClientTypes ==
  /\ conn \in [Clients -> Connection]
  /\ last \in [Clients -> Nat]
  /\ text \in [Clients -> [0 .. MaxAttempts -> Seq(Nat)]]
  /\ told \in [Clients -> SUBSET Nat]
  /\ budget \in [connects : Nat, crashes : Nat, faults : Nat]

(* Client c resumes after what it received: what its cursor has not passed  *)
(* is new to it, and what the round has yet to send lies in between.        *)
ConnInv(c) ==
  /\ conn[c].cursor < nextId /\ last[c] < nextId
  /\ conn[c].step # "off" => run[RunOf[c]].status # "absent"
  /\ Open(c) => \A i \in 1 .. Len(log[RunOf[c]]) :
       log[RunOf[c]][i].id > conn[c].cursor => log[RunOf[c]][i].id > last[c]
  /\ \A i \in 1 .. Len(conn[c].queue) :
       /\ last[c] < conn[c].queue[i].id /\ conn[c].queue[i].id <= conn[c].cursor
       /\ ~EarlyFailures /\ Terminal(conn[c].queue[i].what) =>
            conn[c].queue[i].what.item \in {conn[c].seen.outcome, 0}
  /\ \A i, j \in 1 .. Len(conn[c].queue) : i < j => conn[c].queue[i].id < conn[c].queue[j].id

(* The inductive invariant.                                                 *)
IInv == RunInv /\ ClientTypes /\ \A c \in Clients : ConnInv(c)

(* The types of what a connection and its client hold.                     *)
LEMMA ClientFields ==
  ASSUME ClientTypes, NEW c \in Clients
  PROVE  /\ conn[c] \in Connection /\ conn[c].cursor \in Nat /\ conn[c].queue \in Seq(Event)
         /\ Len(conn[c].queue) \in Nat /\ DOMAIN conn[c].queue = 1 .. Len(conn[c].queue)
         /\ \A i \in 1 .. Len(conn[c].queue) :
              /\ conn[c].queue[i] \in Event /\ conn[c].queue[i].id \in Nat
              /\ conn[c].queue[i].what \in Draft /\ conn[c].queue[i].what.item \in Nat
         /\ conn[c].seen \in Record /\ conn[c].replay \in BOOLEAN /\ conn[c].emitted \in BOOLEAN
         /\ last[c] \in Nat /\ told[c] \in SUBSET Nat /\ text[c] \in [0 .. MaxAttempts -> Seq(Nat)]
         /\ budget.connects \in Nat /\ budget.crashes \in Nat /\ budget.faults \in Nat
<1>1. conn[c] \in Connection BY DEF ClientTypes
<1>2. conn[c].cursor \in Nat /\ conn[c].queue \in Seq(Event) /\ conn[c].seen \in Record
      /\ conn[c].replay \in BOOLEAN /\ conn[c].emitted \in BOOLEAN
  BY <1>1 DEF Connection
<1>3. Len(conn[c].queue) \in Nat /\ DOMAIN conn[c].queue = 1 .. Len(conn[c].queue)
      /\ \A i \in 1 .. Len(conn[c].queue) : conn[c].queue[i] \in Event
  BY <1>2, LenProperties
<1>4. \A e \in Event : e.id \in Nat /\ e.what \in Draft /\ e.what.item \in Nat BY DEF Event, Draft
<1>5. last[c] \in Nat /\ told[c] \in SUBSET Nat /\ text[c] \in [0 .. MaxAttempts -> Seq(Nat)]
      /\ budget.connects \in Nat /\ budget.crashes \in Nat /\ budget.faults \in Nat
  BY DEF ClientTypes
<1> QED BY <1>1, <1>2, <1>3, <1>4, <1>5

(* The values of the initial state.                                        *)
LEMMA NoConnectionTyped ==
  /\ NoConnection \in Connection /\ NoConnection.queue = <<>> /\ NoConnection.cursor = 0
  /\ NoConnection.step = "off" /\ Absent \in Record
<1>1. <<>> \in Seq(Nat) /\ <<>> \in Seq(Event) OBVIOUS
<1>2. Absent \in Record BY <1>1 DEF Absent, Record
<1> QED BY <1>1, <1>2 DEF NoConnection, Connection

(* A connection that does not move in a step. *)
LEMMA ConnKeeps ==
  ASSUME RunInv, ClientTypes, NEW c \in Clients, ConnInv(c), Forward, GoesOn,
         conn'[c] = conn[c], last'[c] = last[c]
  PROVE  ConnInv(c)'
<1>1. PICK r \in Runs : r = RunOf[c] BY RunOfAssumption
<1>2. conn[c].cursor \in Nat /\ last[c] \in Nat BY ClientFields
<1>3. nextId \in Nat /\ nextId' \in Nat /\ nextId' >= nextId BY DEF RunInv, Forward, LogsOK, GoesOn
<1>4. conn[c].cursor < nextId' /\ last[c] < nextId' BY <1>2, <1>3 DEF ConnInv
<1>5. conn[c].step # "off" => run'[r].status # "absent" BY <1>1 DEF ConnInv, Forward
<1>6. ASSUME Open(c), NEW i \in 1 .. Len(log'[r]), log'[r][i].id > conn[c].cursor
      PROVE  log'[r][i].id > last[c]
  <2>1. LogsOK' BY DEF Forward, RunInv
  <2>2. log'[r][i].id \in Nat
    <3>1. PICK s \in Seq(Event) : s = log'[r] BY <2>1 DEF LogsOK
    <3>2. \A k \in 1 .. Len(s) : s[k] \in Event BY LenProperties
    <3>3. PICK e \in Event : e = log'[r][i] BY <3>1, <3>2
    <3> QED BY <3>3 DEF Event
  <2>3. CASE log'[r][i].id >= nextId BY <1>2, <1>3, <2>2, <2>3 DEF ConnInv
  <2>4. CASE \E j \in 1 .. Len(log[r]) : log'[r][i] = log[r][j]
    BY <1>1, <1>6, <2>4 DEF ConnInv
  <2> QED BY <2>3, <2>4 DEF GoesOn, Later
<1>7. \A i \in 1 .. Len(conn[c].queue) :
       /\ last[c] < conn[c].queue[i].id /\ conn[c].queue[i].id <= conn[c].cursor
       /\ ~EarlyFailures /\ Terminal(conn[c].queue[i].what) =>
            conn[c].queue[i].what.item \in {conn[c].seen.outcome, 0}
  BY DEF ConnInv
<1>8. \A i, j \in 1 .. Len(conn[c].queue) : i < j => conn[c].queue[i].id < conn[c].queue[j].id
  BY DEF ConnInv
<1>9. Open(c)' <=> Open(c) BY DEF Open
<1> QED BY <1>1, <1>4, <1>5, <1>6, <1>7, <1>8, <1>9 DEF ConnInv

(* The cursor of a round passes all that is in the log. *)
LEMMA CursorPasses ==
  ASSUME NEW entries \in Seq(Event), NEW cursor \in Nat, NEW next \in Nat,
         \A i \in 1 .. Len(entries) : entries[i].id < next,
         \A i, j \in 1 .. Len(entries) : i < j => entries[i].id < entries[j].id
  PROVE  /\ CursorAfter(entries, cursor) \in Nat /\ cursor <= CursorAfter(entries, cursor)
         /\ \A i \in 1 .. Len(entries) : entries[i].id <= CursorAfter(entries, cursor)
         /\ CursorAfter(entries, cursor) = cursor \/ CursorAfter(entries, cursor) < next
<1>1. Len(entries) \in Nat /\ DOMAIN entries = 1 .. Len(entries)
      /\ \A i \in 1 .. Len(entries) : entries[i].id \in Nat
  <2>1. \A e \in Event : e.id \in Nat BY DEF Event
  <2> QED BY <2>1, LenProperties
<1>2. CASE After(entries, cursor) = {}
  <2>1. \A i \in 1 .. Len(entries) : ~(entries[i].id > cursor) BY <1>1, <1>2 DEF After
  <2> QED BY <1>1, <1>2, <2>1 DEF CursorAfter
<1>3. CASE After(entries, cursor) # {}
  <2>1. PICK k \in 1 .. Len(entries) : entries[k].id > cursor BY <1>1, <1>3 DEF After
  <2>7. PICK n \in Nat : n = Len(entries) BY <1>1
  <2>8. k \in 1 .. n BY <2>1, <2>7
  <2>9. n \in 1 .. n /\ \A i \in 1 .. n : i = n \/ i < n BY <2>8
  <2>2. PICK l \in 1 .. Len(entries) : l = Len(entries) BY <2>7, <2>9
  <2>3. \A i \in 1 .. Len(entries) : i = l \/ i < l BY <2>2, <2>7, <2>9
  <2>4. ASSUME NEW i \in 1 .. Len(entries) PROVE entries[i].id <= entries[l].id
    <3>1. entries[i].id \in Nat /\ entries[l].id \in Nat BY <1>1
    <3>2. i = l \/ entries[i].id < entries[l].id BY <2>3
    <3> QED BY <3>1, <3>2
  <2>5. CursorAfter(entries, cursor) = entries[l].id BY <1>3, <2>2 DEF CursorAfter
  <2>6. cursor <= entries[l].id BY <1>1, <2>1, <2>4
  <2> QED BY <1>1, <2>4, <2>5, <2>6
<1> QED BY <1>2, <1>3

(* A draft that is published and not suppressed is in the log. *)
LEMMA DraftIsThere ==
  ASSUME LogsOK, NEW r \in Runs, NEW deltas \in Seq(Draft), NEW draft \in Draft,
         Publish(r, deltas, draft), ~IsKept(log[r], draft)
  PROVE  \E i \in 1 .. Len(log'[r]) : log'[r][i].what = draft
<1>1. PICK new : new = Added(r, deltas, draft) OBVIOUS
<1>2. LogsOK' /\ log'[r] # <<>> /\ \E d \in Nat : Grows(r, new, d) BY <1>1, PublishGrows
<1>3. PICK d \in Nat : Grows(r, new, d) BY <1>2
<1>4. PICK n \in Nat : n = Len(new) /\ n >= 1 /\ new[n] = draft
  <2>1. new = Append(deltas, draft) BY <1>1 DEF Added
  <2>2. Len(deltas) \in Nat /\ Len(new) = Len(deltas) + 1 /\ new[Len(deltas) + 1] = draft
    BY <2>1, AppendProperties, LenProperties
  <2>3. Len(deltas) + 1 \in Nat /\ Len(deltas) + 1 >= 1 BY <2>2
  <2> QED BY <2>2, <2>3
<1>5. PICK old \in Nat : old = Len(log[r]) BY EntriesTyped
<1>6. PICK l \in Nat : l = Len(log'[r]) /\ l >= 1
  <2>1. PICK s \in Seq(Event) : s = log'[r] BY <1>2 DEF LogsOK
  <2>2. Len(s) \in Nat /\ Len(s) >= 1 BY <1>2, <2>1, LenProperties, EmptySeq
  <2> QED BY <2>1, <2>2
<1>7. l = old + n - d BY <1>3, <1>4, <1>5, <1>6 DEF Grows
<1>8. l \in 1 .. Len(log'[r]) /\ ~(l + d <= Len(log[r])) /\ l + d - Len(log[r]) = n
  BY <1>4, <1>5, <1>6, <1>7
<1>9. PICK k : k = l + d - Len(log[r]) OBVIOUS
<1>10. log'[r][l] = [id |-> nextId + k - 1, what |-> new[k]] BY <1>3, <1>8, <1>9 DEF Grows
<1>11. k = n BY <1>8, <1>9
<1> QED BY <1>4, <1>8, <1>10, <1>11

(* The notice that a connection publishes is in the log. *)
LEMMA NoticeIsThere ==
  ASSUME LogsOK, NEW r \in Runs, LogInv(r), Publish(r, <<>>, Unavailable)
  PROVE  \E i \in DOMAIN log'[r] : log'[r][i].what = Unavailable
<1>1. Unavailable \in Draft /\ <<>> \in Seq(Draft) BY DraftsTyped
<1>2. PICK new : new = Added(r, <<>>, Unavailable) OBVIOUS
<1>3. LogsOK' /\ log'[r] # <<>> /\ new \in Seq(Draft) /\ \E d \in Nat : Grows(r, new, d)
  BY <1>1, <1>2, PublishGrows
<1>4. PICK d \in Nat : Grows(r, new, d) BY <1>3
<1>5. Len(log[r]) \in Nat /\ DOMAIN log[r] = 1 .. Len(log[r]) BY EntriesTyped
<1>6. Len(log'[r]) \in Nat /\ Len(log'[r]) >= 1 /\ DOMAIN log'[r] = 1 .. Len(log'[r])
  <2>1. log'[r] \in Seq(Event) BY <1>3 DEF LogsOK
  <2>2. PICK s \in Seq(Event) : s = log'[r] BY <2>1
  <2>3. Len(s) \in Nat /\ DOMAIN s = 1 .. Len(s) /\ (s # <<>> => Len(s) >= 1) BY LenProperties, EmptySeq
  <2> QED BY <1>3, <2>2, <2>3
<1>7. CASE IsKept(log[r], Unavailable)
  <2>1. PICK i \in 1 .. Len(log[r]) : log[r][i].what.key = Unavailable.key BY <1>5, <1>7 DEF IsKept
  <2>2. log[r][i].what \in Draft /\ Sound(log[r][i].what, run[r]) BY EntriesTyped DEF LogInv
  <2>3. log[r][i].what.key.of = "unavailable" BY <2>1 DEF Unavailable
  <2>4. log[r][i].what = Unavailable BY <2>2, <2>3, SoundByKey
  <2>5. new = <<>> /\ Len(new) = 0 BY <1>2, <1>7 DEF Added
  <2>6. EventLimit \in Nat /\ Len(log[r]) <= EventLimit BY LimitsAssumption DEF LogInv
  <2>7. d = 0 BY <1>4, <1>5, <2>5, <2>6 DEF Grows
  <2>8. Len(log'[r]) = Len(log[r]) BY <1>4, <1>5, <2>5, <2>7 DEF Grows
  <2>10. i \in 1 .. Len(log'[r]) /\ i + d = i /\ i <= Len(log[r]) BY <1>5, <2>7, <2>8
  <2>9. log'[r][i] = log[r][i] BY <1>4, <2>10 DEF Grows
  <2> QED BY <1>6, <2>4, <2>8, <2>9
<1>8. CASE ~IsKept(log[r], Unavailable) BY <1>1, <1>6, <1>8, DraftIsThere
<1> QED BY <1>7, <1>8

-----------------------------------------------------------------------------
(* Each step of a connection.                                               *)

(* A step of one connection leaves the others as they were.                *)
LEMMA OneConnection ==
  ASSUME IInv, NEW c \in Clients, Forward, GoesOn, ClientTypes', ConnInv(c)',
         \A o \in Clients \ {c} : conn'[o] = conn[o] /\ last'[o] = last[o]
  PROVE  IInv'
<1>1. \A o \in Clients \ {c} : ConnInv(o)' BY ConnKeeps DEF IInv
<1> QED BY <1>1 DEF IInv, Forward

(* A connection without a queue. *)
LEMMA EmptyQueue ==
  ASSUME NEW c \in Clients, conn'[c].queue = <<>>,
         conn'[c].cursor < nextId', last'[c] < nextId',
         conn'[c].step # "off" => run'[RunOf[c]].status # "absent",
         Open(c)' => \A i \in 1 .. Len(log'[RunOf[c]]) :
           log'[RunOf[c]][i].id > conn'[c].cursor => log'[RunOf[c]][i].id > last'[c]
  PROVE  ConnInv(c)'
<1>1. Len(<<>>) = 0 OBVIOUS
<1> QED BY <1>1 DEF ConnInv

(* A client connects, from the id it received last or from the start when  *)
(* the log is gone.                                                        *)
LEMMA ConnectStep ==
  ASSUME IInv, NEW c \in Clients, Connect(c)
  PROVE  IInv' /\ Forward /\ GoesOn
<1>1. PICK r \in Runs : r = RunOf[c] BY RunOfAssumption
<1> DEFINE reset == last[c] > 0 /\ log[r] = <<>>
<1>2. PICK new : new = [NoConnection EXCEPT !.step = "opened", !.replay = ~reset,
                          !.cursor = IF reset THEN 0 ELSE last[c]]
  OBVIOUS
<1>3. /\ conn' = [conn EXCEPT ![c] = new] /\ budget' = [budget EXCEPT !.connects = @ + 1]
      /\ UNCHANGED <<run, buffer, clients>> /\ run[r].status # "absent"
  BY <1>1, <1>2 DEF Connect, ResumeAfter
<1>4. ClientTypes /\ RunInv /\ ConnInv(c) BY DEF IInv
<1>5. last[c] \in Nat /\ budget.connects \in Nat BY <1>4, ClientFields
<1>6. /\ new \in Connection /\ new.queue = <<>> /\ new.step = "opened"
      /\ new.cursor = IF reset THEN 0 ELSE last[c]
  BY <1>2, <1>5, NoConnectionTyped DEF Connection
<1>7. budget.connects + 1 \in Nat BY <1>5
<1>8. budget'.faults = budget.faults /\ budget' \in [connects : Nat, crashes : Nat, faults : Nat]
  BY <1>3, <1>4, <1>7 DEF ClientTypes
<1>9. conn' \in [Clients -> Connection] /\ conn'[c] = new BY <1>3, <1>4, <1>6 DEF ClientTypes
<1>10. Forward /\ GoesOn BY <1>3, <1>4, <1>8, StillForward
<1>11. last' = last /\ text' = text /\ told' = told /\ log' = log /\ run' = run /\ nextId' = nextId
  BY <1>3 DEF clients, buffer
<1>12. ClientTypes' BY <1>4, <1>8, <1>9, <1>11 DEF ClientTypes
<1>13. ConnInv(c)'
  <2>1. nextId \in Nat \ {0} /\ last[c] < nextId BY <1>4 DEF RunInv, LogsOK, ConnInv
  <2>2. new.cursor < nextId' BY <1>5, <1>6, <1>11, <2>1
  <2>3. \A i \in 1 .. Len(log[r]) : log[r][i].id > new.cursor => log[r][i].id > last[c]
    <3>1. CASE reset
      <4>1. Len(<<>>) = 0 OBVIOUS
      <4> QED BY <3>1, <4>1
    <3>2. CASE ~reset BY <1>6, <3>2
    <3> QED BY <3>1, <3>2
  <2> QED BY <1>1, <1>3, <1>6, <1>9, <1>11, <2>1, <2>2, <2>3, EmptyQueue
<1>14. \A o \in Clients \ {c} : conn'[o] = conn[o] /\ last'[o] = last[o]
  BY <1>3, <1>4, <1>11 DEF ClientTypes
<1> QED BY <1>10, <1>12, <1>13, <1>14, OneConnection

(* The client or the network gives up.                                     *)
LEMMA DisconnectStep ==
  ASSUME IInv, NEW c \in Clients, Disconnect(c)
  PROVE  IInv' /\ Forward /\ GoesOn
<1>1. conn' = [conn EXCEPT ![c] = NoConnection] /\ UNCHANGED <<run, buffer, clients, budget>>
  BY DEF Disconnect
<1>2. ClientTypes /\ RunInv /\ ConnInv(c) BY DEF IInv
<1>3. conn' \in [Clients -> Connection] /\ conn'[c] = NoConnection
  BY <1>1, <1>2, NoConnectionTyped DEF ClientTypes
<1>4. last' = last /\ text' = text /\ told' = told /\ log' = log /\ run' = run /\ nextId' = nextId
  BY <1>1 DEF clients, buffer
<1>5. ClientTypes' BY <1>1, <1>2, <1>3, <1>4 DEF ClientTypes
<1>6. Forward /\ GoesOn BY <1>1, <1>2, StillForward
<1>7. nextId \in Nat \ {0} /\ last[c] < nextId BY <1>2 DEF RunInv, LogsOK, ConnInv
<1>8. ConnInv(c)'
  <2>1. ~Open(c)' BY <1>3, NoConnectionTyped DEF Open
  <2> QED BY <1>3, <1>4, <1>7, <2>1, NoConnectionTyped, EmptyQueue
<1>9. \A o \in Clients \ {c} : conn'[o] = conn[o] /\ last'[o] = last[o]
  BY <1>1, <1>2, <1>4 DEF ClientTypes
<1> QED BY <1>5, <1>6, <1>8, <1>9, OneConnection

(* A round ends: the stream ends with it or sleeps.                        *)
LEMMA EndRoundStep ==
  ASSUME IInv, NEW c \in Clients, EndRound(c)
  PROVE  /\ IInv' /\ Forward /\ GoesOn
         /\ conn[c].step = "sending" /\ conn'[c].step \in {"opened", "ended"}
         /\ conn[c].queue = <<>> /\ conn'[c].seen = conn[c].seen
         /\ conn'[c].step = "ended" => conn[c].seen.status \in Settled
         /\ conn'[c].cursor = conn[c].cursor /\ conn'[c].queue = conn[c].queue
<1>1. PICK step \in {"opened", "ended"} :
        /\ conn' = [conn EXCEPT ![c].step = step] /\ UNCHANGED <<run, buffer, clients, budget>>
        /\ conn[c].step = "sending" /\ conn[c].queue = <<>>
        /\ step = "ended" => conn[c].seen.status \in Settled
  <2>1. PICK step : step = IF /\ conn[c].seen.status \in Settled
                              /\ conn[c].emitted \/ After(log[RunOf[c]], conn[c].cursor) = {}
                           THEN "ended" ELSE "opened"
    OBVIOUS
  <2>2. step \in {"opened", "ended"} /\ (step = "ended" => conn[c].seen.status \in Settled) BY <2>1
  <2> QED BY <2>1, <2>2 DEF EndRound
<1>2. ClientTypes /\ RunInv /\ ConnInv(c) BY DEF IInv
<1>3. PICK old \in Connection : old = conn[c] BY <1>2 DEF ClientTypes
<1>4. PICK new : new = [old EXCEPT !.step = step] OBVIOUS
<1>5. new \in Connection /\ new.cursor = old.cursor /\ new.queue = old.queue /\ new.step = step
      /\ new.seen = old.seen
  BY <1>4 DEF Connection
<1>6. conn' = [conn EXCEPT ![c] = new] BY <1>1, <1>3, <1>4
<1>7. conn' \in [Clients -> Connection] /\ conn'[c] = new BY <1>2, <1>5, <1>6 DEF ClientTypes
<1>8. last' = last /\ text' = text /\ told' = told /\ log' = log /\ run' = run /\ nextId' = nextId
  BY <1>1 DEF clients, buffer
<1>9. ClientTypes' BY <1>1, <1>2, <1>7, <1>8 DEF ClientTypes
<1>10. Forward /\ GoesOn BY <1>1, <1>2, StillForward
<1>11. ConnInv(c)'
  <2>1. Open(c) /\ conn[c].step # "off" BY <1>1 DEF Open
  <2>2. /\ conn[c].cursor < nextId /\ last[c] < nextId /\ run[RunOf[c]].status # "absent"
        /\ \A i \in 1 .. Len(log[RunOf[c]]) :
             log[RunOf[c]][i].id > conn[c].cursor => log[RunOf[c]][i].id > last[c]
    BY <1>2, <2>1 DEF ConnInv
  <2>3. conn'[c].queue = <<>> /\ conn'[c].cursor = conn[c].cursor BY <1>1, <1>3, <1>5, <1>7
  <2> QED BY <1>8, <2>2, <2>3, EmptyQueue
<1>12. \A o \in Clients \ {c} : conn'[o] = conn[o] /\ last'[o] = last[o]
  BY <1>2, <1>6, <1>8 DEF ClientTypes
<1>13. IInv' BY <1>9, <1>10, <1>11, <1>12, OneConnection
<1> QED BY <1>1, <1>3, <1>5, <1>7, <1>10, <1>13

(* What one yield does: the first of the queue leaves it and is received.  *)
LEMMA SendEffect ==
  ASSUME ClientTypes, NEW c \in Clients, Send(c)
  PROVE  /\ ClientTypes' /\ UNCHANGED <<run, buffer, budget>>
         /\ \A o \in Clients \ {c} : /\ conn'[o] = conn[o] /\ last'[o] = last[o]
                                     /\ text'[o] = text[o] /\ told'[o] = told[o]
         /\ conn[c].step = "sending" /\ conn'[c].step = "sending"
         /\ conn'[c].seen = conn[c].seen /\ conn'[c].cursor = conn[c].cursor
         /\ 1 \in 1 .. Len(conn[c].queue) /\ last'[c] = conn[c].queue[1].id
         /\ Len(conn'[c].queue) = Len(conn[c].queue) - 1
         /\ \A i \in 1 .. Len(conn'[c].queue) :
              i + 1 \in 1 .. Len(conn[c].queue) /\ conn'[c].queue[i] = conn[c].queue[i + 1]
         /\ conn'[c].emitted <=> conn[c].emitted \/ Terminal(conn[c].queue[1].what)
         /\ told'[c] = IF Terminal(conn[c].queue[1].what)
                       THEN told[c] \cup {conn[c].queue[1].what.item} ELSE told[c]
         /\ text'[c] = IF conn[c].queue[1].what.event = "answer.delta"
                       THEN [text[c] EXCEPT ![conn[c].queue[1].what.attempt] =
                               Append(@, conn[c].queue[1].what.item)]
                       ELSE text[c]
<1>1. PICK old \in Connection, q \in Seq(Event) : old = conn[c] /\ q = old.queue
  BY DEF ClientTypes, Connection
<1>2. q # <<>> /\ conn[c].step = "sending" BY <1>1 DEF Send
<1>3. PICK t : t = Tail(q) OBVIOUS
<1>4. /\ Len(q) \in Nat /\ 1 \in 1 .. Len(q) /\ Head(q) = q[1] /\ t \in Seq(Event)
      /\ Len(t) = Len(q) - 1 /\ \A i \in 1 .. Len(t) : t[i] = q[i + 1]
      /\ \A i \in 1 .. Len(q) : q[i] \in Event
  <2>1. Len(q) \in Nat /\ Len(q) # 0 /\ \A i \in 1 .. Len(q) : q[i] \in Event
    BY <1>2, LenProperties, EmptySeq
  <2>2. 1 \in 1 .. Len(q) BY <2>1
  <2> QED BY <1>2, <1>3, <2>1, <2>2, HeadTailProperties
<1>5. PICK h \in Event : h = q[1] BY <1>4
<1>6. h.id \in Nat /\ h.what \in Draft /\ h.what.item \in Nat /\ h.what.attempt \in Nat
  BY DEF Event, Draft
<1>7. PICK emitted \in BOOLEAN : emitted <=> old.emitted \/ Terminal(h.what) BY DEF Connection
<1>8. PICK new : new = [old EXCEPT !.queue = t, !.emitted = emitted] OBVIOUS
<1>9. new \in Connection /\ new.queue = t /\ new.cursor = old.cursor /\ new.seen = old.seen
      /\ new.step = old.step /\ (new.emitted <=> emitted)
  BY <1>4, <1>8 DEF Connection
<1>10. conn' = [conn EXCEPT ![c] = new]
  <2>1. conn' = [conn EXCEPT ![c].queue = t, ![c].emitted = old.emitted \/ Terminal(h.what)]
    BY <1>1, <1>3, <1>4, <1>5 DEF Send, Terminal
  <2>2. (old.emitted \/ Terminal(h.what)) = emitted BY <1>7 DEF Connection
  <2>3. conn' = [conn EXCEPT ![c].queue = t, ![c].emitted = emitted] BY <2>1, <2>2
  <2> QED BY <1>1, <1>8, <2>3 DEF ClientTypes
<1>11. conn' \in [Clients -> Connection] /\ conn'[c] = new BY <1>9, <1>10 DEF ClientTypes
<1>12. last' = [last EXCEPT ![c] = h.id] BY <1>1, <1>4, <1>5 DEF Send
<1>13. PICK ts : ts = IF h.what.event = "answer.delta"
                      THEN [text[c] EXCEPT ![h.what.attempt] = Append(@, h.what.item)] ELSE text[c]
  OBVIOUS
<1>14. ts \in [0 .. MaxAttempts -> Seq(Nat)]
  <2>1. PICK x \in [0 .. MaxAttempts -> Seq(Nat)] : x = text[c] BY DEF ClientTypes
  <2>2. \A a \in 0 .. MaxAttempts : Append(x[a], h.what.item) \in Seq(Nat) BY <1>6, AppendProperties
  <2> QED BY <1>13, <2>1, <2>2
<1>15. text' = [text EXCEPT ![c] = ts]
  <2>1. CASE h.what.event = "answer.delta"
    <3>1. text' = [text EXCEPT ![c][h.what.attempt] = Append(@, h.what.item)]
      BY <1>1, <1>4, <1>5, <2>1 DEF Send
    <3> QED BY <1>13, <2>1, <3>1
  <2>2. CASE h.what.event # "answer.delta"
    <3>1. text' = text BY <1>1, <1>4, <1>5, <2>2 DEF Send
    <3>2. text \in [Clients -> [0 .. MaxAttempts -> Seq(Nat)]] BY DEF ClientTypes
    <3> QED BY <1>13, <2>2, <3>1, <3>2
  <2> QED BY <2>1, <2>2
<1>16. PICK news : news = IF Terminal(h.what) THEN told[c] \cup {h.what.item} ELSE told[c] OBVIOUS
<1>17. told' = [told EXCEPT ![c] = news] /\ news \in SUBSET Nat
  <2>1. told \in [Clients -> SUBSET Nat] BY DEF ClientTypes
  <2>2. CASE Terminal(h.what)
    <3>1. told' = [told EXCEPT ![c] = @ \cup {h.what.item}] BY <1>1, <1>4, <1>5, <2>2 DEF Send, Terminal
    <3> QED BY <1>6, <1>16, <2>1, <2>2, <3>1
  <2>3. CASE ~Terminal(h.what)
    <3>1. told' = told BY <1>1, <1>4, <1>5, <2>3 DEF Send, Terminal
    <3> QED BY <1>16, <2>1, <2>3, <3>1
  <2> QED BY <2>2, <2>3
<1>18. UNCHANGED <<run, buffer, budget>> BY DEF Send
<1>19. ClientTypes' /\ last'[c] = h.id /\ text'[c] = ts /\ told'[c] = news
  BY <1>6, <1>11, <1>12, <1>14, <1>15, <1>17, <1>18 DEF ClientTypes
<1>20. \A o \in Clients \ {c} : /\ conn'[o] = conn[o] /\ last'[o] = last[o]
                                /\ text'[o] = text[o] /\ told'[o] = told[o]
  BY <1>10, <1>12, <1>15, <1>17 DEF ClientTypes
<1>21. \A i \in 1 .. Len(t) : i + 1 \in 1 .. Len(q) BY <1>4
<1>22. conn'[c].step = "sending" /\ conn'[c].seen = conn[c].seen /\ conn'[c].cursor = conn[c].cursor
       /\ conn'[c].queue = t
  BY <1>1, <1>2, <1>9, <1>11
<1>23. /\ 1 \in 1 .. Len(conn[c].queue) /\ last'[c] = conn[c].queue[1].id
       /\ Len(conn'[c].queue) = Len(conn[c].queue) - 1
       /\ \A i \in 1 .. Len(conn'[c].queue) :
            i + 1 \in 1 .. Len(conn[c].queue) /\ conn'[c].queue[i] = conn[c].queue[i + 1]
  BY <1>1, <1>4, <1>5, <1>19, <1>21, <1>22
<1>24. conn'[c].emitted <=> conn[c].emitted \/ Terminal(conn[c].queue[1].what)
  BY <1>1, <1>5, <1>7, <1>9, <1>11
<1>25. told'[c] = IF Terminal(conn[c].queue[1].what)
                  THEN told[c] \cup {conn[c].queue[1].what.item} ELSE told[c]
  BY <1>1, <1>5, <1>16, <1>19
<1>26. text'[c] = IF conn[c].queue[1].what.event = "answer.delta"
                  THEN [text[c] EXCEPT ![conn[c].queue[1].what.attempt] =
                          Append(@, conn[c].queue[1].what.item)]
                  ELSE text[c]
  BY <1>1, <1>5, <1>13, <1>19
<1> QED BY <1>2, <1>18, <1>19, <1>20, <1>22, <1>23, <1>24, <1>25, <1>26

(* It does nothing to other clients.                                       *)
LEMMA SendLeavesOthers ==
  ASSUME ClientTypes, NEW c \in Clients, Send(c)
  PROVE  /\ UNCHANGED <<run, buffer, budget>>
         /\ \A o \in Clients \ {c} : /\ conn'[o] = conn[o] /\ last'[o] = last[o]
                                     /\ text'[o] = text[o] /\ told'[o] = told[o]
BY SendEffect

(* One yield keeps the invariant, and the id received grows.               *)
LEMMA SendStep ==
  ASSUME IInv, NEW c \in Clients, Send(c)
  PROVE  IInv' /\ Forward /\ GoesOn /\ last'[c] > last[c]
<1>1. ClientTypes /\ RunInv /\ ConnInv(c) BY DEF IInv
<1>2. PICK q \in Seq(Event), p \in Seq(Event) : q = conn[c].queue /\ p = conn'[c].queue
  <2>1. ClientTypes' BY <1>1, SendEffect
  <2> QED BY <1>1, <2>1 DEF ClientTypes, Connection
<1>3. /\ 1 \in 1 .. Len(q) /\ last'[c] = q[1].id /\ Len(p) = Len(q) - 1
      /\ \A i \in 1 .. Len(p) : i + 1 \in 1 .. Len(q) /\ p[i] = q[i + 1]
      /\ conn[c].step = "sending" /\ conn'[c].step = "sending"
      /\ conn'[c].seen = conn[c].seen /\ conn'[c].cursor = conn[c].cursor
      /\ ClientTypes' /\ UNCHANGED <<run, buffer, budget>>
      /\ \A o \in Clients \ {c} : conn'[o] = conn[o] /\ last'[o] = last[o]
  BY <1>1, <1>2, SendEffect
<1>4. log' = log /\ run' = run /\ nextId' = nextId BY <1>3 DEF buffer
<1>5. Forward /\ GoesOn BY <1>1, <1>3, StillForward
<1>6. PICK cursor \in Nat : cursor = conn[c].cursor BY <1>1, ClientFields
<1>7. last[c] \in Nat /\ \A i \in 1 .. Len(q) : q[i].id \in Nat BY <1>1, <1>2, ClientFields
<1>8. /\ \A i \in 1 .. Len(q) :
           /\ last[c] < q[i].id /\ q[i].id <= cursor
           /\ ~EarlyFailures /\ Terminal(q[i].what) => q[i].what.item \in {conn[c].seen.outcome, 0}
      /\ \A i, j \in 1 .. Len(q) : i < j => q[i].id < q[j].id
      /\ cursor < nextId
  BY <1>1, <1>2, <1>6 DEF ConnInv
<1>9. last'[c] > last[c] /\ last'[c] < nextId /\ last'[c] \in Nat /\ last'[c] <= cursor
  <2>1. nextId \in Nat BY <1>1 DEF RunInv, LogsOK
  <2> QED BY <1>3, <1>7, <1>8, <2>1
<1>10. ASSUME NEW i \in 1 .. Len(p)
       PROVE  /\ last'[c] < p[i].id /\ p[i].id <= cursor
              /\ ~EarlyFailures /\ Terminal(p[i].what) => p[i].what.item \in {conn[c].seen.outcome, 0}
  <2>1. i + 1 \in 1 .. Len(q) /\ p[i] = q[i + 1] /\ 1 < i + 1 BY <1>3
  <2> QED BY <1>3, <1>8, <2>1
<1>11. ASSUME NEW i \in 1 .. Len(p), NEW j \in 1 .. Len(p), i < j PROVE p[i].id < p[j].id
  <2>1. i + 1 < j + 1 BY <1>11
  <2> QED BY <1>3, <1>8, <2>1
<1>12. ASSUME NEW i \in 1 .. Len(log[RunOf[c]]), log[RunOf[c]][i].id > cursor
       PROVE  log[RunOf[c]][i].id > last'[c]
  <2>1. log[RunOf[c]][i].id \in Nat BY <1>1, EntriesTyped, RunOfAssumption DEF RunInv
  <2> QED BY <1>9, <1>12, <2>1
<1>13. run[RunOf[c]].status # "absent" BY <1>1, <1>3 DEF ConnInv
<1>14. ConnInv(c)'
  <2>1. conn'[c].queue = p /\ conn'[c].cursor = cursor /\ conn'[c].seen = conn[c].seen
    BY <1>2, <1>3, <1>6
  <2>2. cursor < nextId' /\ last'[c] < nextId' BY <1>4, <1>8, <1>9
  <2> QED BY <1>4, <1>10, <1>11, <1>12, <1>13, <2>1, <2>2 DEF ConnInv
<1>15. IInv' BY <1>3, <1>5, <1>14, OneConnection
<1> QED BY <1>5, <1>9, <1>15

(* What a poll queues: what matches of the log after the cursor, in order.  *)
LEMMA PollEffect ==
  ASSUME ClientTypes, run \in [Runs -> Record], LogsOK', NEW c \in Clients, Poll(c), NEW r \in Runs, r = RunOf[c]
  PROVE  /\ ClientTypes' /\ UNCHANGED <<run, clients, budget>>
         /\ \A o \in Clients \ {c} : conn'[o] = conn[o]
         /\ conn[c].step = "opened" /\ conn'[c].step = "sending"
         /\ conn'[c].seen = run[r] /\ ~conn'[c].emitted
         /\ conn'[c].cursor = CursorAfter(log'[r], conn[c].cursor)
         /\ conn'[c].queue \in Seq(Event)
         /\ Lists(conn'[c].queue, log'[r],
                  {i \in 1 .. Len(log'[r]) : log'[r][i].id > conn[c].cursor /\ Matches(log'[r][i].what, run[r])})
<1>1. PICK old \in Connection : old = conn[c] BY DEF ClientTypes
<1>2. PICK entries \in Seq(Event) : entries = log'[r] BY DEF LogsOK
<1>3. Len(entries) \in Nat /\ DOMAIN entries = 1 .. Len(entries)
      /\ \A i \in 1 .. Len(entries) : entries[i].id \in Nat
  <2>1. \A e \in Event : e.id \in Nat BY DEF Event
  <2> QED BY <2>1, LenProperties
<1>4. PICK matching : matching = {i \in After(log'[r], conn[c].cursor) : Matches(log'[r][i].what, run[r])}
  OBVIOUS
<1>5. matching = {i \in 1 .. Len(entries) : entries[i].id > old.cursor /\ Matches(entries[i].what, run[r])}
  BY <1>1, <1>2, <1>3, <1>4 DEF After
<1>6. matching \in SUBSET DOMAIN entries BY <1>3, <1>5
<1>7. PICK q : q = Picked(entries, matching) OBVIOUS
<1>8. q \in Seq(Event) /\ Lists(q, entries, matching) BY <1>6, <1>7, PickedLists
<1>9. PICK cursor : cursor = CursorAfter(entries, old.cursor) OBVIOUS
<1>10. cursor \in Nat
  <2>1. CASE After(entries, old.cursor) = {} BY <1>9, <2>1 DEF CursorAfter, Connection
  <2>2. CASE After(entries, old.cursor) # {}
    <3>1. PICK k \in 1 .. Len(entries) : TRUE BY <1>3, <2>2 DEF After
    <3>2. PICK n \in Nat : n = Len(entries) BY <1>3
    <3>3. k \in 1 .. n BY <3>2
    <3>4. n \in 1 .. n BY <3>3
    <3>5. cursor = entries[n].id BY <1>9, <2>2, <3>2 DEF CursorAfter
    <3> QED BY <1>3, <3>2, <3>4, <3>5
  <2> QED BY <2>1, <2>2
<1>11. PICK new : new = [old EXCEPT !.step = "sending", !.seen = run[r], !.emitted = FALSE,
                                    !.queue = q, !.cursor = cursor] OBVIOUS
<1>12. new \in Connection /\ new.step = "sending" /\ new.seen = run[r] /\ ~new.emitted
       /\ new.queue = q /\ new.cursor = cursor
  BY <1>8, <1>10, <1>11 DEF Connection
<1>13. conn' = [conn EXCEPT ![c] = new]
  <2>1. conn' = [conn EXCEPT ![c].step = "sending", ![c].seen = run[r], ![c].emitted = FALSE,
                             ![c].queue = q, ![c].cursor = CursorAfter(entries, @)]
    BY <1>2, <1>4, <1>7 DEF Poll
  <2> QED BY <1>1, <1>9, <1>11, <2>1 DEF ClientTypes
<1>14. conn' \in [Clients -> Connection] /\ conn'[c] = new /\ \A o \in Clients \ {c} : conn'[o] = conn[o]
  BY <1>12, <1>13 DEF ClientTypes
<1>15. UNCHANGED <<run, clients, budget>> /\ conn[c].step = "opened" BY DEF Poll
<1>16. ClientTypes' BY <1>14, <1>15 DEF ClientTypes, clients
<1>17. PICK places : places = {i \in 1 .. Len(log'[r]) : /\ log'[r][i].id > conn[c].cursor
                                                         /\ Matches(log'[r][i].what, run[r])} OBVIOUS
<1>18. Lists(conn'[c].queue, log'[r], places)
  <2>1. places = matching BY <1>1, <1>2, <1>5, <1>17
  <2> QED BY <1>2, <1>8, <1>12, <1>14, <2>1
<1> QED BY <1>1, <1>2, <1>8, <1>9, <1>12, <1>14, <1>15, <1>16, <1>17, <1>18

(* An outcome that matches the record is that of the record. *)
LEMMA MatchesOutcome ==
  ASSUME NEW rec \in Record, RecordInv(rec), NEW d \in Draft, Sound(d, rec), Matches(d, rec),
         d.event \notin {"progress", "answer.delta"}, ~EarlyFailures
  PROVE  d.item \in {rec.outcome, 0}
<1>1. CASE d = Unavailable BY <1>1 DEF Unavailable
<1>2. CASE d.key.of \in Settled /\ d.event = TerminalEvent(d.key.of) /\ OutcomeSound(d, rec)
  <2>1. d.attempt = rec.attempt /\ rec.status \in Settled /\ d.event = TerminalEvent(rec.status)
    BY DEF Matches
  <2>2. d.key.of = rec.status BY <1>2, <2>1 DEF Settled, TerminalEvent
  <2>3. CASE rec.status = "waiting_input" BY <2>1, <2>3 DEF Matches, TerminalEvent
  <2>4. CASE rec.status = "failed"
    <3>1. ~rec.retried BY <2>4 DEF RecordInv
    <3> QED BY <1>2, <2>1, <2>2, <2>4, <3>1 DEF OutcomeSound
  <2>5. CASE rec.status = "succeeded" BY <1>2, <2>2, <2>5 DEF OutcomeSound
  <2> QED BY <2>1, <2>3, <2>4, <2>5 DEF Settled
<1> QED BY <1>1, <1>2, SoundByEvent

(* A round reads what its client has not passed, and passes all of it.     *)
LEMMA PollStep ==
  ASSUME IInv, NEW c \in Clients, Poll(c)
  PROVE  IInv' /\ Forward /\ GoesOn
<1>1. ClientTypes /\ RunInv /\ ConnInv(c) BY DEF IInv
<1>2. PICK r \in Runs : r = RunOf[c] BY RunOfAssumption
<1>3. conn[c].replay \in BOOLEAN /\ conn[c].cursor \in Nat /\ last[c] \in Nat BY <1>1, ClientFields
<1>4. /\ Publish(r, MissingDeltas(r, conn[c].replay), Projection(run[r]))
      /\ UNCHANGED run /\ UNCHANGED budget /\ run[r].status # "absent"
  BY <1>1, <1>2 DEF Poll, ConnInv
<1>5. Forward /\ GoesOn BY <1>1, <1>2, <1>3, <1>4, PollForward
<1>6. LogsOK' /\ LogInv(r)' /\ run[r] \in Record /\ run' = run /\ RecordInv(run[r]) /\ nextId' \in Nat
      /\ nextId' >= nextId /\ nextId \in Nat
  BY <1>1, <1>4, <1>5 DEF Forward, RunInv, GoesOn, LogsOK
<1> DEFINE places == {i \in 1 .. Len(log'[r]) : /\ log'[r][i].id > conn[c].cursor
                                                /\ Matches(log'[r][i].what, run[r])}
<1>7. /\ ClientTypes' /\ UNCHANGED <<run, clients, budget>>
      /\ \A o \in Clients \ {c} : conn'[o] = conn[o]
      /\ conn[c].step = "opened" /\ conn'[c].step = "sending"
      /\ conn'[c].seen = run[r]
      /\ conn'[c].cursor = CursorAfter(log'[r], conn[c].cursor)
      /\ conn'[c].queue \in Seq(Event)
      /\ Lists(conn'[c].queue, log'[r], places)
  BY <1>1, <1>2, <1>6, PollEffect DEF RunInv
<1>8. last' = last BY <1>7 DEF clients
<1>9. PICK entries \in Seq(Event), q \in Seq(Event), next \in Nat, cursor \in Nat :
        /\ entries = log'[r] /\ q = conn'[c].queue /\ next = nextId' /\ cursor = conn[c].cursor
  BY <1>3, <1>6, <1>7 DEF LogsOK
<1>10. /\ \A i \in 1 .. Len(entries) : entries[i].id < next /\ Sound(entries[i].what, run[r])
                                       /\ entries[i].id \in Nat /\ entries[i].what \in Draft
       /\ \A i, j \in 1 .. Len(entries) : i < j => entries[i].id < entries[j].id
  <2>1. \A e \in Event : e.id \in Nat /\ e.what \in Draft BY DEF Event
  <2>2. \A i \in 1 .. Len(entries) : entries[i] \in Event BY LenProperties
  <2> QED BY <1>6, <1>9, <2>1, <2>2 DEF LogInv
<1>11. PICK passed : passed = CursorAfter(entries, cursor) OBVIOUS
<1>12. /\ passed \in Nat /\ cursor <= passed /\ (passed = cursor \/ passed < next)
       /\ \A i \in 1 .. Len(entries) : entries[i].id <= passed
  BY <1>10, <1>11, CursorPasses
<1>13. PICK f : /\ f \in [1 .. Len(q) -> 1 .. Len(entries)]
                /\ \A i, j \in 1 .. Len(q) : i < j => f[i] < f[j]
                /\ \A i \in 1 .. Len(q) : /\ q[i] = entries[f[i]] /\ q[i].id > cursor
                                          /\ Matches(q[i].what, run[r])
  <2>1. PICK f : /\ f \in [1 .. Len(q) -> places]
                 /\ \A i, j \in 1 .. Len(q) : i < j => f[i] < f[j]
                 /\ \A i \in 1 .. Len(q) : q[i] = entries[f[i]]
    BY <1>7, <1>9 DEF Lists
  <2>2. \A i \in 1 .. Len(q) : f[i] \in 1 .. Len(entries) /\ entries[f[i]].id > cursor
                               /\ Matches(entries[f[i]].what, run[r])
    BY <1>9, <2>1
  <2>3. f \in [1 .. Len(q) -> 1 .. Len(entries)] BY <2>1, <2>2
  <2> QED BY <2>1, <2>2, <2>3
<1>14. cursor < nextId /\ last[c] < nextId BY <1>1, <1>9 DEF ConnInv
<1>15. passed < next /\ last[c] < next BY <1>3, <1>6, <1>9, <1>12, <1>14
<1>16. \A i \in 1 .. Len(entries) : entries[i].id > cursor => entries[i].id > last[c]
  <2>1. ASSUME NEW i \in 1 .. Len(entries), entries[i].id > cursor PROVE entries[i].id > last[c]
    <3>1. CASE entries[i].id >= nextId
      <4>1. PICK id \in Nat, before \in Nat, then \in Nat :
              id = entries[i].id /\ before = last[c] /\ then = nextId
        BY <1>3, <1>6, <1>10
      <4>2. id >= then /\ before < then BY <1>14, <3>1, <4>1
      <4> QED BY <4>1, <4>2
    <3>2. CASE \E j \in 1 .. Len(log[r]) : entries[i] = log[r][j]
      BY <1>1, <1>2, <1>7, <1>9, <2>1, <3>2 DEF ConnInv, Open
    <3> QED BY <1>5, <1>9, <3>1, <3>2 DEF GoesOn, Later
  <2> QED BY <2>1
<1>17. ASSUME NEW i \in 1 .. Len(q)
       PROVE  /\ last[c] < q[i].id /\ q[i].id <= passed
              /\ ~EarlyFailures /\ Terminal(q[i].what) => q[i].what.item \in {run[r].outcome, 0}
  <2>1. PICK k \in 1 .. Len(entries) : q[i] = entries[k] /\ q[i].id > cursor /\ Matches(q[i].what, run[r])
    BY <1>13
  <2>2. last[c] < q[i].id /\ q[i].id <= passed BY <1>12, <1>16, <2>1
  <2>3. ~EarlyFailures /\ Terminal(q[i].what) => q[i].what.item \in {run[r].outcome, 0}
    BY <1>6, <1>10, <2>1, MatchesOutcome DEF Terminal
  <2> QED BY <2>2, <2>3
<1>18. ASSUME NEW i \in 1 .. Len(q), NEW j \in 1 .. Len(q), i < j PROVE q[i].id < q[j].id
  <2>1. f[i] < f[j] /\ f[i] \in 1 .. Len(entries) /\ f[j] \in 1 .. Len(entries) BY <1>13, <1>18
  <2> QED BY <1>10, <1>13, <2>1
<1>19. conn'[c].cursor = passed BY <1>7, <1>9, <1>11
<1>20. \A i \in 1 .. Len(entries) : ~(entries[i].id > passed) BY <1>10, <1>12
<1>21. ConnInv(c)'
  BY <1>2, <1>4, <1>6, <1>7, <1>8, <1>9, <1>15, <1>17, <1>18, <1>19, <1>20 DEF ConnInv
<1>22. \A o \in Clients \ {c} : conn'[o] = conn[o] /\ last'[o] = last[o] BY <1>7, <1>8
<1> QED BY <1>5, <1>7, <1>21, <1>22, OneConnection

(* The notice of an unreadable state file is sent only if it is new to the *)
(* client.                                                                 *)
LEMMA PollFailsStep ==
  ASSUME IInv, NEW c \in Clients, PollFails(c)
  PROVE  IInv' /\ Forward /\ GoesOn /\ (last'[c] # last[c] => last'[c] > last[c])
         /\ budget'.faults > 0 /\ \A o \in Clients \ {c} : last'[o] = last[o]
<1>1. ClientTypes /\ RunInv /\ ConnInv(c) BY DEF IInv
<1>2. PICK r \in Runs : r = RunOf[c] BY RunOfAssumption
<1>3. /\ conn[c].step = "opened" /\ Publish(r, <<>>, Unavailable) /\ UNCHANGED <<run, text, told>>
      /\ budget' = [budget EXCEPT !.faults = @ + 1] /\ conn' = [conn EXCEPT ![c] = NoConnection]
  BY <1>2 DEF PollFails
<1>4. conn[c].cursor \in Nat /\ last[c] \in Nat /\ budget.faults \in Nat BY <1>1, ClientFields
<1>5. budget.faults + 1 \in Nat /\ budget.faults + 1 > 0 BY <1>4
<1>6. budget'.faults = budget.faults + 1 /\ budget' \in [connects : Nat, crashes : Nat, faults : Nat]
  BY <1>1, <1>3, <1>5 DEF ClientTypes
<1>7. Forward /\ GoesOn BY <1>1, <1>2, <1>3, <1>4, <1>6, PollFailsForward
<1>8. PICK event : event = CHOOSE i \in DOMAIN log'[r] : log'[r][i].what = Unavailable OBVIOUS
<1>9. event \in DOMAIN log'[r]
  <2>1. \E i \in DOMAIN log'[r] : log'[r][i].what = Unavailable
    BY <1>1, <1>3, NoticeIsThere DEF RunInv
  <2> QED BY <1>8, <2>1
<1>10. LogsOK' /\ LogInv(r)' /\ nextId' \in Nat /\ nextId' >= nextId /\ nextId \in Nat
  BY <1>1, <1>7 DEF Forward, RunInv, GoesOn, LogsOK
<1>11. PICK entries \in Seq(Event) : entries = log'[r] BY <1>10 DEF LogsOK
<1>12. event \in 1 .. Len(entries) /\ entries[event] \in Event BY <1>9, <1>11, LenProperties
<1>13. PICK id \in Nat : id = entries[event].id BY <1>12 DEF Event
<1>14. id < nextId' BY <1>10, <1>11, <1>12, <1>13 DEF LogInv
<1>15. last' = IF id > conn[c].cursor THEN [last EXCEPT ![c] = id] ELSE last
  BY <1>2, <1>8, <1>11, <1>13 DEF PollFails
<1>16. last' \in [Clients -> Nat] /\ (last'[c] = last[c] \/ (last'[c] = id /\ id > conn[c].cursor))
       /\ \A o \in Clients \ {c} : last'[o] = last[o]
  BY <1>1, <1>15 DEF ClientTypes
<1>18. last[c] < nextId BY <1>1 DEF ConnInv
<1>19. id > conn[c].cursor => id > last[c]
  <2>1. CASE id >= nextId BY <1>4, <1>10, <1>18, <2>1
  <2>2. CASE \E j \in 1 .. Len(log[r]) : entries[event] = log[r][j]
    BY <1>1, <1>2, <1>3, <1>13, <2>2 DEF ConnInv, Open
  <2> QED BY <1>7, <1>11, <1>12, <1>13, <2>1, <2>2 DEF GoesOn, Later
<1>20. last'[c] < nextId' BY <1>4, <1>10, <1>14, <1>16, <1>18
<1>21. conn' \in [Clients -> Connection] /\ conn'[c] = NoConnection
       /\ \A o \in Clients \ {c} : conn'[o] = conn[o]
  BY <1>1, <1>3, NoConnectionTyped DEF ClientTypes
<1>22. ClientTypes' BY <1>1, <1>3, <1>6, <1>16, <1>21 DEF ClientTypes
<1>23. ConnInv(c)'
  <2>1. ~Open(c)' BY <1>21, NoConnectionTyped DEF Open
  <2>2. 0 < nextId' BY <1>10 DEF LogsOK
  <2> QED BY <1>20, <1>21, <2>1, <2>2, NoConnectionTyped, EmptyQueue
<1>24. IInv' BY <1>7, <1>16, <1>21, <1>22, <1>23, OneConnection
<1> QED BY <1>5, <1>6, <1>7, <1>16, <1>19, <1>24

(* A step of a run does nothing to the connections.                        *)
LEMMA RunStepStep ==
  ASSUME IInv, NEW r \in Runs, RunStep(r)
  PROVE  IInv' /\ Forward /\ GoesOn /\ UNCHANGED <<conn, clients, budget>>
<1>1. UNCHANGED <<conn, clients, budget>>
  BY DEF RunStep, Create, Claim, StreamPiece, RequeueRun, Finish, Fail, RetryByClient, Answer
<1>2. ClientTypes /\ RunInv BY DEF IInv
<1>3. Forward /\ GoesOn BY <1>1, <1>2, RunStepForward
<1>4. conn' = conn /\ last' = last /\ text' = text /\ told' = told /\ budget' = budget
  BY <1>1 DEF clients
<1>5. ClientTypes' BY <1>2, <1>4 DEF ClientTypes
<1>6. \A c \in Clients : ConnInv(c)' BY <1>2, <1>3, <1>4, ConnKeeps DEF IInv
<1> QED BY <1>1, <1>3, <1>5, <1>6 DEF IInv, Forward

(* A crash ends all connections; their clients keep what they received.    *)
LEMMA CrashStep ==
  ASSUME IInv, Crash
  PROVE  IInv' /\ budget'.crashes > 0
<1>1. ClientTypes /\ RunInv BY DEF IInv
<1>2. budget \in [connects : Nat, crashes : Nat, faults : Nat] BY <1>1 DEF ClientTypes
<1>3. Forward /\ nextId' = nextId /\ budget'.crashes > 0 BY <1>1, <1>2, CrashForward
<1>4. /\ conn' = [c \in Clients |-> NoConnection] /\ UNCHANGED clients
      /\ budget' = [budget EXCEPT !.crashes = @ + 1]
  BY DEF Crash
<1>5. last' = last /\ text' = text /\ told' = told BY <1>4 DEF clients
<1>6. budget.crashes + 1 \in Nat BY <1>2
<1>7. budget' \in [connects : Nat, crashes : Nat, faults : Nat] BY <1>2, <1>4, <1>6
<1>8. conn' \in [Clients -> Connection] BY <1>4, NoConnectionTyped
<1>9. ClientTypes' BY <1>1, <1>5, <1>7, <1>8 DEF ClientTypes
<1>10. ASSUME NEW c \in Clients PROVE ConnInv(c)'
  <2>1. conn'[c] = NoConnection BY <1>4
  <2>2. ~Open(c)' BY <2>1, NoConnectionTyped DEF Open
  <2>3. 0 < nextId /\ last[c] < nextId BY <1>1 DEF RunInv, LogsOK, IInv, ConnInv
  <2> QED BY <1>3, <1>5, <2>1, <2>2, <2>3, NoConnectionTyped, EmptyQueue
<1> QED BY <1>3, <1>9, <1>10 DEF IInv, Forward

(* The invariant holds when the service starts,                            *)
LEMMA StartsInvariant ==
  ASSUME Init
  PROVE  IInv
<1> USE DEF Init
<1>1. <<>> \in Seq(Event) /\ <<>> \in Seq(Nat) /\ <<>> \in Seq(Runs) /\ Len(<<>>) = 0 /\ DOMAIN <<>> = {}
  OBVIOUS
<1>2. run \in [Runs -> Record] BY NoConnectionTyped
<1>3. LogsOK BY <1>1 DEF LogsOK
<1>4. KeptInv BY <1>1, LimitsAssumption DEF KeptInv
<1>5. \A r \in Runs : RecordInv(run[r]) BY DEF RecordInv, Absent, Settled
<1>6. \A r \in Runs : LogInv(r) BY <1>1, LimitsAssumption DEF LogInv
<1>7. ClientTypes
  <2>1. conn \in [Clients -> Connection] BY NoConnectionTyped
  <2>2. text \in [Clients -> [0 .. MaxAttempts -> Seq(Nat)]] BY <1>1
  <2>3. last \in [Clients -> Nat] /\ told \in [Clients -> SUBSET Nat]
        /\ budget \in [connects : Nat, crashes : Nat, faults : Nat]
    OBVIOUS
  <2> QED BY <2>1, <2>2, <2>3 DEF ClientTypes
<1>8. ASSUME NEW c \in Clients PROVE ConnInv(c)
  <2>1. conn[c] = NoConnection /\ last[c] = 0 /\ nextId = 1 OBVIOUS
  <2> QED BY <1>1, <2>1, NoConnectionTyped DEF ConnInv, Open
<1> QED BY <1>2, <1>3, <1>4, <1>5, <1>6, <1>7, <1>8 DEF IInv, RunInv

(* and every step keeps it.                                                *)
LEMMA StepKeepsInvariant ==
  ASSUME IInv, [Next]_vars
  PROVE  IInv'
<1>1. CASE UNCHANGED vars
  <2>1. UNCHANGED <<run, log, kept, nextId, conn, last, text, told, budget>>
    BY <1>1 DEF vars, buffer, clients
  <2> QED BY <2>1 DEF IInv, RunInv, LogsOK, KeptInv, LogInv, ClientTypes, ConnInv, Open
<1>2. CASE Next
  BY <1>2, RunStepStep, ConnectStep, PollStep, PollFailsStep, SendStep, EndRoundStep, DisconnectStep,
     CrashStep DEF Next, Serve
<1> QED BY <1>1, <1>2

(* The inductive invariant.  The records and the logs fit each other       *)
(* (RunInv), and each client resumes after what it received (ConnInv),     *)
(* through reconnections, trimming, eviction, unreadable state files and   *)
(* crashes.                                                                *)
THEOREM StreamInvariant == Spec => []IInv
<1>1. Init => IInv BY StartsInvariant
<1>2. IInv /\ [Next]_vars => IInv' BY StepKeepsInvariant
<1> QED BY <1>1, <1>2, PTL DEF Spec

(* Every reachable state is type correct.                                  *)
THEOREM StreamTypes == Spec => []TypeOK
<1>1. IInv => TypeOK BY DEF IInv, RunInv, LogsOK, ClientTypes, TypeOK
<1> QED BY <1>1, StreamInvariant, PTL

(* The log of a run is ordered by id, holds one event per key and respects *)
(* its limit, and the process knows the age of exactly the logs it keeps:  *)
(* _publish_agent_run_event suppresses, trims and evicts without losing    *)
(* this.                                                                   *)
THEOREM LogsStayOrdered == Spec => []LogsAreOrdered
<1>1. ASSUME IInv PROVE LogsAreOrdered
  <2>1. RunInv BY <1>1 DEF IInv
  <2>2. ASSUME NEW r \in Runs
        PROVE  /\ Len(log[r]) <= EventLimit
               /\ \A i, j \in DOMAIN log[r] : i < j =>
                    /\ log[r][i].id < log[r][j].id
                    /\ log[r][i].what.key = log[r][j].what.key => log[r][i].what.key = NoKey
               /\ \A i \in DOMAIN log[r] : log[r][i].id < nextId
    <3>1. LogInv(r) /\ DOMAIN log[r] = 1 .. Len(log[r]) BY <2>1, EntriesTyped DEF RunInv
    <3> QED BY <3>1 DEF LogInv, Precedes
  <2>3. KeptInv BY <2>1 DEF RunInv
  <2> QED BY <2>2, <2>3 DEF LogsAreOrdered, KeptInv
<1> QED BY <1>1, StreamInvariant, PTL

(* A client never receives an id that is not above all it received before: *)
(* the Last-Event-ID it sends is always the place to resume from, also     *)
(* after the service restarted with empty logs.                            *)
THEOREM ReceivedIdsIncrease == Spec => IdsIncrease
<1>1. ASSUME IInv, [Next]_vars, NEW c \in Clients, last'[c] # last[c]
      PROVE  last'[c] > last[c]
  <2>1. CASE UNCHANGED vars BY <1>1, <2>1 DEF vars, clients
  <2>2. CASE Next
    <3>1. ASSUME NEW r \in Runs, RunStep(r) PROVE FALSE
      <4>1. last' = last BY <1>1, <3>1, RunStepStep DEF clients
      <4> QED BY <1>1, <4>1
    <3>2. ASSUME NEW o \in Clients, Connect(o) \/ EndRound(o) \/ Disconnect(o) \/ Poll(o) PROVE FALSE
      <4>1. last' = last BY <3>2 DEF Connect, EndRound, Disconnect, Poll, clients
      <4> QED BY <1>1, <4>1
    <3>3. ASSUME NEW o \in Clients, Send(o) PROVE last'[c] > last[c]
      <4>1. ClientTypes BY <1>1 DEF IInv
      <4>2. \A x \in Clients \ {o} : last'[x] = last[x] BY <3>3, <4>1, SendLeavesOthers
      <4>3. o = c BY <1>1, <4>2
      <4> QED BY <1>1, <3>3, <4>3, SendStep
    <3>4. ASSUME NEW o \in Clients, PollFails(o) PROVE last'[c] > last[c]
      <4>1. o = c BY <1>1, <3>4, PollFailsStep
      <4> QED BY <1>1, <3>4, <4>1, PollFailsStep
    <3>5. CASE Crash
      <4>1. last' = last BY <3>5 DEF Crash, clients
      <4> QED BY <1>1, <4>1
    <3> QED BY <2>2, <3>1, <3>2, <3>3, <3>4, <3>5 DEF Next, Serve
  <2> QED BY <1>1, <2>1, <2>2
<1>2. IInv /\ [Next]_vars => [\A c \in Clients : last'[c] # last[c] => last'[c] > last[c]]_vars
  BY <1>1
<1> QED BY <1>2, StreamInvariant, PTL DEF Spec, IdsIncrease

(* A terminal event that is sent tells the outcome that the record had     *)
(* when the round began (_stream_event_matches_current_run).  A run that   *)
(* its client retried must not fail before its next attempt starts: the    *)
(* event of such a failure has the key of the one before, which is then    *)
(* told in its place (the README lists this under Findings).               *)
THEOREM ToldOutcomesAreCurrent ==
  ASSUME EarlyFailures = FALSE
  PROVE  Spec => OutcomeIsCurrent
<1>1. ASSUME IInv, [Next]_vars, NEW c \in Clients
      PROVE  told'[c] \ told[c] \subseteq {conn[c].seen.outcome, 0}
  <2>1. CASE UNCHANGED vars BY <2>1 DEF vars, clients
  <2>2. CASE Next
    <3>1. ASSUME NEW r \in Runs, RunStep(r) PROVE told' = told
      BY <1>1, <3>1, RunStepStep DEF clients
    <3>2. ASSUME NEW o \in Clients, Connect(o) \/ EndRound(o) \/ Disconnect(o) \/ Poll(o) \/ PollFails(o)
          PROVE told' = told
      BY <3>2 DEF Connect, EndRound, Disconnect, Poll, PollFails, clients
    <3>3. ASSUME NEW o \in Clients, Send(o) PROVE told'[c] \ told[c] \subseteq {conn[c].seen.outcome, 0}
      <4>1. ClientTypes /\ ConnInv(c) BY <1>1 DEF IInv
      <4>2. CASE o # c
        <5>1. told'[c] = told[c] BY <3>3, <4>1, <4>2, SendEffect
        <5> QED BY <5>1
      <4>3. CASE o = c
        <5>1. /\ 1 \in 1 .. Len(conn[c].queue)
              /\ told'[c] = IF Terminal(conn[c].queue[1].what)
                            THEN told[c] \cup {conn[c].queue[1].what.item} ELSE told[c]
          BY <3>3, <4>1, <4>3, SendEffect
        <5>2. Terminal(conn[c].queue[1].what) => conn[c].queue[1].what.item \in {conn[c].seen.outcome, 0}
          BY <4>1, <5>1 DEF ConnInv
        <5> QED BY <5>1, <5>2
      <4> QED BY <4>2, <4>3
    <3>4. CASE Crash
      <4>1. told' = told BY <3>4 DEF Crash, clients
      <4> QED BY <4>1
    <3> QED BY <2>2, <3>1, <3>2, <3>3, <3>4 DEF Next, Serve
  <2> QED BY <1>1, <2>1, <2>2
<1>2. IInv /\ [Next]_vars =>
        [\A c \in Clients : told'[c] \ told[c] \subseteq {conn[c].seen.outcome, 0}]_vars
  BY <1>1
<1> QED BY <1>2, StreamInvariant, PTL DEF Spec, OutcomeIsCurrent

-----------------------------------------------------------------------------
(* The text of a client, as long as nothing was dropped from the logs: no   *)
(* crash, and room in them, which once used up does not come back.          *)

Lossless == budget.crashes = 0 /\ Room

(* The log holds a piece of an answer up to an id.                          *)
Received(entries, upTo, attempt, piece) ==
  \E i \in 1 .. Len(entries) :
    /\ entries[i].id <= upTo
    /\ entries[i].what.event = "answer.delta"
    /\ entries[i].what.attempt = attempt /\ entries[i].what.item = piece

Holds(entries, entry) == \E i \in 1 .. Len(entries) : entries[i] = entry

(* What is queued for a client, and what it has received of each answer, is *)
(* in the log, in its order.                                                *)
ReadInv(c) ==
  /\ \A i \in 1 .. Len(conn[c].queue) : Holds(log[RunOf[c]], conn[c].queue[i])
  /\ \A a \in 0 .. MaxAttempts :
       /\ \A i \in 1 .. Len(text[c][a]) : Received(log[RunOf[c]], last[c], a, text[c][a][i])
       /\ \A i, j \in 1 .. Len(text[c][a]) : i < j => text[c][a][i] < text[c][a][j]

(* Crashes apart, room is only used up. *)
LEMMA LosslessBefore ==
  ASSUME GoesOn, Lossless', budget'.crashes = budget.crashes
  PROVE  Lossless /\ \A r \in Runs : Keeps(r)
BY DEF Lossless, GoesOn

(* What a client has received stays in a log that keeps its events.        *)
LEMMA ReadKeeps ==
  ASSUME LogsOK, ClientTypes, NEW c \in Clients, ReadInv(c), Keeps(RunOf[c]),
         conn'[c].queue = conn[c].queue \/ conn'[c].queue = <<>>,
         text'[c] = text[c], last'[c] \in Nat, last'[c] >= last[c]
  PROVE  ReadInv(c)'
<1>1. PICK r \in Runs : r = RunOf[c] BY RunOfAssumption
<1>2. \A entry : Holds(log[r], entry) => Holds(log'[r], entry) BY <1>1 DEF Holds, Keeps
<1>3. ASSUME NEW a, NEW piece, Received(log[r], last[c], a, piece)
      PROVE Received(log'[r], last'[c], a, piece)
  <2>1. PICK j \in 1 .. Len(log[r]) :
          /\ log[r][j].id <= last[c]
          /\ log[r][j].what.event = "answer.delta"
          /\ log[r][j].what.attempt = a /\ log[r][j].what.item = piece
    BY <1>1, <1>3 DEF Received
  <2>2. PICK i \in 1 .. Len(log'[r]) : log'[r][i] = log[r][j] BY <1>1 DEF Keeps
  <2>3. log[r][j].id \in Nat /\ last[c] \in Nat BY EntriesTyped DEF ClientTypes
  <2>4. log'[r][i].id <= last'[c] BY <2>1, <2>2, <2>3
  <2> QED BY <1>1, <2>1, <2>2, <2>4 DEF Received
<1>4. Len(<<>>) = 0 OBVIOUS
<1>5. \A i \in 1 .. Len(conn'[c].queue) : Holds(log'[r], conn'[c].queue[i])
  <2>1. CASE conn'[c].queue = <<>> BY <1>4, <2>1
  <2>2. CASE conn'[c].queue = conn[c].queue BY <1>1, <1>2, <2>2 DEF ReadInv
  <2> QED BY <2>1, <2>2
<1>6. ASSUME NEW a \in 0 .. MaxAttempts
      PROVE  /\ \A i \in 1 .. Len(text'[c][a]) : Received(log'[r], last'[c], a, text'[c][a][i])
             /\ \A i, j \in 1 .. Len(text'[c][a]) : i < j => text'[c][a][i] < text'[c][a][j]
  BY <1>1, <1>3 DEF ReadInv
<1> QED BY <1>1, <1>5, <1>6 DEF ReadInv

(* What a round queues is in the log.                                      *)
LEMMA PollReads ==
  ASSUME IInv, NEW c \in Clients, Poll(c), ReadInv(c), Keeps(RunOf[c])
  PROVE  ReadInv(c)'
<1>1. PICK r \in Runs : r = RunOf[c] BY RunOfAssumption
<1>2. ClientTypes /\ RunInv /\ LogsOK BY DEF IInv, RunInv
<1>3. LogsOK' BY PollStep DEF Forward, RunInv
<1> DEFINE places == {i \in 1 .. Len(log'[r]) : /\ log'[r][i].id > conn[c].cursor
                                                /\ Matches(log'[r][i].what, run[r])}
<1>4. UNCHANGED clients /\ Lists(conn'[c].queue, log'[r], places)
  BY <1>1, <1>2, <1>3, PollEffect DEF RunInv
<1>5. last' = last /\ text' = text BY <1>4 DEF clients
<1>6. \A i \in 1 .. Len(conn'[c].queue) : \E k \in 1 .. Len(log'[r]) : log'[r][k] = conn'[c].queue[i]
  BY <1>4 DEF Lists
<1>7. ASSUME NEW a, NEW piece, Received(log[r], last[c], a, piece)
      PROVE Received(log'[r], last'[c], a, piece)
  <2>1. PICK j \in 1 .. Len(log[r]) :
          /\ log[r][j].id <= last[c]
          /\ log[r][j].what.event = "answer.delta"
          /\ log[r][j].what.attempt = a /\ log[r][j].what.item = piece
    BY <1>1, <1>7 DEF Received
  <2>2. PICK i \in 1 .. Len(log'[r]) : log'[r][i] = log[r][j] BY <1>1 DEF Keeps
  <2> QED BY <1>1, <1>5, <2>1, <2>2 DEF Received
<1>8. ASSUME NEW a \in 0 .. MaxAttempts
      PROVE  /\ \A i \in 1 .. Len(text'[c][a]) : Received(log'[r], last'[c], a, text'[c][a][i])
             /\ \A i, j \in 1 .. Len(text'[c][a]) : i < j => text'[c][a][i] < text'[c][a][j]
  BY <1>1, <1>5, <1>7 DEF ReadInv
<1> QED BY <1>1, <1>6, <1>8 DEF ReadInv, Holds

(* A piece that is sent comes after all pieces of its attempt that the     *)
(* client has: those are earlier in the log.                               *)
LEMMA SendReads ==
  ASSUME IInv, NEW c \in Clients, Send(c), ReadInv(c)
  PROVE  ReadInv(c)'
<1>1. PICK r \in Runs : r = RunOf[c] BY RunOfAssumption
<1>2. ClientTypes /\ RunInv /\ LogsOK /\ ConnInv(c) /\ LogInv(r) BY DEF IInv, RunInv
<1>3. /\ ClientTypes' /\ UNCHANGED <<run, buffer, budget>>
      /\ 1 \in 1 .. Len(conn[c].queue) /\ last'[c] = conn[c].queue[1].id
      /\ \A i \in 1 .. Len(conn'[c].queue) :
              i + 1 \in 1 .. Len(conn[c].queue) /\ conn'[c].queue[i] = conn[c].queue[i + 1]
      /\ text'[c] = IF conn[c].queue[1].what.event = "answer.delta"
                       THEN [text[c] EXCEPT ![conn[c].queue[1].what.attempt] =
                               Append(@, conn[c].queue[1].what.item)]
                       ELSE text[c]
  BY <1>2, SendEffect
<1>4. log' = log BY <1>3 DEF buffer
<1>5. PICK k \in 1 .. Len(log[r]) : log[r][k] = conn[c].queue[1] BY <1>1, <1>3 DEF ReadInv, Holds
<1>6. PICK h \in Event : h = log[r][k] BY <1>2, EntriesTyped
<1>7. h.id \in Nat /\ h.what.item \in Nat /\ last[c] \in Nat /\ last'[c] = h.id /\ last[c] < h.id
  BY <1>2, <1>3, <1>5, <1>6 DEF Event, Draft, ClientTypes, ConnInv
<1>8. \A i \in 1 .. Len(conn'[c].queue) : Holds(log'[r], conn'[c].queue[i])
  <2>1. \A i \in 1 .. Len(conn[c].queue) : Holds(log[r], conn[c].queue[i]) BY <1>1 DEF ReadInv
  <2> QED BY <1>3, <1>4, <2>1
<1>9. ASSUME NEW a, NEW piece, Received(log[r], last[c], a, piece)
      PROVE Received(log'[r], last'[c], a, piece)
  <2>1. PICK j \in 1 .. Len(log[r]) :
          /\ log[r][j].id <= last[c]
          /\ log[r][j].what.event = "answer.delta"
          /\ log[r][j].what.attempt = a /\ log[r][j].what.item = piece
    BY <1>1, <1>9 DEF Received
  <2>2. log[r][j].id \in Nat BY <1>2, EntriesTyped
  <2>3. log'[r][j].id <= last'[c] BY <1>4, <1>7, <2>1, <2>2
  <2> QED BY <1>1, <1>4, <2>1, <2>3 DEF Received
<1>10. ASSUME NEW a \in 0 .. MaxAttempts
       PROVE  /\ \A i \in 1 .. Len(text'[c][a]) : Received(log'[r], last'[c], a, text'[c][a][i])
              /\ \A i, j \in 1 .. Len(text'[c][a]) : i < j => text'[c][a][i] < text'[c][a][j]
  <2>1. PICK t \in Seq(Nat) : t = text[c][a] BY <1>2 DEF ClientTypes
  <2>2. /\ \A i \in 1 .. Len(t) : Received(log[r], last[c], a, t[i]) /\ Received(log'[r], last'[c], a, t[i])
        /\ \A i, j \in 1 .. Len(t) : i < j => t[i] < t[j]
    BY <1>1, <1>9, <2>1 DEF ReadInv
  <2>3. CASE h.what.event = "answer.delta" /\ h.what.attempt = a
    <3>1. PICK n \in Seq(Nat) : n = Append(t, h.what.item) BY <1>7, AppendProperties
    <3>2. text'[c][a] = n
      <4>1. text[c] \in [0 .. MaxAttempts -> Seq(Nat)] BY <1>2 DEF ClientTypes
      <4> QED BY <1>3, <1>5, <1>6, <2>1, <2>3, <3>1, <4>1
    <3>3. /\ Len(t) \in Nat /\ Len(n) = Len(t) + 1 /\ n[Len(t) + 1] = h.what.item
          /\ \A i \in 1 .. Len(t) : n[i] = t[i]
      BY <1>7, <3>1, AppendProperties, LenProperties
    <3>4. Received(log'[r], last'[c], a, h.what.item)
      <4>1. log'[r][k].id <= last'[c] BY <1>4, <1>6, <1>7
      <4> QED BY <1>1, <1>4, <1>6, <2>3, <4>1 DEF Received
    <3>5. ASSUME NEW i \in 1 .. Len(t) PROVE t[i] < h.what.item
      <4>1. PICK j \in 1 .. Len(log[r]) :
              /\ log[r][j].id <= last[c]
              /\ log[r][j].what.event = "answer.delta"
              /\ log[r][j].what.attempt = a /\ log[r][j].what.item = t[i]
        BY <1>1, <2>2 DEF Received
      <4>2. log[r][j].id \in Nat /\ log[r][j].id < log[r][k].id
        <5>1. log[r][j].id \in Nat BY <1>2, EntriesTyped
        <5>2. log[r][k].id = h.id BY <1>6
        <5>3. PICK x \in Nat : x = log[r][j].id BY <5>1
        <5>4. x <= last[c] /\ last[c] < h.id /\ last[c] \in Nat /\ h.id \in Nat BY <1>7, <4>1, <5>3
        <5>5. x < h.id BY <5>4
        <5> QED BY <5>1, <5>2, <5>3, <5>5
      <4>3. j < k
        <5>1. log[r][k].id \in Nat BY <1>6, <1>7
        <5>2. j # k BY <4>2, <5>1
        <5>3. ~(k < j)
          <6>1. SUFFICES ASSUME k < j PROVE FALSE OBVIOUS
          <6>2. log[r][k].id < log[r][j].id BY <1>2, <6>1 DEF LogInv
          <6>3. PICK x \in Nat, y \in Nat : x = log[r][j].id /\ y = log[r][k].id BY <4>2, <5>1
          <6>4. x < y /\ y < x BY <4>2, <6>2, <6>3
          <6> QED BY <6>4
        <5> QED BY <5>2, <5>3
      <4>4. Precedes(log[r][j].what, log[r][k].what) BY <1>2, <4>3 DEF LogInv
      <4> QED BY <1>6, <2>3, <4>1, <4>4 DEF Precedes
    <3>6. \A i \in 1 .. Len(n) : i \in 1 .. Len(t) \/ i = Len(t) + 1 BY <3>3
    <3>7. \A i \in 1 .. Len(n) : Received(log'[r], last'[c], a, n[i]) BY <2>2, <3>3, <3>4, <3>6
    <3>8. ASSUME NEW i \in 1 .. Len(n), NEW j \in 1 .. Len(n), i < j PROVE n[i] < n[j]
      <4>1. i \in 1 .. Len(t) BY <3>3, <3>8
      <4>2. CASE j \in 1 .. Len(t) BY <2>2, <3>3, <3>8, <4>1, <4>2
      <4>3. CASE j = Len(t) + 1 BY <3>3, <3>5, <4>1, <4>3
      <4> QED BY <3>6, <4>2, <4>3
    <3> QED BY <3>2, <3>7, <3>8
  <2>4. CASE ~(h.what.event = "answer.delta" /\ h.what.attempt = a)
    <3>1. text'[c][a] = t
      <4>1. text[c] \in [0 .. MaxAttempts -> Seq(Nat)] BY <1>2 DEF ClientTypes
      <4> QED BY <1>3, <1>5, <1>6, <2>1, <2>4, <4>1
    <3> QED BY <2>2, <3>1
  <2> QED BY <2>3, <2>4
<1> QED BY <1>1, <1>8, <1>10 DEF ReadInv

(* Every step keeps it, as long as nothing is dropped.                     *)
LEMMA StepKeepsReading ==
  ASSUME IInv, Next, Lossless', Lossless => \A c \in Clients : ReadInv(c)
  PROVE  \A c \in Clients : ReadInv(c)'
<1>1. ClientTypes /\ RunInv /\ LogsOK BY DEF IInv, RunInv
<1>2. ASSUME GoesOn, budget'.crashes = budget.crashes, NEW c \in Clients,
             conn'[c].queue = conn[c].queue \/ conn'[c].queue = <<>>,
             text'[c] = text[c], last'[c] \in Nat, last'[c] >= last[c]
      PROVE  ReadInv(c)'
  <2>1. ReadInv(c) /\ Keeps(RunOf[c]) BY <1>2, LosslessBefore, RunOfAssumption
  <2> QED BY <1>1, <1>2, <2>1, ReadKeeps
<1>3. \A c \in Clients : last[c] \in Nat /\ last[c] >= last[c] BY <1>1 DEF ClientTypes
<1>4. ASSUME NEW r \in Runs, RunStep(r) PROVE \A c \in Clients : ReadInv(c)'
  BY <1>2, <1>3, <1>4, RunStepStep DEF clients
<1>5. ASSUME NEW o \in Clients, Connect(o) \/ EndRound(o) \/ Disconnect(o)
      PROVE \A c \in Clients : ReadInv(c)'
  <2>1. UNCHANGED clients /\ \E new : conn' = [conn EXCEPT ![o] = new] /\ new.queue \in {conn[o].queue, <<>>}
    <3>1. CASE Connect(o)
      <4>1. PICK reset : reset <=> last[o] > 0 /\ log[RunOf[o]] = <<>> OBVIOUS
      <4>2. PICK new : new = [NoConnection EXCEPT !.step = "opened",
                                !.replay = ~(last[o] > 0 /\ log[RunOf[o]] = <<>>),
                                !.cursor = IF last[o] > 0 /\ log[RunOf[o]] = <<>> THEN 0 ELSE ResumeAfter(o)]
        OBVIOUS
      <4>3. new.queue = <<>> BY <4>2, NoConnectionTyped DEF NoConnection
      <4> QED BY <3>1, <4>2, <4>3 DEF Connect
    <3>2. CASE EndRound(o)
      <4>1. PICK step : conn' = [conn EXCEPT ![o].step = step] BY <3>2 DEF EndRound
      <4>2. PICK old \in Connection : old = conn[o] BY <1>1 DEF ClientTypes
      <4>3. PICK new : new = [old EXCEPT !.step = step] OBVIOUS
      <4>4. conn' = [conn EXCEPT ![o] = new] /\ new.queue = old.queue BY <4>1, <4>2, <4>3 DEF Connection
      <4>5. UNCHANGED clients BY <3>2 DEF EndRound
      <4> QED BY <4>2, <4>4, <4>5
    <3>3. CASE Disconnect(o) BY <3>3, NoConnectionTyped DEF Disconnect
    <3> QED BY <1>5, <3>1, <3>2, <3>3
  <2>2. \A c \in Clients : conn'[c].queue = conn[c].queue \/ conn'[c].queue = <<>>
    BY <1>1, <2>1 DEF ClientTypes
  <2>3. budget'.crashes = budget.crashes BY <1>1, <1>5 DEF Connect, EndRound, Disconnect, ClientTypes
  <2>4. GoesOn BY <1>5, ConnectStep, EndRoundStep, DisconnectStep
  <2> QED BY <1>2, <1>3, <2>1, <2>2, <2>3, <2>4 DEF clients
<1>6. ASSUME NEW o \in Clients, Poll(o) PROVE \A c \in Clients : ReadInv(c)'
  <2>1. GoesOn /\ UNCHANGED budget /\ UNCHANGED clients BY <1>6, PollStep DEF Poll
  <2>2. ReadInv(o) /\ Keeps(RunOf[o]) BY <2>1, LosslessBefore, RunOfAssumption
  <2>3. ReadInv(o)' BY <1>6, <2>2, PollReads
  <2>4. \A c \in Clients \ {o} : conn'[c] = conn[c]
    <3>1. LogsOK' BY <1>6, PollStep DEF Forward, RunInv
    <3>2. PICK r \in Runs : r = RunOf[o] BY RunOfAssumption
    <3> QED BY <1>1, <1>6, <3>1, <3>2, PollEffect DEF RunInv
  <2>5. \A c \in Clients \ {o} : ReadInv(c)' BY <1>2, <1>3, <2>1, <2>4 DEF clients
  <2> QED BY <2>3, <2>5
<1>7. ASSUME NEW o \in Clients, PollFails(o) PROVE \A c \in Clients : ReadInv(c)'
  <2>1. /\ IInv' /\ GoesOn /\ (last'[o] # last[o] => last'[o] > last[o])
        /\ \A c \in Clients \ {o} : last'[c] = last[c]
    BY <1>7, PollFailsStep
  <2>2. conn' = [conn EXCEPT ![o] = NoConnection] /\ text' = text
        /\ budget' = [budget EXCEPT !.faults = @ + 1]
    BY <1>7 DEF PollFails
  <2>3. budget'.crashes = budget.crashes BY <1>1, <2>2 DEF ClientTypes
  <2>4. \A c \in Clients : last'[c] \in Nat BY <2>1 DEF IInv, ClientTypes
  <2>5. \A c \in Clients : last'[c] >= last[c] BY <1>3, <2>1, <2>4
  <2>6. \A c \in Clients : conn'[c].queue = conn[c].queue \/ conn'[c].queue = <<>>
    BY <1>1, <2>2, NoConnectionTyped DEF ClientTypes
  <2> QED BY <1>2, <2>1, <2>2, <2>3, <2>4, <2>5, <2>6
<1>8. ASSUME NEW o \in Clients, Send(o) PROVE \A c \in Clients : ReadInv(c)'
  <2>1. GoesOn BY <1>8, SendStep
  <2>2. UNCHANGED budget /\ \A c \in Clients \ {o} : /\ conn'[c] = conn[c] /\ last'[c] = last[c]
                                                     /\ text'[c] = text[c]
    BY <1>1, <1>8, SendLeavesOthers
  <2>3. ReadInv(o) BY <2>1, <2>2, LosslessBefore
  <2>4. ReadInv(o)' BY <1>8, <2>3, SendReads
  <2>5. \A c \in Clients \ {o} : ReadInv(c)' BY <1>2, <1>3, <2>1, <2>2
  <2> QED BY <2>4, <2>5
<1>9. ~Crash BY CrashStep DEF Lossless
<1> QED BY <1>4, <1>5, <1>6, <1>7, <1>8, <1>9 DEF Next, Serve

(* As long as nothing was dropped from the logs, what a client has of an   *)
(* answer is in the log, in order.                                         *)
THEOREM ReadingInvariant == Spec => [](Lossless => \A c \in Clients : ReadInv(c))
<1> DEFINE Reads == Lossless => \A c \in Clients : ReadInv(c)
<1>1. Init => Reads
  <2>1. ASSUME Init, NEW c \in Clients PROVE ReadInv(c)
    <3>1. conn[c].queue = <<>> /\ text[c] = [attempt \in 0 .. MaxAttempts |-> <<>>]
      BY <2>1, NoConnectionTyped DEF Init
    <3>2. Len(<<>>) = 0 OBVIOUS
    <3> QED BY <3>1, <3>2 DEF ReadInv
  <2> QED BY <2>1
<1>2. IInv /\ Reads /\ [Next]_vars => Reads'
  <2>1. ASSUME IInv, Reads, UNCHANGED vars PROVE Reads'
    <3>1. UNCHANGED <<run, log, kept, nextId, conn, last, text, told, budget>>
      BY <2>1 DEF vars, buffer, clients
    <3>2. Lossless' <=> Lossless BY <3>1 DEF Lossless, Room
    <3>3. \A c \in Clients : ReadInv(c)' <=> ReadInv(c) BY <3>1 DEF ReadInv
    <3> QED BY <2>1, <3>2, <3>3
  <2>2. ASSUME IInv, Reads, Next PROVE Reads' BY <2>2, StepKeepsReading
  <2> QED BY <2>1, <2>2
<1> QED BY <1>1, <1>2, StreamInvariant, PTL DEF Spec

(* A client that appends what it receives and resumes from the last id     *)
(* never appends a piece twice or out of order: what was streamed live and *)
(* what _materialize_agent_run_stream_events adds make up one answer.  The *)
(* hypothesis is that no log was lost, trimmed or evicted; after such a    *)
(* loss the projection publishes the whole answer again, as the README     *)
(* says under Findings.                                                    *)
THEOREM TextIsNeverRepeated == Spec => [](Lossless => NoPieceTwice)
<1>1. IInv /\ (Lossless => \A c \in Clients : ReadInv(c)) => (Lossless => NoPieceTwice)
  <2>1. ASSUME IInv, NEW c \in Clients, ReadInv(c), NEW a \in 0 .. MaxAttempts,
               NEW i \in DOMAIN text[c][a], NEW j \in DOMAIN text[c][a], i < j
        PROVE  text[c][a][i] < text[c][a][j]
    <3>1. PICK t \in Seq(Nat) : t = text[c][a] BY <2>1 DEF IInv, ClientTypes
    <3>2. DOMAIN t = 1 .. Len(t) BY LenProperties
    <3> QED BY <2>1, <3>1, <3>2 DEF ReadInv
  <2> QED BY <2>1 DEF NoPieceTwice
<1> QED BY <1>1, StreamInvariant, ReadingInvariant, PTL

-----------------------------------------------------------------------------
(* The outcomes a client was told, as long as nothing is dropped and every  *)
(* read of the state file succeeds.                                         *)

Quiet == Lossless /\ budget.faults = 0

Outcome(entry) == entry.what.item

(* The terminal events up to a place were told, or tell what the run has    *)
(* come past.                                                               *)
PastTold(entries, upTo, tells, stage) ==
  \A i \in 1 .. Len(entries) :
    Terminal(entries[i].what) /\ entries[i].id <= upTo =>
      Outcome(entries[i]) \in tells \/ 2 * Outcome(entries[i]) < stage

PastOrQueued(entries, upTo, tells, queue, stage) ==
  \A i \in 1 .. Len(entries) :
    Terminal(entries[i].what) /\ entries[i].id <= upTo =>
      \/ Outcome(entries[i]) \in tells \/ 2 * Outcome(entries[i]) < stage
      \/ Holds(queue, entries[i])

OutcomeIn(entries, upTo, outcome) ==
  \E i \in 1 .. Len(entries) :
    Terminal(entries[i].what) /\ entries[i].id <= upTo /\ Outcome(entries[i]) = outcome

(* What a client was told of the outcomes that its connection has passed,   *)
(* by the step the connection is at.                                        *)
ToldInv(c) ==
  LET entries == log[RunOf[c]]
      stage   == Stage(run[RunOf[c]])
      seen    == conn[c].seen
  IN /\ PastTold(entries, last[c], told[c], stage)
     /\ conn[c].step = "opened" => PastTold(entries, conn[c].cursor, told[c], stage)
     /\ conn[c].step = "sending" =>
          /\ PastOrQueued(entries, conn[c].cursor, told[c], conn[c].queue, Stage(seen))
          /\ Stage(seen) <= stage
          /\ conn[c].emitted => seen.outcome \in told[c]
          /\ seen.status \in Settled => OutcomeIn(entries, conn[c].cursor, seen.outcome)
     /\ conn[c].step = "ended" => seen.outcome \in told[c]

(* Stages are numbers.                                                     *)
LEMMA StagesAreNumbers ==
  ASSUME NEW rec \in Record
  PROVE  Stage(rec) \in Nat /\ (rec.status \in Settled => Stage(rec) = 2 * rec.outcome)
         /\ (rec.status \notin Settled => Stage(rec) = 2 * rec.outcome + 1)
BY DEF Stage, Record

(* Up to an id that was given before, a log that goes on holds nothing new. *)
LEMMA NothingNewBefore ==
  ASSUME LogsOK, LogsOK', NEW r \in Runs, Later(r), NEW upTo \in Nat, upTo < nextId,
         NEW i \in 1 .. Len(log'[r]), log'[r][i].id <= upTo
  PROVE  \E j \in 1 .. Len(log[r]) : log'[r][i] = log[r][j]
<1>1. PICK s \in Seq(Event) : s = log'[r] BY DEF LogsOK
<1>2. s[i] \in Event BY <1>1, LenProperties
<1>3. s[i].id \in Nat BY <1>2 DEF Event
<1>4. ~(s[i].id >= nextId) BY <1>1, <1>3 DEF LogsOK
<1> QED BY <1>1, <1>4 DEF Later

(* What was told, or come past, up to an id stays so while the log goes    *)
(* on.                                                                     *)
LEMMA PastToldKeeps ==
  ASSUME LogsOK, LogsOK', NEW r \in Runs, Later(r), NEW upTo \in Nat, upTo < nextId, NEW tells,
         NEW s \in Nat, NEW t \in Nat, s <= t, PastTold(log[r], upTo, tells, s)
  PROVE  PastTold(log'[r], upTo, tells, t)
<1>1. ASSUME NEW i \in 1 .. Len(log'[r]), Terminal(log'[r][i].what), log'[r][i].id <= upTo
      PROVE  Outcome(log'[r][i]) \in tells \/ 2 * Outcome(log'[r][i]) < t
  <2>1. PICK j \in 1 .. Len(log[r]) : log'[r][i] = log[r][j] BY <1>1, NothingNewBefore
  <2>2. Outcome(log[r][j]) \in tells \/ 2 * Outcome(log[r][j]) < s BY <1>1, <2>1 DEF PastTold
  <2>3. Outcome(log[r][j]) \in Nat
    <3>1. log[r][j] \in Event BY EntriesTyped
    <3> QED BY <3>1 DEF Outcome, Event, Draft
  <2> QED BY <2>1, <2>2, <2>3
<1> QED BY <1>1 DEF PastTold

(* A step that leaves a connection alone keeps what its client was told,   *)
(* and what it has yet to be told.                                         *)
LEMMA ToldKeeps ==
  ASSUME IInv, NEW c \in Clients, ToldInv(c), Forward, GoesOn, Keeps(RunOf[c]),
         conn'[c] = conn[c], last'[c] = last[c], told'[c] = told[c]
  PROVE  ToldInv(c)'
<1>1. PICK r \in Runs : r = RunOf[c] BY RunOfAssumption
<1>2. ClientTypes /\ RunInv /\ LogsOK /\ LogsOK' /\ ConnInv(c) /\ Later(r)
  BY <1>1 DEF IInv, RunInv, Forward, GoesOn
<1>3. last[c] \in Nat /\ conn[c].cursor \in Nat /\ last[c] < nextId /\ conn[c].cursor < nextId
      /\ conn[c].seen \in Record
  BY <1>2, ClientFields DEF ConnInv
<1>4. PICK s \in Nat, t \in Nat, v \in Nat :
        s = Stage(run[r]) /\ t = Stage(run'[r]) /\ s <= t /\ v = Stage(conn[c].seen)
  <2>1. run[r] \in Record /\ run'[r] \in Record BY <1>2 DEF RunInv, Forward
  <2>2. Stage(run[r]) <= Stage(run'[r]) BY DEF Forward
  <2> QED BY <1>3, <2>1, <2>2, StagesAreNumbers
<1>5. PICK tells : tells = told[c] OBVIOUS
<1>6. PastTold(log'[r], last[c], tells, t)
  BY <1>1, <1>2, <1>3, <1>4, <1>5, PastToldKeeps DEF ToldInv
<1>7. conn[c].step = "opened" => PastTold(log'[r], conn[c].cursor, tells, t)
  BY <1>1, <1>2, <1>3, <1>4, <1>5, PastToldKeeps DEF ToldInv
<1>8. ASSUME conn[c].step = "sending"
      PROVE  /\ PastOrQueued(log'[r], conn[c].cursor, tells, conn[c].queue, v)
             /\ v <= t
             /\ conn[c].emitted => conn[c].seen.outcome \in tells
             /\ conn[c].seen.status \in Settled => OutcomeIn(log'[r], conn[c].cursor, conn[c].seen.outcome)
  <2>1. /\ PastOrQueued(log[r], conn[c].cursor, tells, conn[c].queue, v)
        /\ v <= s
        /\ conn[c].emitted => conn[c].seen.outcome \in tells
        /\ conn[c].seen.status \in Settled => OutcomeIn(log[r], conn[c].cursor, conn[c].seen.outcome)
    BY <1>1, <1>4, <1>5, <1>8 DEF ToldInv
  <2>2. PastOrQueued(log'[r], conn[c].cursor, tells, conn[c].queue, v)
    <3>1. ASSUME NEW i \in 1 .. Len(log'[r]), log'[r][i].id <= conn[c].cursor
          PROVE  \E j \in 1 .. Len(log[r]) : log'[r][i] = log[r][j]
      BY <1>2, <1>3, <3>1, NothingNewBefore
    <3> QED BY <2>1, <3>1 DEF PastOrQueued
  <2>3. conn[c].seen.status \in Settled => OutcomeIn(log'[r], conn[c].cursor, conn[c].seen.outcome)
    BY <1>1, <2>1 DEF OutcomeIn, Keeps
  <2> QED BY <1>4, <2>1, <2>2, <2>3
<1>9. conn[c].step = "ended" => conn[c].seen.outcome \in tells BY <1>5 DEF ToldInv
<1> QED BY <1>1, <1>4, <1>5, <1>6, <1>7, <1>8, <1>9 DEF ToldInv

(* Only a superseded outcome does not match the record. *)
LEMMA HiddenIsSuperseded ==
  ASSUME NEW rec \in Record, NEW d \in Draft, Sound(d, rec), d # Unavailable, Terminal(d), ~Matches(d, rec)
  PROVE  2 * d.item < Stage(rec)
<1>1. d.key.of \in Settled /\ d.event = TerminalEvent(d.key.of) /\ OutcomeSound(d, rec)
  BY SoundByEvent DEF Terminal
<1>2. d.item \in Nat /\ rec.outcome \in Nat /\ d.item <= rec.outcome
  BY <1>1 DEF OutcomeSound, Draft, Record
<1>3. ~(rec.status \in Settled /\ d.item = rec.outcome)
  <2>1. SUFFICES ASSUME rec.status \in Settled, d.item = rec.outcome PROVE FALSE OBVIOUS
  <2>2. d.attempt = rec.attempt /\ d.key.of = rec.status BY <1>1, <2>1 DEF OutcomeSound
  <2> QED BY <1>1, <2>1, <2>2 DEF Matches
<1>4. CASE rec.status \in Settled
  <2>1. d.item < rec.outcome BY <1>2, <1>3, <1>4
  <2> QED BY <1>2, <1>4, <2>1, StagesAreNumbers
<1>5. CASE rec.status \notin Settled BY <1>2, <1>5, StagesAreNumbers
<1> QED BY <1>4, <1>5

(* The outcome of a settled run is in its log once a poll has read it. *)
LEMMA OutcomeIsPublished ==
  ASSUME RunInv, NEW r \in Runs, run[r].status \in Settled, EarlyFailures = FALSE,
         NEW deltas \in Seq(Draft), Publish(r, deltas, Projection(run[r])), Keeps(r)
  PROVE  \E i \in 1 .. Len(log'[r]) : Terminal(log'[r][i].what) /\ Outcome(log'[r][i]) = run[r].outcome
<1>1. PICK rec \in Record : rec = run[r] BY DEF RunInv
<1>2. RecordInv(rec) /\ LogsOK /\ LogInv(r) BY <1>1 DEF RunInv
<1>3. rec.status \notin Unfinished /\ rec.status # "absent" BY <1>1 DEF Unfinished, Settled
<1>4. PICK d \in Draft : d = TerminalDraft(rec) /\ d = Projection(rec)
  BY <1>1, <1>3, DraftsTyped DEF Projection
<1>5. /\ d.event = TerminalEvent(rec.status) /\ d.item = rec.outcome
      /\ d.key.of = rec.status /\ d.key.attempt = rec.attempt
      /\ rec.status = "waiting_input" => d.key.item = rec.outcome
  BY <1>4 DEF TerminalDraft, TerminalKey
<1>6. Terminal(d) BY <1>1, <1>5 DEF Terminal, TerminalEvent, Settled
<1>7. CASE ~IsKept(log[r], d)
  <2>1. PICK i \in 1 .. Len(log'[r]) : log'[r][i].what = d BY <1>1, <1>2, <1>4, <1>7, DraftIsThere
  <2> QED BY <1>1, <1>5, <1>6, <2>1 DEF Outcome
<1>8. CASE IsKept(log[r], d)
  <2>1. PICK j \in 1 .. Len(log[r]) : log[r][j].what.key = d.key BY <1>2, <1>8, EntriesTyped DEF IsKept
  <2>2. PICK e \in Draft : e = log[r][j].what /\ Sound(e, rec) /\ e.key = d.key
    BY <1>1, <1>2, <2>1, EntriesTyped DEF LogInv
  <2>3. e.key.of \in Settled /\ e.event = TerminalEvent(e.key.of) /\ OutcomeSound(e, rec)
    <3>1. e.key.of \in Settled BY <1>1, <1>5, <2>2
    <3> QED BY <2>2, <3>1, SoundByKey
  <2>4. e.attempt = rec.attempt /\ e.key.of = rec.status BY <1>5, <2>2, <2>3 DEF OutcomeSound
  <2>5. e.item = rec.outcome
    <3>1. CASE rec.status = "waiting_input" BY <1>5, <2>2, <2>3, <2>4, <3>1 DEF OutcomeSound
    <3>2. CASE rec.status = "failed"
      <4>1. ~rec.retried BY <1>2, <3>2 DEF RecordInv
      <4> QED BY <2>3, <2>4, <3>2, <4>1 DEF OutcomeSound
    <3>3. CASE rec.status = "succeeded" BY <2>3, <2>4, <3>3 DEF OutcomeSound
    <3> QED BY <1>1, <3>1, <3>2, <3>3 DEF Settled
  <2>6. Terminal(e) BY <2>3 DEF Terminal, TerminalEvent, Settled
  <2>7. PICK i \in 1 .. Len(log'[r]) : log'[r][i] = log[r][j] BY DEF Keeps
  <2> QED BY <1>1, <2>2, <2>5, <2>6, <2>7 DEF Outcome
<1> QED BY <1>7, <1>8

(* A round queues every outcome that the run has not come past.            *)
LEMMA PollTells ==
  ASSUME IInv, NEW c \in Clients, Poll(c), ToldInv(c), Keeps(RunOf[c]), budget.faults = 0,
         EarlyFailures = FALSE
  PROVE  ToldInv(c)'
<1>1. PICK r \in Runs : r = RunOf[c] BY RunOfAssumption
<1>2. /\ ClientTypes /\ RunInv /\ LogsOK /\ ConnInv(c)
      /\ Forward /\ GoesOn /\ LogsOK' /\ LogInv(r)' /\ Later(r) /\ Keeps(r)
  BY <1>1, PollStep DEF IInv, RunInv, Forward, GoesOn
<1> DEFINE places == {i \in 1 .. Len(log'[r]) : /\ log'[r][i].id > conn[c].cursor
                                                /\ Matches(log'[r][i].what, run[r])}
<1>3. /\ UNCHANGED <<run, clients, budget>>
      /\ conn[c].step = "opened" /\ conn'[c].step = "sending"
      /\ conn'[c].seen = run[r] /\ ~conn'[c].emitted
      /\ conn'[c].cursor = CursorAfter(log'[r], conn[c].cursor)
      /\ conn'[c].queue \in Seq(Event)
      /\ Lists(conn'[c].queue, log'[r], places)
  BY <1>1, <1>2, PollEffect DEF RunInv
<1>4. last' = last /\ told' = told /\ run' = run BY <1>3 DEF clients
<1>20. PICK tells : tells = told[c] OBVIOUS
<1>21. PICK rec \in Record : rec = run[r] BY <1>2 DEF RunInv
<1>22. PICK s \in Nat : s = Stage(rec) BY StagesAreNumbers
<1>5. rec = run[r] /\ tells = told[c] /\ s = Stage(rec) /\ s <= s BY <1>20, <1>21, <1>22
<1>6. PICK entries \in Seq(Event), q \in Seq(Event), cursor \in Nat, next \in Nat :
        entries = log'[r] /\ q = conn'[c].queue /\ cursor = conn[c].cursor /\ next = nextId'
  BY <1>2, <1>3, ClientFields DEF LogsOK
<1>7. last[c] \in Nat /\ last[c] < nextId /\ cursor < nextId BY <1>2, <1>6 DEF ConnInv, ClientTypes
<1>8. /\ \A i \in 1 .. Len(entries) :
           /\ entries[i].id < next /\ entries[i].id \in Nat
           /\ entries[i].what \in Draft /\ entries[i].what # Unavailable /\ Sound(entries[i].what, rec)
      /\ \A i, j \in 1 .. Len(entries) : i < j => entries[i].id < entries[j].id
  <2>1. \A e \in Event : e.id \in Nat /\ e.what \in Draft BY DEF Event
  <2>2. \A i \in 1 .. Len(entries) : entries[i] \in Event BY LenProperties
  <2>3. budget'.faults = 0 BY <1>3
  <2>4. ~(budget'.faults > 0) BY <2>3
  <2> QED BY <1>2, <1>4, <1>5, <1>6, <2>1, <2>2, <2>4 DEF LogInv
<1>9. PICK passed : passed = CursorAfter(entries, cursor) OBVIOUS
<1>10. passed \in Nat /\ \A i \in 1 .. Len(entries) : entries[i].id <= passed
  BY <1>8, <1>9, CursorPasses
<1>11. PastTold(entries, last[c], tells, s)
  <2>1. PastTold(log[r], last[c], tells, s) BY <1>1, <1>5 DEF ToldInv
  <2> QED BY <1>2, <1>5, <1>6, <1>7, <2>1, PastToldKeeps
<1>12. PastTold(entries, cursor, tells, s)
  <2>1. PastTold(log[r], cursor, tells, s) BY <1>1, <1>3, <1>5, <1>6 DEF ToldInv
  <2> QED BY <1>2, <1>5, <1>6, <1>7, <2>1, PastToldKeeps
<1>13. ASSUME NEW i \in 1 .. Len(entries), Terminal(entries[i].what)
       PROVE  \/ Outcome(entries[i]) \in tells \/ 2 * Outcome(entries[i]) < s
              \/ Holds(q, entries[i])
  <2>1. CASE entries[i].id <= cursor BY <1>12, <1>13, <2>1 DEF PastTold
  <2>2. CASE entries[i].id > cursor /\ Matches(entries[i].what, rec)
    <3>1. i \in places BY <1>5, <1>6, <2>2
    <3>2. \E k \in 1 .. Len(q) : q[k] = entries[i] BY <1>3, <1>6, <3>1 DEF Lists
    <3> QED BY <3>2 DEF Holds
  <2>3. CASE ~Matches(entries[i].what, rec)
    BY <1>5, <1>8, <1>13, <2>3, HiddenIsSuperseded DEF Outcome
  <2>4. entries[i].id <= cursor \/ entries[i].id > cursor BY <1>8
  <2> QED BY <2>1, <2>2, <2>3, <2>4
<1>14. PastOrQueued(entries, passed, tells, q, s) BY <1>13 DEF PastOrQueued
<1>15. rec.status \in Settled => OutcomeIn(entries, passed, rec.outcome)
  <2>1. ASSUME rec.status \in Settled PROVE OutcomeIn(entries, passed, rec.outcome)
    <3>1. conn[c].replay \in BOOLEAN /\ run[r].status # "absent" /\ RecordInv(run[r]) /\ LogInv(r)
      BY <1>1, <1>2, <1>3, ClientFields DEF ConnInv, RunInv
    <3>2. PICK m \in Seq(Draft) : m = MissingDeltas(r, conn[c].replay)
      BY <1>2, <1>4, <3>1, PollIsFresh DEF RunInv
    <3>3. Publish(r, m, Projection(run[r])) BY <1>1, <3>2 DEF Poll
    <3>4. PICK i \in 1 .. Len(log'[r]) :
            Terminal(log'[r][i].what) /\ Outcome(log'[r][i]) = run[r].outcome
      BY <1>2, <1>5, <2>1, <3>3, OutcomeIsPublished
    <3> QED BY <1>5, <1>6, <1>10, <3>4 DEF OutcomeIn
  <2> QED BY <2>1
<1>16. conn'[c].cursor = passed BY <1>3, <1>6, <1>9
<1> QED BY <1>1, <1>3, <1>4, <1>5, <1>6, <1>11, <1>14, <1>15, <1>16 DEF ToldInv

(* An outcome that leaves the queue is told.                               *)
LEMMA SendTells ==
  ASSUME IInv, NEW c \in Clients, Send(c), ReadInv(c), ToldInv(c), budget.faults = 0,
         EarlyFailures = FALSE
  PROVE  ToldInv(c)'
<1>1. PICK r \in Runs : r = RunOf[c] BY RunOfAssumption
<1>2. ClientTypes /\ RunInv /\ LogsOK /\ ConnInv(c) /\ LogInv(r) /\ run[r] \in Record
  BY DEF IInv, RunInv
<1>3. /\ ClientTypes' /\ UNCHANGED <<run, buffer, budget>>
      /\ conn[c].step = "sending" /\ conn'[c].step = "sending"
      /\ conn'[c].seen = conn[c].seen /\ conn'[c].cursor = conn[c].cursor
      /\ 1 \in 1 .. Len(conn[c].queue) /\ last'[c] = conn[c].queue[1].id
      /\ Len(conn'[c].queue) = Len(conn[c].queue) - 1
      /\ \A i \in 1 .. Len(conn'[c].queue) :
           i + 1 \in 1 .. Len(conn[c].queue) /\ conn'[c].queue[i] = conn[c].queue[i + 1]
      /\ conn'[c].emitted <=> conn[c].emitted \/ Terminal(conn[c].queue[1].what)
      /\ told'[c] = IF Terminal(conn[c].queue[1].what)
                    THEN told[c] \cup {conn[c].queue[1].what.item} ELSE told[c]
  BY <1>2, SendEffect
<1>4. log' = log /\ run' = run BY <1>3 DEF buffer
<1>5. PICK entries \in Seq(Event), q \in Seq(Event), p \in Seq(Event), seen \in Record, cursor \in Nat :
        /\ entries = log[r] /\ q = conn[c].queue /\ p = conn'[c].queue /\ seen = conn[c].seen
        /\ cursor = conn[c].cursor
  BY <1>2, <1>3, ClientFields DEF LogsOK, ClientTypes, Connection
<1>17. PICK old : old = told[c] OBVIOUS
<1>18. PICK new : new = told'[c] OBVIOUS
<1>19. PICK s \in Nat, v \in Nat : s = Stage(run[r]) /\ v = Stage(seen) BY <1>2, StagesAreNumbers
<1>6. s = Stage(run[r]) /\ v = Stage(seen) /\ old = told[c] /\ new = told'[c] BY <1>17, <1>18, <1>19
<1>7. PICK h \in Event : h = q[1] /\ 1 \in 1 .. Len(q) BY <1>3, <1>5, LenProperties
<1>8. new = IF Terminal(h.what) THEN old \cup {Outcome(h)} ELSE old
  BY <1>3, <1>5, <1>6, <1>7 DEF Outcome
<1>9. /\ PastOrQueued(entries, cursor, old, q, v) /\ v <= s
      /\ conn[c].emitted => seen.outcome \in old
      /\ seen.status \in Settled => OutcomeIn(entries, cursor, seen.outcome)
  BY <1>1, <1>3, <1>5, <1>6 DEF ToldInv
<1>10. /\ \A i \in 1 .. Len(q) : q[i].id <= cursor
       /\ \A j \in 1 .. Len(q) : 1 < j => h.id < q[j].id
       /\ Terminal(h.what) => Outcome(h) \in {seen.outcome, 0}
  BY <1>2, <1>5, <1>7 DEF ConnInv, Outcome
<1>11. h.id \in Nat /\ h.id <= cursor /\ Outcome(h) \in Nat BY <1>7, <1>10 DEF Event, Draft, Outcome
<1>12. \A i \in 1 .. Len(entries) : entries[i].id \in Nat /\ Outcome(entries[i]) \in Nat
  <2>1. \A e \in Event : e.id \in Nat /\ Outcome(e) \in Nat BY DEF Event, Draft, Outcome
  <2> QED BY <2>1, LenProperties
<1>13. PastTold(entries, h.id, new, s)
  <2>1. ASSUME NEW i \in 1 .. Len(entries), Terminal(entries[i].what), entries[i].id <= h.id
        PROVE  Outcome(entries[i]) \in new \/ 2 * Outcome(entries[i]) < s
    <3>1. entries[i].id <= cursor BY <1>11, <1>12, <2>1
    <3>2. CASE Holds(q, entries[i])
      <4>1. PICK j \in 1 .. Len(q) : q[j] = entries[i] BY <3>2 DEF Holds
      <4>2. ~(1 < j) BY <1>10, <1>11, <1>12, <2>1, <4>1
      <4>3. j = 1 BY <4>2
      <4> QED BY <1>7, <1>8, <2>1, <4>1, <4>3
    <3>3. CASE Outcome(entries[i]) \in old BY <1>8, <3>3
    <3>4. CASE 2 * Outcome(entries[i]) < v BY <1>9, <1>12, <3>4
    <3> QED BY <1>9, <2>1, <3>1, <3>2, <3>3, <3>4 DEF PastOrQueued
  <2> QED BY <2>1 DEF PastTold
<1>14. PastOrQueued(entries, cursor, new, p, v)
  <2>1. ASSUME NEW i \in 1 .. Len(entries), Terminal(entries[i].what), Holds(q, entries[i])
        PROVE  Outcome(entries[i]) \in new \/ Holds(p, entries[i])
    <3>1. PICK j \in 1 .. Len(q) : q[j] = entries[i] BY <2>1 DEF Holds
    <3>2. CASE j = 1 BY <1>7, <1>8, <2>1, <3>1, <3>2
    <3>3. CASE j # 1
      <4>1. PICK n \in Nat, m \in Nat : n = Len(q) /\ m = Len(p) /\ m = n - 1
        BY <1>3, <1>5, LenProperties
      <4>2. j \in 1 .. n BY <3>1, <4>1
      <4>3. j - 1 \in 1 .. m /\ j - 1 + 1 = j BY <3>3, <4>1, <4>2
      <4>4. p[j - 1] = q[j] BY <1>3, <1>5, <4>1, <4>3
      <4> QED BY <3>1, <4>1, <4>3, <4>4 DEF Holds
    <3> QED BY <3>2, <3>3
  <2>2. old \subseteq new BY <1>8
  <2> QED BY <1>9, <2>1, <2>2 DEF PastOrQueued
<1>15. conn'[c].emitted => seen.outcome \in new
  <2>1. CASE Terminal(h.what)
    <3>1. PICK k \in 1 .. Len(log[r]) : log[r][k] = h BY <1>1, <1>5, <1>7 DEF ReadInv, Holds
    <3>2. PICK d \in Draft : d = h.what BY <1>7 DEF Event
    <3>3. Sound(d, run[r]) /\ (d = Unavailable => budget.faults > 0) BY <1>2, <3>1, <3>2 DEF LogInv
    <3>4. d # Unavailable BY <3>3
    <3>5. OutcomeSound(d, run[r]) BY <2>1, <3>2, <3>3, <3>4, SoundByEvent DEF Terminal
    <3>6. Outcome(h) # 0 BY <1>11, <3>2, <3>5 DEF OutcomeSound, Outcome
    <3>7. Outcome(h) = seen.outcome BY <1>10, <2>1, <3>6
    <3> QED BY <1>8, <2>1, <3>7
  <2>2. CASE ~Terminal(h.what)
    <3>1. conn'[c].emitted => conn[c].emitted BY <1>3, <1>5, <1>7, <2>2
    <3> QED BY <1>8, <1>9, <2>2, <3>1
  <2> QED BY <2>1, <2>2
<1>16. last'[c] = h.id BY <1>3, <1>5, <1>7
<1> QED BY <1>1, <1>3, <1>4, <1>5, <1>6, <1>9, <1>13, <1>14, <1>15, <1>16 DEF ToldInv

(* Connecting, disconnecting and ending a round: a stream ends only when   *)
(* the outcome that its last round saw was told.                           *)
LEMMA RestTells ==
  ASSUME IInv, NEW c \in Clients, ToldInv(c), Connect(c) \/ Disconnect(c) \/ EndRound(c),
         Keeps(RunOf[c])
  PROVE  ToldInv(c)' /\ \A o \in Clients \ {c} : conn'[o] = conn[o]
<1>1. PICK r \in Runs : r = RunOf[c] BY RunOfAssumption
<1>2. ClientTypes /\ RunInv /\ LogsOK /\ ConnInv(c) /\ run[r] \in Record /\ conn[c].seen \in Record
  BY ClientFields DEF IInv, RunInv
<1>3. UNCHANGED <<run, buffer, clients>> BY DEF Connect, Disconnect, EndRound
<1>4. log' = log /\ run' = run /\ last' = last /\ told' = told BY <1>3 DEF buffer, clients
<1>5. PastTold(log[r], last[c], told[c], Stage(run[r])) BY <1>1 DEF ToldInv
<1>6. CASE Disconnect(c)
  <2>1. conn' = [conn EXCEPT ![c] = NoConnection] BY <1>6 DEF Disconnect
  <2>2. conn'[c].step = "off" /\ \A o \in Clients \ {c} : conn'[o] = conn[o]
    BY <1>2, <2>1, NoConnectionTyped DEF ClientTypes
  <2> QED BY <1>1, <1>4, <1>5, <2>2 DEF ToldInv
<1>7. CASE Connect(c)
  <2>1. PICK new : new = [NoConnection EXCEPT !.step = "opened",
                            !.replay = ~(last[c] > 0 /\ log[r] = <<>>),
                            !.cursor = IF last[c] > 0 /\ log[r] = <<>> THEN 0 ELSE last[c]]
    OBVIOUS
  <2>2. conn' = [conn EXCEPT ![c] = new] BY <1>1, <1>7, <2>1 DEF Connect, ResumeAfter
  <2>3. new.step = "opened" /\ (log[r] = <<>> \/ new.cursor = last[c]) BY <2>1 DEF NoConnection
  <2>4. conn'[c] = new /\ \A o \in Clients \ {c} : conn'[o] = conn[o] BY <1>2, <2>2 DEF ClientTypes
  <2>5. PastTold(log[r], new.cursor, told[c], Stage(run[r]))
    <3>1. CASE log[r] = <<>>
      <4>1. Len(<<>>) = 0 OBVIOUS
      <4> QED BY <3>1, <4>1 DEF PastTold
    <3> QED BY <1>5, <2>3, <3>1
  <2> QED BY <1>1, <1>4, <1>5, <2>3, <2>4, <2>5 DEF ToldInv
<1>8. CASE EndRound(c)
  <2>1. /\ conn[c].step = "sending" /\ conn'[c].step \in {"opened", "ended"}
        /\ conn[c].queue = <<>> /\ conn'[c].seen = conn[c].seen
        /\ conn'[c].step = "ended" => conn[c].seen.status \in Settled
        /\ conn'[c].cursor = conn[c].cursor
    BY <1>8, EndRoundStep
  <2>2. \A o \in Clients \ {c} : conn'[o] = conn[o] BY <1>2, <1>8 DEF EndRound, ClientTypes
  <2>3. PICK entries \in Seq(Event), seen \in Record, cursor \in Nat :
          entries = log[r] /\ seen = conn[c].seen /\ cursor = conn[c].cursor
    BY <1>2, ClientFields DEF LogsOK
  <2>4. PICK s \in Nat, v \in Nat : s = Stage(run[r]) /\ v = Stage(seen) BY <1>2, StagesAreNumbers
  <2>5. PICK tells : tells = told[c] OBVIOUS
  <2>6. /\ PastOrQueued(entries, cursor, tells, <<>>, v) /\ v <= s
        /\ seen.status \in Settled => OutcomeIn(entries, cursor, seen.outcome)
    BY <1>1, <2>1, <2>3, <2>4, <2>5 DEF ToldInv
  <2>7. \A entry : ~Holds(<<>>, entry)
    <3>1. Len(<<>>) = 0 OBVIOUS
    <3> QED BY <3>1 DEF Holds
  <2>8. \A i \in 1 .. Len(entries) : Outcome(entries[i]) \in Nat
    <3>1. \A e \in Event : Outcome(e) \in Nat BY DEF Event, Draft, Outcome
    <3> QED BY <3>1, LenProperties
  <2>9. PastTold(entries, cursor, tells, v) BY <2>6, <2>7 DEF PastOrQueued, PastTold
  <2>10. PastTold(entries, cursor, tells, s) BY <2>6, <2>8, <2>9 DEF PastTold
  <2>11. seen.status \in Settled => seen.outcome \in tells
    <3>1. SUFFICES ASSUME seen.status \in Settled PROVE seen.outcome \in tells OBVIOUS
    <3>2. PICK i \in 1 .. Len(entries) : /\ Terminal(entries[i].what) /\ entries[i].id <= cursor
                                         /\ Outcome(entries[i]) = seen.outcome
      BY <2>6, <3>1 DEF OutcomeIn
    <3>3. v = 2 * seen.outcome /\ seen.outcome \in Nat BY <2>4, <3>1, StagesAreNumbers DEF Record
    <3> QED BY <2>9, <3>2, <3>3 DEF PastTold
  <2>12. conn'[c].step = "ended" => seen.outcome \in tells BY <2>1, <2>3, <2>11
  <2> QED BY <1>1, <1>4, <1>5, <2>1, <2>2, <2>3, <2>4, <2>5, <2>10, <2>12 DEF ToldInv
<1> QED BY <1>6, <1>7, <1>8

(* Every step keeps it, as long as nothing is dropped and every read       *)
(* succeeds.                                                               *)
LEMMA StepKeepsTelling ==
  ASSUME IInv, Next, Quiet', EarlyFailures = FALSE,
         Lossless => \A c \in Clients : ReadInv(c),
         Quiet => \A c \in Clients : ToldInv(c)
  PROVE  \A c \in Clients : ToldInv(c)'
<1>1. ClientTypes BY DEF IInv
<1>2. ASSUME GoesOn, budget'.crashes = budget.crashes, budget'.faults = budget.faults
      PROVE  /\ budget.faults = 0
             /\ \A c \in Clients : ReadInv(c) /\ ToldInv(c) /\ Keeps(RunOf[c])
  <2>1. Lossless /\ \A r \in Runs : Keeps(r) BY <1>2, LosslessBefore DEF Quiet
  <2> QED BY <1>2, <2>1, RunOfAssumption DEF Quiet
<1>3. ASSUME NEW r \in Runs, RunStep(r) PROVE \A c \in Clients : ToldInv(c)'
  <2>1. Forward /\ GoesOn /\ UNCHANGED <<conn, clients, budget>> BY <1>3, RunStepStep
  <2> QED BY <1>2, <2>1, ToldKeeps DEF clients
<1>4. ASSUME NEW o \in Clients, Connect(o) \/ Disconnect(o) \/ EndRound(o)
      PROVE  \A c \in Clients : ToldInv(c)'
  <2>1. Forward /\ GoesOn BY <1>4, ConnectStep, DisconnectStep, EndRoundStep
  <2>2. budget'.crashes = budget.crashes /\ budget'.faults = budget.faults
    BY <1>1, <1>4 DEF Connect, Disconnect, EndRound, ClientTypes
  <2>3. ToldInv(o)' /\ \A c \in Clients \ {o} : conn'[c] = conn[c] BY <1>2, <1>4, <2>1, <2>2, RestTells
  <2>4. last' = last /\ told' = told BY <1>4 DEF Connect, Disconnect, EndRound, clients
  <2>5. \A c \in Clients \ {o} : ToldInv(c)' BY <1>2, <2>1, <2>2, <2>3, <2>4, ToldKeeps
  <2> QED BY <2>3, <2>5
<1>5. ASSUME NEW o \in Clients, Poll(o) PROVE \A c \in Clients : ToldInv(c)'
  <2>1. Forward /\ GoesOn /\ UNCHANGED budget /\ UNCHANGED clients BY <1>5, PollStep DEF Poll
  <2>2. ToldInv(o)' BY <1>2, <1>5, <2>1, PollTells
  <2>3. \A c \in Clients \ {o} : conn'[c] = conn[c]
    <3>1. LogsOK' BY <2>1 DEF Forward, RunInv
    <3>2. PICK r \in Runs : r = RunOf[o] BY RunOfAssumption
    <3> QED BY <1>1, <1>5, <3>1, <3>2, PollEffect DEF IInv, RunInv
  <2>4. last' = last /\ told' = told BY <2>1 DEF clients
  <2>5. \A c \in Clients \ {o} : ToldInv(c)' BY <1>2, <2>1, <2>3, <2>4, ToldKeeps
  <2> QED BY <2>2, <2>5
<1>6. ASSUME NEW o \in Clients, Send(o) PROVE \A c \in Clients : ToldInv(c)'
  <2>1. Forward /\ GoesOn BY <1>6, SendStep
  <2>2. UNCHANGED budget /\ \A c \in Clients \ {o} : /\ conn'[c] = conn[c] /\ last'[c] = last[c]
                                                     /\ told'[c] = told[c]
    BY <1>1, <1>6, SendLeavesOthers
  <2>3. ToldInv(o)' BY <1>2, <1>6, <2>1, <2>2, SendTells
  <2>4. \A c \in Clients \ {o} : ToldInv(c)' BY <1>2, <2>1, <2>2, ToldKeeps
  <2> QED BY <2>3, <2>4
<1>7. ASSUME NEW o \in Clients PROVE ~PollFails(o)
  <2>1. budget'.faults = 0 BY DEF Quiet
  <2>2. ~(budget'.faults > 0) BY <2>1
  <2> QED BY <2>2, PollFailsStep
<1>8. ~Crash
  <2>1. budget'.crashes = 0 BY DEF Quiet, Lossless
  <2>2. ~(budget'.crashes > 0) BY <2>1
  <2> QED BY <2>2, CrashStep
<1> QED BY <1>3, <1>4, <1>5, <1>6, <1>7, <1>8 DEF Next, Serve

(* When events() ends a stream by itself, its client was told how the run  *)
(* came out.  Besides logs that were not lost, this needs a state file     *)
(* that is read: the notice of an unreadable one has an id above events    *)
(* that were not sent yet, and a client that resumes from it skips them.   *)
(* And it needs that no run fails between a retry by its client and its    *)
(* next attempt, as above.                                                 *)
THEOREM StreamEndsTold ==
  ASSUME EarlyFailures = FALSE
  PROVE  Spec => [](Quiet => EndsTold)
<1> DEFINE Reads == Lossless => \A c \in Clients : ReadInv(c)
           Tells == Quiet => \A c \in Clients : ToldInv(c)
<1>1. Init => Tells
  <2>1. ASSUME Init, NEW c \in Clients PROVE ToldInv(c)
    <3>1. conn[c].step = "off" /\ log[RunOf[c]] = <<>>
      BY <2>1, NoConnectionTyped, RunOfAssumption DEF Init
    <3>2. Len(<<>>) = 0 OBVIOUS
    <3> QED BY <3>1, <3>2 DEF ToldInv, PastTold
  <2> QED BY <2>1
<1>2. IInv /\ Reads /\ Tells /\ [Next]_vars => Tells'
  <2>1. ASSUME IInv, Tells, UNCHANGED vars PROVE Tells'
    <3>1. UNCHANGED <<run, log, kept, nextId, conn, last, text, told, budget>>
      BY <2>1 DEF vars, buffer, clients
    <3>2. Quiet' <=> Quiet BY <3>1 DEF Quiet, Lossless, Room
    <3>3. \A c \in Clients : ToldInv(c)' <=> ToldInv(c) BY <3>1 DEF ToldInv
    <3> QED BY <2>1, <3>2, <3>3
  <2>2. ASSUME IInv, Reads, Tells, Next PROVE Tells' BY <2>2, StepKeepsTelling
  <2> QED BY <2>1, <2>2
<1>3. Tells => (Quiet => EndsTold) BY DEF ToldInv, EndsTold
<1> QED BY <1>1, <1>2, <1>3, StreamInvariant, ReadingInvariant, PTL DEF Spec
=============================================================================
