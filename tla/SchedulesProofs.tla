-------------------------- MODULE SchedulesProofs --------------------------
(***************************************************************************)
(* A scheduled report, for any number of periods, markers, attempts,       *)
(* crashes, deleted sessions and requests.  First, a session of a run is   *)
(* sent at most one turn, also when its key is claimed again while a task  *)
(* still works on it, which the instances are too small for.  The          *)
(* invariant says which sessions were certainly sent nothing: those of     *)
(* claims to come, that of a record which does not say its turn was        *)
(* submitted, and that of a task which has not posted yet.  Then the types *)
(* of the file, the tasks and the requests in flight, and at the end the   *)
(* agreement of the file with the jobs of the timer.                       *)
(***************************************************************************)
EXTENDS Schedules, FiniteSetTheorems, TLAPS

AnyRun == [status : {"pending", "running", "succeeded", "failed"},
           attempts : Nat, submitted : BOOLEAN, gen : Generations]

AnyTask == [phase : Phases \ {"none"}, gen : 0..MaxGenerations, read : Nat,
            target : 0..MaxGenerations]

Node == [open : BOOLEAN, turns : Nat, busy : BOOLEAN, report : BOOLEAN]

(* A task may post for a run that does not say that its turn was sent.     *)
Unsent(run) == run.status = "pending" \/ (run.status = "running" /\ ~run.submitted)

Clean(s) == hermes[s].turns = 0

Started(k) == task[k] # Idle /\ task[k].phase # "start"

Same(k) == runs[k].gen = task[k].gen

ClaimsInv(k) == \A g \in Generations : g > gens[k] => Clean(<<k, g>>)

RecordInv(k) == runs[k] # NoRun =>
    /\ runs[k].gen <= gens[k]
    /\ Unsent(runs[k]) => Clean(<<k, runs[k].gen>>)

TaskInv(k) ==
    /\ task[k] # Idle /\ task[k].phase = "start" /\ runs[k] # NoRun =>
           runs[k].status \in {"pending", "running"}
    /\ Started(k) =>
           /\ task[k].gen \in Generations /\ task[k].gen <= gens[k]
           /\ task[k].phase \in {"slot", "session", "post", "sleep"} => Clean(Own(k))

(* A task and the record it began with, or a later one. *)
PairInv(k) == Started(k) /\ runs[k] # NoRun =>
    /\ ~Same(k) => Clean(<<k, runs[k].gen>>)
    /\ Same(k) /\ task[k].phase = "session" => runs[k].status = "running"
    /\ Same(k) /\ task[k].phase = "post" => ~Unsent(runs[k])

KeyInv(k) == ClaimsInv(k) /\ RecordInv(k) /\ TaskInv(k) /\ PairInv(k)

TypesInv ==
    /\ runs \in [Keys -> AnyRun \cup {NoRun}]
    /\ gens \in [Keys -> 0..MaxGenerations]
    /\ task \in [Keys -> AnyTask \cup {Idle}]
    /\ hermes \in [Sessions -> Node]

RunsInv == TypesInv /\ OneTurnPerSession /\ \A k \in Keys : KeyInv(k)

-----------------------------------------------------------------------------
(* A step that moves one key, its record and its task.                     *)
LEMMA OneKeyMoves ==
    ASSUME RunsInv, NEW k \in Keys, NEW run \in AnyRun \cup {NoRun}, NEW q \in AnyTask \cup {Idle},
           runs' = [runs EXCEPT ![k] = run], task' = [task EXCEPT ![k] = q], gens' = gens,
           hermes' \in [Sessions -> Node],
           \A j \in Keys \ {k}, g \in Generations : hermes'[<<j, g>>].turns = hermes[<<j, g>>].turns,
           \A s \in Sessions : hermes'[s].turns <= 1,
           KeyInv(k)'
    PROVE  RunsInv'
<1>1. TypesInv' BY DEF RunsInv, TypesInv
<1>2. OneTurnPerSession' BY DEF OneTurnPerSession
<1>3. ASSUME NEW j \in Keys, j # k PROVE KeyInv(j)'
  <2>1. runs'[j] = runs[j] /\ task'[j] = task[j] /\ gens'[j] = gens[j]
    BY <1>3 DEF RunsInv, TypesInv
  <2>2. \A g \in Generations : Clean(<<j, g>>)' <=> Clean(<<j, g>>) BY <1>3 DEF Clean
  <2>3. KeyInv(j) BY DEF RunsInv
  <2>4. runs[j] # NoRun => runs[j].gen \in Generations BY DEF RunsInv, TypesInv, AnyRun
  <2>5. ClaimsInv(j)' BY <2>1, <2>2, <2>3 DEF KeyInv, ClaimsInv
  <2>6. RecordInv(j)' BY <2>1, <2>2, <2>3, <2>4 DEF KeyInv, RecordInv
  <2>7. TaskInv(j)' BY <2>1, <2>2, <2>3 DEF KeyInv, TaskInv, Started, Own
  <2>8. PairInv(j)' BY <2>1, <2>2, <2>3, <2>4 DEF KeyInv, PairInv, Started, Same
  <2> QED BY <2>5, <2>6, <2>7, <2>8 DEF KeyInv
<1> QED BY <1>1, <1>2, <1>3 DEF RunsInv

(* What the helpers of the runner assign.                                  *)
Written(k, run) == IF runs[k] = NoRun THEN NoRun ELSE run

LEMMA UpdateRunWrites ==
    ASSUME TypesInv, NEW k \in Keys, NEW run, UpdateRun(k, run)
    PROVE  runs' = [runs EXCEPT ![k] = Written(k, run)]
BY DEF UpdateRun, Written, TypesInv

Going(k, phase) == IF phase = "none" THEN Idle ELSE [task[k] EXCEPT !.phase = phase]

LEMMA GoesMoves ==
    ASSUME TypesInv, NEW k \in Keys, NEW phase \in Phases, task[k] # Idle
    PROVE  /\ Goes(k, phase) => task' = [task EXCEPT ![k] = Going(k, phase)]
           /\ Going(k, phase) \in AnyTask \cup {Idle}
           /\ phase # "none" => /\ Going(k, phase) # Idle /\ Going(k, phase).phase = phase
                                /\ Going(k, phase).gen = task[k].gen
                                /\ Going(k, phase).target = task[k].target
                                /\ Going(k, phase).read = task[k].read
<1>1. task[k] \in AnyTask BY DEF TypesInv
<1> QED BY <1>1 DEF Goes, Going, AnyTask, Idle

(* Nothing was sent before: whatever the record becomes, it may be sent.   *)
LEMMA CleanRecords ==
    ASSUME RunsInv, NEW k \in Keys, runs[k] # NoRun, Started(k),
           task[k].phase \in {"slot", "session", "post", "sleep"}
    PROVE  Clean(<<k, runs[k].gen>>)
BY DEF RunsInv, KeyInv, TaskInv, PairInv, Same, Own

(* The attempt ends, and the record is as it was but for its status.       *)
LEMMA AttemptFailsKeeps ==
    ASSUME RunsInv, NEW k \in Keys, Started(k), NEW safe \in BOOLEAN, AttemptFails(k, safe),
           safe => task[k].phase \in {"session", "post"},
           UNCHANGED <<gens, hermes>>
    PROVE  RunsInv'
<1> DEFINE run == Written(k, [runs[k] EXCEPT !.status = "failed"])
           phase == IF Retries(k, safe) THEN "sleep" ELSE "ending"
           q == Going(k, phase)
<1>0. TypesInv /\ KeyInv(k) BY DEF RunsInv
<1>1. runs' = [runs EXCEPT ![k] = run] BY <1>0, UpdateRunWrites DEF AttemptFails
<1>2. run \in AnyRun \cup {NoRun} BY <1>0 DEF TypesInv, AnyRun, Written
<1>3. task[k] # Idle BY DEF Started
<1>4. /\ task' = [task EXCEPT ![k] = q] /\ q \in AnyTask \cup {Idle}
      /\ q # Idle /\ q.phase = phase /\ q.gen = task[k].gen
  BY <1>0, <1>3, GoesMoves DEF AttemptFails, Phases
<1>5. task'[k] = q /\ runs'[k] = run /\ gens'[k] = gens[k]
  BY <1>0, <1>1, <1>4 DEF TypesInv
<1>6. run # NoRun => runs[k] # NoRun /\ run.gen = runs[k].gen /\ run.status = "failed"
  BY <1>0 DEF TypesInv, AnyRun, Written
<1>7. \A s : Clean(s)' <=> Clean(s) BY DEF Clean
<1>8. q.phase = "sleep" => task[k].phase \in {"session", "post"} BY <1>4 DEF Retries
<1>9. KeyInv(k)'
  <2>1. ClaimsInv(k)' BY <1>0, <1>5, <1>7 DEF KeyInv, ClaimsInv
  <2>2. RecordInv(k)' BY <1>0, <1>5, <1>6, <1>7 DEF KeyInv, RecordInv, Unsent
  <2>3. TaskInv(k)' BY <1>0, <1>4, <1>5, <1>7, <1>8 DEF KeyInv, TaskInv, Started, Own
  <2>4. PairInv(k)' BY <1>0, <1>4, <1>5, <1>6, <1>7 DEF KeyInv, PairInv, Started, Same
  <2> QED BY <2>1, <2>2, <2>3, <2>4 DEF KeyInv
<1>10. hermes' \in [Sessions -> Node] BY <1>0 DEF TypesInv
<1>11. \A s \in Sessions : hermes'[s].turns <= 1 BY DEF RunsInv, OneTurnPerSession
<1> HIDE DEF run, q
<1> QED BY <1>1, <1>2, <1>4, <1>9, <1>10, <1>11, OneKeyMoves
(* The task moves on, the record keeps its generation, and no turn is sent. *)
LEMMA Proceeds ==
    ASSUME RunsInv, NEW k \in Keys, NEW run \in AnyRun \cup {NoRun}, NEW q \in AnyTask \cup {Idle},
           runs' = [runs EXCEPT ![k] = run], task' = [task EXCEPT ![k] = q], gens' = gens,
           run # NoRun => runs[k] # NoRun /\ run.gen = runs[k].gen,
           run # NoRun /\ Unsent(run) => Clean(<<k, run.gen>>),
           hermes' \in [Sessions -> Node],
           \A s \in Sessions : hermes'[s].turns = hermes[s].turns,
           TaskInv(k)', PairInv(k)'
    PROVE  RunsInv'
<1>1. runs'[k] = run /\ gens'[k] = gens[k] BY DEF RunsInv, TypesInv
<1>2. \A g \in Generations : <<k, g>> \in Sessions BY DEF Sessions
<1>3. \A g \in Generations : Clean(<<k, g>>)' <=> Clean(<<k, g>>) BY <1>2 DEF Clean
<1>4. ClaimsInv(k)' BY <1>1, <1>3 DEF RunsInv, KeyInv, ClaimsInv
<1>5. run # NoRun => run.gen \in Generations BY DEF AnyRun
<1>6. RecordInv(k)' BY <1>1, <1>3, <1>5 DEF RunsInv, KeyInv, RecordInv
<1>7. \A j \in Keys, g \in Generations : <<j, g>> \in Sessions BY DEF Sessions
<1>8. \A s \in Sessions : hermes'[s].turns <= 1 BY DEF RunsInv, OneTurnPerSession
<1> QED BY <1>4, <1>6, <1>7, <1>8, OneKeyMoves DEF KeyInv

LEMMA StartKeeps ==
    ASSUME RunsInv, NEW k \in Keys, Start(k)
    PROVE  RunsInv'
<1> DEFINE run == runs[k]
<1>0. TypesInv /\ KeyInv(k) BY DEF RunsInv
<1>1. task[k] \in AnyTask /\ task[k] # Idle /\ task[k].phase = "start"
  BY <1>0 DEF Start, TypesInv, Idle
<1>2. /\ gens' = gens /\ hermes' = hermes /\ hermes' \in [Sessions -> Node]
      /\ run \in AnyRun \cup {NoRun} /\ runs = [runs EXCEPT ![k] = run]
  BY <1>0 DEF Start, TypesInv
<1>3. CASE Goes(k, "none") /\ UNCHANGED runs
  <2>1. task' = [task EXCEPT ![k] = Idle] BY <1>3 DEF Goes
  <2>2. task'[k] = Idle BY <2>1, <1>0 DEF TypesInv
  <2>3. TaskInv(k)' /\ PairInv(k)' BY <2>2 DEF TaskInv, PairInv, Started
  <2>4. run # NoRun /\ Unsent(run) => Clean(<<k, run.gen>>) BY <1>0 DEF KeyInv, RecordInv
  <2> QED BY <1>2, <1>3, <2>1, <2>3, <2>4, Proceeds
<1>4. CASE Goes(k, "none") /\ UpdateRun(k, [run EXCEPT !.status = "failed"]) /\ run # NoRun
  <2> DEFINE failed == [run EXCEPT !.status = "failed"]
  <2>1. task' = [task EXCEPT ![k] = Idle] BY <1>4 DEF Goes
  <2>2. task'[k] = Idle BY <2>1, <1>0 DEF TypesInv
  <2>3. TaskInv(k)' /\ PairInv(k)' BY <2>2 DEF TaskInv, PairInv, Started
  <2>4. failed \in AnyRun /\ failed.status = "failed" /\ failed.gen = run.gen
    BY <1>2, <1>4 DEF AnyRun
  <2>5. runs' = [runs EXCEPT ![k] = failed] BY <1>4 DEF UpdateRun
  <2>6. ~Unsent(failed) BY <2>4 DEF Unsent
  <2> HIDE DEF failed
  <2> QED BY <1>2, <1>4, <2>1, <2>3, <2>4, <2>5, <2>6, Proceeds
<1>5. ASSUME NEW phase \in {"closing", "slot"}, Begins(k, phase), UNCHANGED runs, run # NoRun,
             phase = "slot" => ~Sent(run) /\ run.status # "succeeded"
      PROVE  RunsInv'
  <2> DEFINE q == Working(phase, run)
  <2>1. run \in AnyRun BY <1>2, <1>5
  <2>2. q \in AnyTask /\ q # Idle /\ q.phase = phase /\ q.gen = run.gen
    BY <2>1, ScheduleRunsAssumption DEF Working, AnyTask, AnyRun, Phases, Idle, Generations
  <2>3. task' = [task EXCEPT ![k] = q] BY <1>5 DEF Begins
  <2>4. task'[k] = q BY <2>3, <1>0 DEF TypesInv
  <2>5. phase = "slot" => Unsent(run)
    BY <1>0, <1>1, <1>5, <2>1 DEF KeyInv, TaskInv, Sent, Unsent, AnyRun
  <2>6. run.gen \in Generations /\ run.gen <= gens[k] /\ (Unsent(run) => Clean(<<k, run.gen>>))
    BY <1>0, <1>5, <2>1 DEF KeyInv, RecordInv, AnyRun
  <2> HIDE DEF q
  <2>7. TaskInv(k)'
    BY <1>2, <1>5, <2>2, <2>4, <2>5, <2>6 DEF TaskInv, Started, Own, Clean
  <2>8. PairInv(k)' BY <1>5, <2>2, <2>4 DEF PairInv, Started, Same
  <2> QED BY <1>2, <1>5, <2>2, <2>3, <2>6, <2>7, <2>8, Proceeds
<1> QED BY <1>3, <1>4, <1>5 DEF Start

LEMMA TakeSlotKeeps ==
    ASSUME RunsInv, NEW k \in Keys, TakeSlot(k)
    PROVE  RunsInv'
<1> DEFINE run == Written(k, [runs[k] EXCEPT !.status = "running", !.attempts = task[k].read + 1])
           q == IF runs[k] = NoRun THEN Idle
                ELSE [task[k] EXCEPT !.phase = "session", !.target = runs[k].gen]
<1>0. TypesInv /\ KeyInv(k) BY DEF RunsInv
<1>1. task[k] \in AnyTask /\ task[k].phase = "slot" /\ Started(k)
  BY <1>0 DEF TakeSlot, TypesInv, Idle, Started
<1>2. gens' = gens /\ hermes' = hermes /\ hermes' \in [Sessions -> Node]
  BY <1>0 DEF TakeSlot, TypesInv
<1>3. runs' = [runs EXCEPT ![k] = run] BY <1>0, UpdateRunWrites DEF TakeSlot
<1>4. task' = [task EXCEPT ![k] = q] BY DEF TakeSlot
<1>5. /\ run \in AnyRun \cup {NoRun}
      /\ run # NoRun => runs[k] # NoRun /\ run.gen = runs[k].gen /\ run.status = "running"
      /\ runs[k] # NoRun => run # NoRun
  <2>1. CASE runs[k] = NoRun BY <2>1 DEF Written
  <2>2. CASE runs[k] # NoRun
    <3>1. runs[k] \in AnyRun /\ task[k].read + 1 \in Nat BY <1>0, <1>1, <2>2 DEF TypesInv, AnyTask
    <3>2. run = [runs[k] EXCEPT !.status = "running", !.attempts = task[k].read + 1]
      BY <2>2 DEF Written
    <3>3. run \in AnyRun /\ run.gen = runs[k].gen /\ run.status = "running" BY <3>1, <3>2 DEF AnyRun
    <3>4. run # NoRun BY <3>3 DEF NoRun
    <3> QED BY <2>2, <3>3, <3>4
  <2> QED BY <2>1, <2>2
<1>6. /\ q \in AnyTask \cup {Idle}
      /\ runs[k] = NoRun => q = Idle
      /\ runs[k] # NoRun => q # Idle /\ q.phase = "session" /\ q.gen = task[k].gen
  <2>1. CASE runs[k] = NoRun BY <2>1
  <2>2. CASE runs[k] # NoRun
    <3>1. runs[k].gen \in 0..MaxGenerations
      BY <1>0, <2>2, ScheduleRunsAssumption DEF TypesInv, AnyRun, Generations
    <3>2. q = [task[k] EXCEPT !.phase = "session", !.target = runs[k].gen] BY <2>2
    <3>3. q \in AnyTask /\ q.phase = "session" /\ q.gen = task[k].gen
      BY <1>1, <3>1, <3>2 DEF AnyTask, Phases
    <3>4. q # Idle BY <3>3 DEF Idle
    <3> QED BY <2>2, <3>3, <3>4
  <2> QED BY <2>1, <2>2
<1>7. task'[k] = q /\ runs'[k] = run BY <1>0, <1>3, <1>4 DEF TypesInv
<1> HIDE DEF run, q
<1>8. run # NoRun => Clean(<<k, run.gen>>) BY <1>1, <1>5, CleanRecords
<1>9. TaskInv(k)' BY <1>0, <1>1, <1>2, <1>6, <1>7 DEF KeyInv, TaskInv, Started, Own, Clean
<1>10. PairInv(k)' BY <1>2, <1>5, <1>6, <1>7, <1>8 DEF PairInv, Started, Same, Clean
<1> QED BY <1>2, <1>3, <1>4, <1>5, <1>6, <1>8, <1>9, <1>10, Proceeds
LEMMA EnsureSessionKeeps ==
    ASSUME RunsInv, NEW k \in Keys, EnsureSession(k)
    PROVE  RunsInv'
<1>0. TypesInv /\ KeyInv(k) BY DEF RunsInv
<1>1. task[k] # Idle /\ task[k].phase = "session" /\ Started(k) /\ gens' = gens
  BY DEF EnsureSession, Idle, Started
<1>2. ASSUME NEW safe \in BOOLEAN, AttemptFails(k, safe), UNCHANGED hermes PROVE RunsInv'
  BY <1>1, <1>2, AttemptFailsKeeps
<1>3. ASSUME hermes' = [hermes EXCEPT ![<<k, task[k].target>>].open = TRUE],
             \/ Goes(k, "closing") /\ UNCHANGED runs
             \/ Goes(k, "post") /\ UpdateRun(k, [runs[k] EXCEPT !.submitted = TRUE])
      PROVE  RunsInv'
  <2>1. hermes' \in [Sessions -> Node] /\ \A s \in Sessions : hermes'[s].turns = hermes[s].turns
    BY <1>0, <1>3 DEF TypesInv, Node
  <2>2. Clean(Own(k)) /\ (runs[k] # NoRun => Clean(<<k, runs[k].gen>>))
    BY <1>0, <1>1, CleanRecords DEF KeyInv, TaskInv
  <2>3. task[k].gen \in Generations /\ task[k].gen <= gens[k] BY <1>0, <1>1 DEF KeyInv, TaskInv
  <2>4. /\ \A g \in Generations : <<k, g>> \in Sessions
        /\ runs[k] # NoRun => runs[k].gen \in Generations
    BY <1>0 DEF Sessions, TypesInv, AnyRun
  <2>5. PICK phase \in {"closing", "post"} :
            /\ Goes(k, phase)
            /\ phase = "closing" => UNCHANGED runs
            /\ phase = "post" => UpdateRun(k, [runs[k] EXCEPT !.submitted = TRUE])
    BY <1>3
  <2> DEFINE run == IF phase = "post" THEN Written(k, [runs[k] EXCEPT !.submitted = TRUE]) ELSE runs[k]
             q == Going(k, phase)
  <2>6. runs' = [runs EXCEPT ![k] = run] /\ run \in AnyRun \cup {NoRun}
    <3>1. CASE phase = "post"
      <4>1. runs' = [runs EXCEPT ![k] = run] BY <1>0, <2>5, <3>1, UpdateRunWrites
      <4>2. run \in AnyRun \cup {NoRun} BY <1>0, <3>1 DEF TypesInv, AnyRun, Written
      <4> QED BY <4>1, <4>2
    <3>2. CASE phase = "closing" BY <1>0, <2>5, <3>2 DEF TypesInv
    <3> QED BY <3>1, <3>2
  <2>7. /\ run # NoRun => runs[k] # NoRun /\ run.gen = runs[k].gen /\ run.status = runs[k].status
        /\ run # NoRun /\ phase = "post" => run.submitted
    BY <1>0 DEF TypesInv, AnyRun, Written
  <2>8. /\ task' = [task EXCEPT ![k] = q] /\ q \in AnyTask \cup {Idle}
        /\ q # Idle /\ q.phase = phase /\ q.gen = task[k].gen
    BY <1>0, <1>1, <2>5, GoesMoves DEF Phases
  <2>9. task'[k] = q /\ runs'[k] = run BY <1>0, <2>6, <2>8 DEF TypesInv
  <2> HIDE DEF run, q
  <2>10. TaskInv(k)' BY <1>1, <2>1, <2>2, <2>3, <2>4, <2>8, <2>9 DEF TaskInv, Started, Own, Clean
  <2>11. PairInv(k)'
    BY <1>0, <1>1, <2>1, <2>2, <2>4, <2>7, <2>8, <2>9 DEF KeyInv, PairInv, Started, Same, Clean, Unsent
  <2> QED BY <1>1, <2>1, <2>2, <2>6, <2>7, <2>8, <2>10, <2>11, Proceeds
<1> QED BY <1>2, <1>3 DEF EnsureSession

(* A turn more in one session of Hermes, and nothing else.                 *)
LEMMA TurnSent ==
    ASSUME TypesInv, NEW s \in Sessions,
           hermes' = [hermes EXCEPT ![s].turns = @ + 1, ![s].busy = TRUE]
    PROVE  /\ hermes' \in [Sessions -> Node]
           /\ hermes'[s].turns = hermes[s].turns + 1
           /\ \A u \in Sessions : u # s => hermes'[u].turns = hermes[u].turns
<1> DEFINE n == [hermes[s] EXCEPT !.turns = @ + 1, !.busy = TRUE]
<1>1. hermes[s] \in Node /\ hermes \in [Sessions -> Node] BY DEF TypesInv
<1>2. hermes[s].turns + 1 \in Nat BY <1>1 DEF Node
<1>3. n \in Node /\ n.turns = hermes[s].turns + 1 BY <1>1, <1>2 DEF Node
<1>4. hermes' = [hermes EXCEPT ![s] = n] BY <1>1
<1> HIDE DEF n
<1> QED BY <1>1, <1>3, <1>4

(* The turn is sent: nothing was sent to the session of the task before,   *)
(* and a record that names it says so.                                     *)
LEMMA SubmitKeeps ==
    ASSUME RunsInv, NEW k \in Keys, Submit(k)
    PROVE  RunsInv'
<1>0. TypesInv /\ KeyInv(k) BY DEF RunsInv
<1>1. task[k] # Idle /\ task[k].phase = "post" /\ Started(k) /\ gens' = gens
  BY DEF Submit, Idle, Started
<1>2. ASSUME NEW safe \in BOOLEAN, AttemptFails(k, safe), UNCHANGED hermes PROVE RunsInv'
  BY <1>1, <1>2, AttemptFailsKeeps
<1>3. ASSUME hermes' = [hermes EXCEPT ![Own(k)].turns = @ + 1, ![Own(k)].busy = TRUE],
             Goes(k, "chat"), UNCHANGED runs
      PROVE  RunsInv'
  <2> DEFINE g == task[k].gen
             q == Going(k, "chat")
  <2>1. g \in Generations /\ g <= gens[k] /\ Clean(<<k, g>>)
    BY <1>0, <1>1 DEF KeyInv, TaskInv, Own
  <2>2. /\ \A j \in Keys, h \in Generations : <<j, h>> \in Sessions
        /\ \A s \in Sessions : hermes[s].turns \in Nat /\ hermes[s].turns <= 1
    BY <1>0 DEF Sessions, TypesInv, Node, RunsInv, OneTurnPerSession
  <2>3. /\ hermes' \in [Sessions -> Node]
        /\ hermes'[<<k, g>>].turns = hermes[<<k, g>>].turns + 1
        /\ \A s \in Sessions : s # <<k, g>> => hermes'[s].turns = hermes[s].turns
    <3>1. Own(k) \in Sessions /\ Own(k) = <<k, g>> BY <2>1, <2>2 DEF Own
    <3>2. /\ hermes' \in [Sessions -> Node]
          /\ hermes'[Own(k)].turns = hermes[Own(k)].turns + 1
          /\ \A u \in Sessions : u # Own(k) => hermes'[u].turns = hermes[u].turns
      BY <1>0, <1>3, <3>1, TurnSent
    <3> QED BY <3>1, <3>2
  <2>4. \A s \in Sessions : hermes'[s].turns <= 1 BY <2>1, <2>2, <2>3 DEF Clean
  <2>5. \A j \in Keys \ {k}, h \in Generations : hermes'[<<j, h>>].turns = hermes[<<j, h>>].turns
    BY <2>2, <2>3
  <2>6. \A h \in Generations : h # g => (Clean(<<k, h>>)' <=> Clean(<<k, h>>))
    BY <2>2, <2>3 DEF Clean
  <2>7. /\ task' = [task EXCEPT ![k] = q] /\ q \in AnyTask \cup {Idle}
        /\ q # Idle /\ q.phase = "chat" /\ q.gen = g
    BY <1>0, <1>1, <1>3, GoesMoves DEF Phases
  <2>8. /\ task'[k] = q /\ runs'[k] = runs[k] /\ gens'[k] = gens[k] /\ runs[k] \in AnyRun \cup {NoRun}
        /\ runs' = [runs EXCEPT ![k] = runs[k]]
        /\ gens[k] \in 0..MaxGenerations
    BY <1>0, <1>1, <1>3, <2>7 DEF TypesInv
  <2>9. runs[k] # NoRun => runs[k].gen \in Generations BY <2>8 DEF AnyRun
  <2> HIDE DEF q
  <2>10. ClaimsInv(k)'
    BY <1>0, <2>1, <2>6, <2>8, ScheduleRunsAssumption DEF KeyInv, ClaimsInv, Generations
  <2>11. RecordInv(k)'
    BY <1>0, <1>1, <2>6, <2>8, <2>9 DEF KeyInv, RecordInv, PairInv, Same
  <2>12. TaskInv(k)' BY <2>1, <2>7, <2>8 DEF TaskInv, Started
  <2>13. PairInv(k)'
    BY <1>0, <1>1, <2>6, <2>7, <2>8, <2>9 DEF KeyInv, PairInv, Started, Same
  <2> QED BY <1>1, <2>3, <2>4, <2>5, <2>7, <2>8, <2>10, <2>11, <2>12, <2>13, OneKeyMoves DEF KeyInv
<1> QED BY <1>2, <1>3 DEF Submit

(* The pause of a safe failure is over, or the task has its answer.        *)
LEMMA RetryKeeps ==
    ASSUME RunsInv, NEW k \in Keys, Retry(k)
    PROVE  RunsInv'
<1> DEFINE run == Written(k, [runs[k] EXCEPT !.status = "pending", !.submitted = FALSE])
           q == IF runs[k] = NoRun THEN Idle ELSE Working("slot", runs[k])
<1>0. TypesInv /\ KeyInv(k) BY DEF RunsInv
<1>1. task[k] # Idle /\ task[k].phase = "sleep" /\ Started(k)
  BY DEF Retry, Idle, Started
<1>2. gens' = gens /\ hermes' = hermes /\ hermes' \in [Sessions -> Node] BY <1>0 DEF Retry, TypesInv
<1>3. runs' = [runs EXCEPT ![k] = run] /\ task' = [task EXCEPT ![k] = q]
  BY <1>0, UpdateRunWrites DEF Retry, Goes, Begins
<1>4. /\ run \in AnyRun \cup {NoRun}
      /\ run # NoRun => runs[k] # NoRun /\ run.gen = runs[k].gen
  BY <1>0 DEF Written, TypesInv, AnyRun
<1>5. /\ q \in AnyTask \cup {Idle}
      /\ runs[k] = NoRun => q = Idle
      /\ runs[k] # NoRun => q.phase = "slot" /\ q.gen = runs[k].gen
  BY <1>0, ScheduleRunsAssumption
     DEF TypesInv, AnyRun, AnyTask, Phases, Idle, Generations, Working
<1>6. task'[k] = q /\ runs'[k] = run BY <1>0, <1>3, <1>4, <1>5 DEF TypesInv
<1> HIDE DEF run, q
<1>7. runs[k] # NoRun => Clean(<<k, runs[k].gen>>) BY <1>1, CleanRecords
<1>8. runs[k] # NoRun => runs[k].gen \in Generations /\ runs[k].gen <= gens[k]
  BY <1>0 DEF TypesInv, AnyRun, KeyInv, RecordInv
<1>9. TaskInv(k)'
  BY <1>2, <1>5, <1>6, <1>7, <1>8 DEF TaskInv, Started, Own, Clean
<1>10. PairInv(k)' BY <1>4, <1>5, <1>6 DEF PairInv, Started, Same
<1> QED BY <1>2, <1>3, <1>4, <1>5, <1>7, <1>9, <1>10, Proceeds

LEMMA EndsKeep ==
    ASSUME RunsInv, NEW k \in Keys, Succeed(k) \/ EndFailed(k)
    PROVE  RunsInv'
<1> DEFINE done == Written(k, [runs[k] EXCEPT !.status = "succeeded"])
<1>0. TypesInv /\ KeyInv(k) BY DEF RunsInv
<1>1. /\ task' = [task EXCEPT ![k] = Idle] /\ gens' = gens /\ hermes' = hermes
      /\ hermes' \in [Sessions -> Node] /\ task'[k] = Idle
  BY <1>0 DEF Succeed, EndFailed, Goes, TypesInv
<1>2. TaskInv(k)' /\ PairInv(k)' BY <1>1 DEF TaskInv, PairInv, Started
<1>3. CASE UpdateRun(k, [runs[k] EXCEPT !.status = "succeeded"])
  <2>1. runs' = [runs EXCEPT ![k] = done] BY <1>0, <1>3, UpdateRunWrites
  <2>2. /\ done \in AnyRun \cup {NoRun}
        /\ done # NoRun => runs[k] # NoRun /\ done.gen = runs[k].gen /\ ~Unsent(done)
    BY <1>0 DEF Written, TypesInv, AnyRun, Unsent
  <2> HIDE DEF done
  <2> QED BY <1>1, <1>2, <2>1, <2>2, Proceeds
<1>4. CASE UNCHANGED runs
  <2>1. runs' = [runs EXCEPT ![k] = runs[k]] /\ runs[k] \in AnyRun \cup {NoRun}
    BY <1>0, <1>4 DEF TypesInv
  <2>2. runs[k] # NoRun /\ Unsent(runs[k]) => Clean(<<k, runs[k].gen>>) BY <1>0 DEF KeyInv, RecordInv
  <2> QED BY <1>1, <1>2, <2>1, <2>2, Proceeds
<1> QED BY <1>3, <1>4 DEF Succeed, EndFailed

LEMMA WorkKeeps ==
    ASSUME RunsInv, NEW k \in Keys, Work(k)
    PROVE  RunsInv'
<1>1. CASE Answered(k) \/ Disconnected(k)
  <2>1. task[k] # Idle /\ task[k].phase = "chat" /\ Started(k) /\ UNCHANGED <<gens, hermes>>
    <3>1. task[k].phase = "chat" BY <1>1 DEF Answered, Disconnected
    <3>2. UNCHANGED <<gens, hermes>> BY <1>1 DEF Answered, Disconnected
    <3> QED BY <3>1, <3>2 DEF Idle, Started
  <2>2. CASE AttemptFails(k, FALSE) BY <2>1, <2>2, AttemptFailsKeeps
  <2>3. CASE Goes(k, "closing") /\ UNCHANGED runs
    <3> DEFINE q == Going(k, "closing")
    <3>0. TypesInv /\ KeyInv(k) BY DEF RunsInv
    <3>1. /\ task' = [task EXCEPT ![k] = q] /\ q \in AnyTask \cup {Idle}
          /\ q # Idle /\ q.phase = "closing" /\ q.gen = task[k].gen
      BY <2>1, <2>3, <3>0, GoesMoves DEF Phases
    <3>2. /\ task'[k] = q /\ runs' = [runs EXCEPT ![k] = runs[k]] /\ runs[k] \in AnyRun \cup {NoRun}
          /\ hermes' \in [Sessions -> Node] /\ runs'[k] = runs[k] /\ gens'[k] = gens[k]
      BY <2>1, <2>3, <3>0, <3>1 DEF TypesInv
    <3> HIDE DEF q
    <3>3. TaskInv(k)' BY <2>1, <3>0, <3>1, <3>2 DEF KeyInv, TaskInv, Started
    <3>4. PairInv(k)' BY <2>1, <3>0, <3>1, <3>2 DEF KeyInv, PairInv, Started, Same, Clean
    <3>5. runs[k] # NoRun /\ Unsent(runs[k]) => Clean(<<k, runs[k].gen>>)
      BY <3>0 DEF KeyInv, RecordInv
    <3> QED BY <2>1, <3>1, <3>2, <3>3, <3>4, <3>5, Proceeds
  <2> QED BY <1>1, <2>2, <2>3 DEF Answered, Disconnected
<1> QED BY <1>1, StartKeeps, TakeSlotKeeps, EnsureSessionKeeps, SubmitKeeps, RetryKeeps, EndsKeep DEF Work
-----------------------------------------------------------------------------
(* Around the runner. *)

(* A claim: a record of a generation that no one has sent anything to.     *)
LEMMA ClaimKeeps ==
    ASSUME RunsInv, Claim
    PROVE  RunsInv'
<1> PICK k : k = CallbackKey OBVIOUS
<1> DEFINE run == NewRun(k)
<1>0. TypesInv /\ hermes' = hermes BY DEF RunsInv, Claim
<1>1. /\ runs[k] = NoRun /\ gens[k] < MaxGenerations
      /\ gens' = [gens EXCEPT ![k] = @ + 1]
      /\ runs' = [runs EXCEPT ![k] = run]
      /\ task' = Spawned({k})
  BY DEF Claim
<1>2. /\ \A j \in Keys : task'[j] = IF j = k /\ task[j] = Idle THEN Starting ELSE task[j]
      /\ task' \in [Keys -> AnyTask \cup {Idle}]
      /\ Starting # Idle /\ Starting.phase = "start"
  <2>1. Starting \in AnyTask /\ Starting # Idle /\ Starting.phase = "start"
    BY ScheduleRunsAssumption DEF Starting, AnyTask, Phases, Idle
  <2> QED BY <1>0, <1>1, <2>1 DEF Spawned, TypesInv
<1>3. \A s : Clean(s)' <=> Clean(s) BY <1>0 DEF Clean
<1>4. \A s \in Sessions : hermes'[s].turns <= 1 BY <1>0 DEF RunsInv, OneTurnPerSession
<1>5. k \in Keys => /\ gens[k] \in 0..MaxGenerations /\ gens[k] + 1 \in Generations
                    /\ run \in AnyRun /\ run # NoRun
                    /\ run.status = "pending" /\ run.gen = gens[k] + 1
  <2>1. k \in Keys => gens[k] \in 0..MaxGenerations /\ gens[k] + 1 \in Generations
    BY <1>0, <1>1, ScheduleRunsAssumption DEF TypesInv, Generations
  <2> QED BY <2>1 DEF NewRun, AnyRun, NoRun
<1>6. TypesInv'
  <2>1. gens' \in [Keys -> 0..MaxGenerations]
    <3>1. CASE k \in Keys
      <4>1. gens[k] + 1 \in 0..MaxGenerations
        BY <1>5, <3>1, ScheduleRunsAssumption DEF Generations
      <4> QED BY <1>0, <1>1, <4>1 DEF TypesInv
    <3>2. CASE k \notin Keys BY <1>0, <1>1, <3>2 DEF TypesInv
    <3> QED BY <3>1, <3>2
  <2>2. runs' \in [Keys -> AnyRun \cup {NoRun}] BY <1>0, <1>1, <1>5 DEF TypesInv
  <2> QED BY <1>0, <1>2, <2>1, <2>2 DEF TypesInv
<1>7. ASSUME NEW j \in Keys PROVE KeyInv(j)'
  <2>0. KeyInv(j) BY DEF RunsInv
  <2>1. CASE j # k
    <3>1. runs'[j] = runs[j] /\ task'[j] = task[j] /\ gens'[j] = gens[j]
      BY <1>0, <1>1, <1>2, <2>1 DEF TypesInv
    <3>2. ClaimsInv(j)' BY <1>3, <2>0, <3>1 DEF KeyInv, ClaimsInv
    <3>3. RecordInv(j)' BY <1>3, <2>0, <3>1 DEF KeyInv, RecordInv
    <3>4. TaskInv(j)' BY <1>3, <2>0, <3>1 DEF KeyInv, TaskInv, Started, Own
    <3>5. PairInv(j)' BY <1>3, <2>0, <3>1 DEF KeyInv, PairInv, Started, Same
    <3> QED BY <3>2, <3>3, <3>4, <3>5 DEF KeyInv
  <2>2. CASE j = k
    <3>1. /\ runs'[k] = run /\ gens'[k] = gens[k] + 1 /\ k \in Keys
          /\ task'[k] = IF task[k] = Idle THEN Starting ELSE task[k]
      BY <1>0, <1>1, <1>2, <2>2 DEF TypesInv
    <3> HIDE DEF run
    <3>2. Clean(<<k, run.gen>>)
      BY <1>5, <2>0, <2>2, <3>1 DEF KeyInv, ClaimsInv
    <3>3. ClaimsInv(k)'
      BY <1>3, <1>5, <2>0, <2>2, <3>1 DEF KeyInv, ClaimsInv, Generations
    <3>4. RecordInv(k)' BY <1>3, <1>5, <3>1, <3>2 DEF RecordInv
    <3>5. Started(k)' => Started(k) /\ task'[k] = task[k]
      BY <1>2, <3>1 DEF Started
    <3>6. task[k] # Idle /\ task[k].gen \in Generations /\ task[k].gen <= gens[k] =>
              task[k].gen <= gens'[k] /\ task[k].gen # run.gen
      BY <1>5, <3>1 DEF Generations
    <3>7. TaskInv(k)'
      BY <1>3, <1>5, <2>0, <2>2, <3>1, <3>5, <3>6 DEF KeyInv, TaskInv, Started, Own
    <3>8. PairInv(k)'
      BY <1>3, <2>0, <2>2, <3>1, <3>2, <3>5, <3>6 DEF KeyInv, TaskInv, PairInv, Started, Same
    <3> QED BY <2>2, <3>3, <3>4, <3>7, <3>8 DEF KeyInv
  <2> QED BY <2>1, <2>2
<1> QED BY <1>4, <1>6, <1>7 DEF RunsInv, OneTurnPerSession

(* Hermes changes something else than the number of turns.                *)
LEMMA TurnsStay ==
    ASSUME RunsInv, UNCHANGED <<runs, gens, task>>, hermes' \in [Sessions -> Node],
           \A s \in Sessions : hermes'[s].turns = hermes[s].turns
    PROVE  RunsInv'
<1>1. TypesInv' BY DEF RunsInv, TypesInv
<1>2. OneTurnPerSession' BY DEF RunsInv, OneTurnPerSession
<1>3. ASSUME NEW k \in Keys PROVE KeyInv(k)'
  <2>1. \A g \in Generations : Clean(<<k, g>>)' <=> Clean(<<k, g>>) BY DEF Clean, Sessions
  <2>2. KeyInv(k) BY DEF RunsInv
  <2>3. runs[k] # NoRun => runs[k].gen \in Generations BY DEF RunsInv, TypesInv, AnyRun
  <2>4. ClaimsInv(k)' BY <2>1, <2>2 DEF KeyInv, ClaimsInv
  <2>5. RecordInv(k)' BY <2>1, <2>2, <2>3 DEF KeyInv, RecordInv
  <2>6. TaskInv(k)' BY <2>1, <2>2 DEF KeyInv, TaskInv, Started, Own
  <2>7. PairInv(k)' BY <2>1, <2>2, <2>3 DEF KeyInv, PairInv, Started, Same
  <2> QED BY <2>4, <2>5, <2>6, <2>7 DEF KeyInv
<1> QED BY <1>1, <1>2, <1>3 DEF RunsInv

(* Steps that forget tasks, or start those of records that can be resumed. *)
LEMMA TasksBegin ==
    ASSUME RunsInv, UNCHANGED <<runs, gens, hermes>>,
           task' \in [Keys -> AnyTask \cup {Idle}],
           \A k \in Keys : \/ task'[k] \in {task[k], Idle}
                           \/ task'[k] = Starting /\ Unfinished(k)
    PROVE  RunsInv'
<1>1. TypesInv' BY DEF RunsInv, TypesInv
<1>2. OneTurnPerSession' BY DEF RunsInv, OneTurnPerSession
<1>3. ASSUME NEW k \in Keys PROVE KeyInv(k)'
  <2>1. \A s : Clean(s)' <=> Clean(s) BY DEF Clean
  <2>2. KeyInv(k) BY DEF RunsInv
  <2>3. CASE task'[k] = task[k]
    BY <2>1, <2>2, <2>3 DEF KeyInv, ClaimsInv, RecordInv, TaskInv, PairInv, Started, Same, Own
  <2>4. CASE task'[k] = Idle
    BY <2>1, <2>2, <2>4 DEF KeyInv, ClaimsInv, RecordInv, TaskInv, PairInv, Started
  <2>5. CASE task'[k] = Starting /\ Unfinished(k)
    <3>1. task'[k].phase = "start" BY <2>5 DEF Starting
    <3> QED BY <2>1, <2>2, <2>5, <3>1
            DEF KeyInv, ClaimsInv, RecordInv, TaskInv, PairInv, Started, Unfinished
  <2> QED BY <2>3, <2>4, <2>5
<1> QED BY <1>1, <1>2, <1>3 DEF RunsInv

LEMMA AroundKeeps ==
    ASSUME RunsInv, \/ Crash \/ Restart \/ TimePasses \/ \E s \in Sessions : TurnEnds(s)
                    \/ UNCHANGED <<runs, gens, task, hermes>>
    PROVE  RunsInv'
<1>0. TypesInv BY DEF RunsInv
<1>1. CASE Crash
  <2>1. task' = [k \in Keys |-> Idle] /\ UNCHANGED <<runs, gens, hermes>> BY <1>1 DEF Crash
  <2> QED BY <2>1, TasksBegin
<1>2. CASE Restart
  <2>1. task' = Spawned(Resumable) /\ UNCHANGED <<runs, gens, hermes>> BY <1>2 DEF Restart
  <2>2. Starting \in AnyTask BY ScheduleRunsAssumption DEF Starting, AnyTask, Phases
  <2>3. task' \in [Keys -> AnyTask \cup {Idle}] BY <1>0, <2>1, <2>2 DEF Spawned, TypesInv
  <2>4. \A k \in Keys : task'[k] = task[k] \/ (task'[k] = Starting /\ Unfinished(k))
    BY <2>1 DEF Spawned, Resumable
  <2> QED BY <2>1, <2>3, <2>4, TasksBegin
<1>3. CASE TimePasses \/ UNCHANGED <<runs, gens, task, hermes>>
  <2>1. UNCHANGED <<runs, gens, task, hermes>> BY <1>3 DEF TimePasses
  <2> QED BY <1>0, <2>1, TasksBegin DEF TypesInv
<1>4. ASSUME NEW s \in Sessions, TurnEnds(s) PROVE RunsInv'
  <2>1. UNCHANGED <<runs, gens, task>> BY <1>4 DEF TurnEnds
  <2>2. PICK r \in BOOLEAN : hermes' = [hermes EXCEPT ![s].busy = FALSE, ![s].report = @ \/ r]
    BY <1>4 DEF TurnEnds
  <2>3. hermes' \in [Sessions -> Node] /\ \A u \in Sessions : hermes'[u].turns = hermes[u].turns
    <3> DEFINE n == [hermes[s] EXCEPT !.busy = FALSE, !.report = @ \/ r]
    <3>1. hermes[s] \in Node /\ hermes \in [Sessions -> Node] BY <1>0 DEF TypesInv
    <3>2. n \in Node /\ n.turns = hermes[s].turns BY <3>1 DEF Node
    <3>3. hermes' = [hermes EXCEPT ![s] = n] BY <2>2, <3>1
    <3> HIDE DEF n
    <3> QED BY <3>1, <3>2, <3>3
  <2> QED BY <2>1, <2>3, TurnsStay
<1> QED BY <1>1, <1>2, <1>3, <1>4

LEMMA DeleteSessionKeeps ==
    ASSUME RunsInv, NEW k \in Keys, DeleteSession(k)
    PROVE  RunsInv'
<1> DEFINE s == <<k, runs[k].gen>>
<1>0. TypesInv /\ KeyInv(k) BY DEF RunsInv
<1>1. /\ UNCHANGED <<gens, task>> /\ runs' = [runs EXCEPT ![k] = NoRun]
      /\ hermes' = [hermes EXCEPT ![s].open = FALSE, ![s].report = FALSE]
  BY DEF DeleteSession
<1>2. hermes' \in [Sessions -> Node] /\ \A u \in Sessions : hermes'[u].turns = hermes[u].turns
  BY <1>0, <1>1 DEF TypesInv, Node
<1>3. /\ task' = [task EXCEPT ![k] = task[k]] /\ task[k] \in AnyTask \cup {Idle}
      /\ runs'[k] = NoRun /\ task'[k] = task[k] /\ gens'[k] = gens[k]
  BY <1>0, <1>1 DEF TypesInv
<1>4. PairInv(k)' BY <1>3 DEF PairInv
<1>5. \A g \in Generations : Clean(<<k, g>>)' <=> Clean(<<k, g>>) BY <1>2 DEF Clean, Sessions
<1>6. TaskInv(k)' BY <1>0, <1>3, <1>5 DEF KeyInv, TaskInv, Started, Own
<1> HIDE DEF s
<1> QED BY <1>1, <1>2, <1>3, <1>4, <1>6, Proceeds

-----------------------------------------------------------------------------
(* What steps of the routes leave to the runs.                             *)
LEMMA RoutesKeepRuns ==
    ASSUME NEW c \in Clients, Ask(c) \/ Serve(c)
    PROVE  UNCHANGED <<runs, gens, task, hermes>>
<1>1. Ask(c) => Keep
  BY DEF Ask, Create, Update, SetEnabled, RunNow, Delete, Refresh
<1>2. Serve(c) => Keep
  BY DEF Serve, CreateJob, UpdatePauseOld, UpdateJob, UpdatePauseNew, UpdateCleansUp,
         SetEnabledCall, RunNowCall, DeleteCall, RefreshGet, RefreshStore
<1> QED BY <1>1, <1>2 DEF Keep

(* The steps that concern the runs.                                        *)
LEMMA NextSplits ==
    ASSUME [Next]_vars
    PROVE  \/ \E k \in Keys : Work(k) \/ DeleteSession(k)
           \/ Claim \/ Crash \/ Restart \/ TimePasses
           \/ \E s \in Sessions : TurnEnds(s)
           \/ UNCHANGED <<runs, gens, task, hermes>>
<1>1. CASE RunStep BY <1>1 DEF RunStep
<1>2. ASSUME NEW c \in Clients, Ask(c) \/ Serve(c) PROVE UNCHANGED <<runs, gens, task, hermes>>
  BY <1>2, RoutesKeepRuns
<1>3. ASSUME NEW j \in Jobs, Fire(j) PROVE Claim \/ UNCHANGED <<runs, gens, task, hermes>>
  BY <1>3 DEF Fire, runVars
<1>4. CASE ServiceCrash BY <1>4 DEF ServiceCrash
<1>5. CASE UNCHANGED vars BY <1>5 DEF vars, runVars
<1> QED BY <1>1, <1>2, <1>3, <1>4, <1>5 DEF Next

(* What was sent to Hermes, what the records say and what the tasks do     *)
(* agree, whatever is deleted, claimed again or crashes.                   *)
THEOREM RunsAgree == Spec => []RunsInv
<1>1. Init => RunsInv
  <2> SUFFICES ASSUME Init PROVE RunsInv OBVIOUS
  <2>0. RunInit BY DEF Init
  <2>1. TypesInv
    <3>1. 0 \in 0..MaxGenerations BY ScheduleRunsAssumption
    <3> QED BY <2>0, <3>1 DEF RunInit, TypesInv, Node
  <2>2. OneTurnPerSession BY <2>0 DEF RunInit, OneTurnPerSession
  <2>3. ASSUME NEW k \in Keys PROVE KeyInv(k)
    <3>1. runs[k] = NoRun /\ task[k] = Idle BY <2>0 DEF RunInit
    <3>2. \A g \in Generations : Clean(<<k, g>>) BY <2>0 DEF RunInit, Clean, Sessions
    <3> QED BY <3>1, <3>2 DEF KeyInv, ClaimsInv, RecordInv, TaskInv, PairInv, Started
  <2> QED BY <2>1, <2>2, <2>3 DEF RunsInv
<1>2. RunsInv /\ [Next]_vars => RunsInv'
  BY NextSplits, WorkKeeps, DeleteSessionKeeps, ClaimKeeps, AroundKeeps
<1> QED BY <1>1, <1>2, PTL DEF Spec

(* Each session of a scheduled run is sent at most one turn, for any       *)
(* number of callbacks, retries, crashes, deletions and repeated claims of *)
(* one key (spawn, _run and resume_pending of ScheduledReportRunner).      *)
THEOREM NoTurnTwice == Spec => []OneTurnPerSession
<1>1. RunsInv => OneTurnPerSession BY DEF RunsInv
<1> QED BY <1>1, RunsAgree, PTL

-----------------------------------------------------------------------------
(* As long as no key is claimed again, a task that closes its session has  *)
(* seen the report of the record that it then completes.                   *)
Closing(k) == task[k] # Idle /\ task[k].phase = "closing"

Done(k) == runs[k].status = "succeeded"

ReportInv(k) == runs[k] # NoRun /\ (Done(k) \/ Closing(k)) => HasReport(<<k, runs[k].gen>>)

ReportsInv == \A k \in Keys : ReportInv(k)
ClaimedOnce == MaxGenerations <= 1

(* With one generation every session of a key is the same one.             *)
LEMMA OneSession ==
    ASSUME RunsInv, ClaimedOnce, NEW k \in Keys
    PROVE  /\ runs[k] # NoRun => runs[k].gen = 1 /\ gens[k] = 1 /\ 1 \in Generations
           /\ Started(k) => task[k].gen = 1 /\ gens[k] = 1 /\ 1 \in Generations
<1>1. TypesInv /\ KeyInv(k) BY DEF RunsInv
<1>2. gens[k] \in 0..MaxGenerations BY <1>1 DEF TypesInv
<1>3. \A g \in Generations : g = 1 BY ScheduleRunsAssumption DEF ClaimedOnce, Generations
<1>4. runs[k] # NoRun => runs[k].gen \in Generations /\ runs[k].gen <= gens[k]
  BY <1>1 DEF TypesInv, AnyRun, KeyInv, RecordInv
<1>5. Started(k) => task[k].gen \in Generations /\ task[k].gen <= gens[k]
  BY <1>1 DEF KeyInv, TaskInv
<1> QED BY <1>2, <1>3, <1>4, <1>5, ScheduleRunsAssumption DEF ClaimedOnce

(* A key whose record is only completed by a task that closes its session, *)
(* and whose report stays.                                                 *)
LEMMA ReportStays ==
    ASSUME RunsInv, RunsInv', ClaimedOnce, NEW k \in Keys, ReportInv(k),
           runs'[k] # NoRun => runs[k] # NoRun,
           runs'[k] # NoRun /\ Done(k)' => Done(k) \/ Closing(k),
           runs'[k] # NoRun /\ Closing(k)' => Closing(k) \/ Done(k) \/ HasReport(<<k, 1>>),
           runs'[k] # NoRun /\ HasReport(<<k, 1>>) => HasReport(<<k, 1>>)'
    PROVE  ReportInv(k)'
<1>1. runs[k] # NoRun => runs[k].gen = 1 BY OneSession
<1>2. runs'[k] # NoRun => runs'[k].gen = 1
  <2>1. TypesInv' /\ 1 \in Nat BY DEF RunsInv
  <2>2. \A g \in Generations : g = 1 BY ScheduleRunsAssumption DEF ClaimedOnce, Generations
  <2> QED BY <2>1, <2>2 DEF TypesInv, AnyRun
<1> QED BY <1>1, <1>2 DEF ReportInv

LEMMA WorkKeepsReports ==
    ASSUME RunsInv, RunsInv', ClaimedOnce, ReportsInv, NEW k \in Keys, Work(k)
    PROVE  ReportsInv'
<1>0. TypesInv BY DEF RunsInv
<1>1. \A j \in Keys \ {k} : runs'[j] = runs[j] /\ task'[j] = task[j]
  BY <1>0 DEF TypesInv, Work, Start, TakeSlot, EnsureSession, Submit, Answered, Disconnected, Retry,
              Succeed, EndFailed, AttemptFails, UpdateRun, Goes, Begins
<1>2. \A s \in Sessions : HasReport(s)' = HasReport(s)
  <2>1. \/ hermes' = hermes
        \/ hermes' = [hermes EXCEPT ![<<k, task[k].target>>].open = TRUE]
        \/ hermes' = [hermes EXCEPT ![Own(k)].turns = @ + 1, ![Own(k)].busy = TRUE]
    BY DEF Work, Start, TakeSlot, EnsureSession, Submit, Answered, Disconnected, Retry, Succeed, EndFailed
  <2>2. ASSUME NEW s \in Sessions PROVE hermes'[s].report = hermes[s].report
    <3>1. hermes[s] \in Node BY <1>0 DEF TypesInv
    <3>2. hermes' = hermes => hermes'[s].report = hermes[s].report OBVIOUS
    <3>3. \A u : hermes' = [hermes EXCEPT ![u].open = TRUE] => hermes'[s].report = hermes[s].report
      BY <1>0, <3>1 DEF TypesInv, Node
    <3>4. \A u : hermes' = [hermes EXCEPT ![u].turns = @ + 1, ![u].busy = TRUE] =>
                   hermes'[s].report = hermes[s].report
      BY <1>0, <3>1 DEF TypesInv, Node
    <3> QED BY <2>1, <3>2, <3>3, <3>4
  <2> QED BY <2>2 DEF HasReport
<1>3. ASSUME NEW j \in Keys, j # k PROVE ReportInv(j)'
  <2>1. runs[j] # NoRun => 1 \in Generations BY OneSession
  <2>2. runs'[j] # NoRun /\ HasReport(<<j, 1>>) => HasReport(<<j, 1>>)'
    BY <1>1, <1>2, <1>3, <2>1 DEF Sessions
  <2> QED BY <1>1, <1>3, <2>2, ReportStays DEF ReportsInv, Done, Closing
<1>4. ReportInv(k)'
  <2>1. runs[k] # NoRun => 1 \in Generations BY OneSession
  <2>2. runs'[k] # NoRun => runs[k] # NoRun
    BY <1>0 DEF TypesInv, Work, Start, TakeSlot, EnsureSession, Submit, Answered, Disconnected, Retry,
                Succeed, EndFailed, AttemptFails, UpdateRun
  <2>3. runs'[k] # NoRun /\ HasReport(<<k, 1>>) => HasReport(<<k, 1>>)'
    BY <1>2, <2>1, <2>2 DEF Sessions
  <2>4. runs'[k] # NoRun /\ Done(k)' => Done(k) \/ Closing(k)
    <3>1. \A run : UpdateRun(k, run) => runs'[k] = IF runs[k] = NoRun THEN NoRun ELSE run
      BY <1>0 DEF UpdateRun, TypesInv
    <3>2. runs[k] # NoRun => runs[k] \in AnyRun BY <1>0 DEF TypesInv
    <3>3. \/ runs' = runs
          \/ UpdateRun(k, [runs[k] EXCEPT !.status = "failed"])
          \/ UpdateRun(k, [runs[k] EXCEPT !.status = "running", !.attempts = task[k].read + 1])
          \/ UpdateRun(k, [runs[k] EXCEPT !.submitted = TRUE])
          \/ UpdateRun(k, [runs[k] EXCEPT !.status = "pending", !.submitted = FALSE])
          \/ Succeed(k)
      BY DEF Work, Start, TakeSlot, EnsureSession, Submit, Answered, Disconnected, Retry, EndFailed,
             AttemptFails
    <3>4. Succeed(k) => Closing(k) BY DEF Succeed, Closing, Idle
    <3>5. runs[k] # NoRun =>
              /\ [runs[k] EXCEPT !.status = "failed"].status = "failed"
              /\ [runs[k] EXCEPT !.status = "running", !.attempts = task[k].read + 1].status = "running"
              /\ [runs[k] EXCEPT !.submitted = TRUE].status = runs[k].status
              /\ [runs[k] EXCEPT !.status = "pending", !.submitted = FALSE].status = "pending"
      BY <3>2 DEF AnyRun
    <3> QED BY <2>2, <3>1, <3>3, <3>4, <3>5 DEF Done
  <2>5. runs'[k] # NoRun /\ Closing(k)' => Closing(k) \/ Done(k) \/ HasReport(<<k, 1>>)
    <3> SUFFICES ASSUME runs'[k] # NoRun, Closing(k)', ~Closing(k) PROVE HasReport(<<k, 1>>)
      OBVIOUS
    <3>1. runs[k] # NoRun /\ runs[k].gen = 1 BY <2>2, OneSession
    <3>2. task[k] \in AnyTask \cup {Idle} BY <1>0 DEF TypesInv
    <3>3. ~(task'[k] = Idle) BY DEF Closing
    <3>4. \A phase \in Phases : Goes(k, phase) /\ task[k] # Idle => phase = "closing"
      <4> SUFFICES ASSUME NEW phase \in Phases, Goes(k, phase), task[k] # Idle PROVE phase = "closing"
        OBVIOUS
      <4>1. task' = [task EXCEPT ![k] = Going(k, phase)] /\ Going(k, phase) \in AnyTask \cup {Idle}
            /\ (phase # "none" => Going(k, phase).phase = phase)
        BY <1>0, GoesMoves
      <4>2. task'[k] = Going(k, phase) BY <1>0, <4>1 DEF TypesInv
      <4> QED BY <3>3, <4>1, <4>2 DEF Closing, Going
    <3>5. Start(k) => HasReport(<<k, 1>>)
      <4> SUFFICES ASSUME Start(k) PROVE HasReport(<<k, 1>>) OBVIOUS
      <4>1. task[k] # Idle BY DEF Start, Idle
      <4>2. ~Goes(k, "none") BY <3>4, <4>1 DEF Phases
      <4>3. Begins(k, "slot") => task'[k].phase = "slot" BY <1>0 DEF Begins, Working, TypesInv
      <4>4. ~Begins(k, "slot") BY <4>3 DEF Closing
      <4> QED BY <3>1, <4>2, <4>4 DEF Start
    <3>6. EnsureSession(k) \/ Answered(k) => HasReport(<<k, 1>>)
      <4> SUFFICES ASSUME EnsureSession(k) \/ Answered(k) PROVE HasReport(<<k, 1>>) OBVIOUS
      <4>1. task[k] # Idle /\ Started(k)
        <5>1. task[k].phase \in {"session", "chat"} BY DEF EnsureSession, Answered
        <5> QED BY <5>1 DEF Idle, Started
      <4>2. ~Goes(k, "post") /\ ~Goes(k, "sleep") /\ ~Goes(k, "ending") BY <3>4, <4>1 DEF Phases
      <4>3. \A safe \in BOOLEAN : ~AttemptFails(k, safe) BY <4>2 DEF AttemptFails
      <4>4. Reported(k) BY <4>2, <4>3 DEF EnsureSession, Answered
      <4> QED BY <4>1, <4>4, OneSession DEF Reported, Own
    <3>7. ~(TakeSlot(k) \/ Retry(k))
      <4>1. TakeSlot(k) => task'[k] = [task[k] EXCEPT !.phase = "session", !.target = runs[k].gen]
        BY <1>0, <3>1 DEF TakeSlot, TypesInv
      <4>2. TakeSlot(k) => task[k] \in AnyTask BY <3>2 DEF TakeSlot, Idle
      <4>3. TakeSlot(k) => task'[k].phase = "session" BY <4>1, <4>2 DEF AnyTask
      <4>4. Retry(k) => task'[k].phase = "slot" BY <1>0, <3>1 DEF Retry, Begins, Working, TypesInv
      <4> QED BY <4>3, <4>4 DEF Closing
    <3>8. ~(Submit(k) \/ Disconnected(k) \/ EndFailed(k) \/ Succeed(k))
      <4>1. Submit(k) \/ Disconnected(k) \/ EndFailed(k) \/ Succeed(k) =>
                task[k] # Idle /\ \E phase \in Phases \ {"closing"} : Goes(k, phase)
        <5>1. Submit(k) \/ Disconnected(k) \/ EndFailed(k) =>
                  task[k].phase \in {"post", "chat", "ending"}
          BY DEF Submit, Disconnected, EndFailed
        <5>2. Succeed(k) => task[k].phase = "closing" /\ Goes(k, "none") BY DEF Succeed
        <5>3. \A safe \in BOOLEAN : AttemptFails(k, safe) => Goes(k, "sleep") \/ Goes(k, "ending")
          BY DEF AttemptFails
        <5>4. Submit(k) => Goes(k, "chat") \/ \E safe \in BOOLEAN : AttemptFails(k, safe)
          BY DEF Submit
        <5>5. Disconnected(k) => AttemptFails(k, FALSE) BY DEF Disconnected
        <5>6. EndFailed(k) => Goes(k, "none") BY DEF EndFailed
        <5>7. {"chat", "none", "sleep", "ending"} \subseteq Phases \ {"closing"} BY DEF Phases
        <5>8. task[k].phase \in {"post", "chat", "ending", "closing"} => task[k] # Idle BY DEF Idle
        <5> QED BY <5>1, <5>2, <5>3, <5>4, <5>5, <5>6, <5>7, <5>8
      <4> QED BY <3>4, <4>1
    <3> QED BY <3>5, <3>6, <3>7, <3>8 DEF Work
  <2> QED BY <2>2, <2>3, <2>4, <2>5, ReportStays DEF ReportsInv
<1> QED BY <1>3, <1>4 DEF ReportsInv
LEMMA AroundKeepsReports ==
    ASSUME RunsInv, RunsInv', ClaimedOnce, ReportsInv,
           \/ \E k \in Keys : DeleteSession(k)
           \/ Claim \/ Crash \/ Restart \/ TimePasses
           \/ \E s \in Sessions : TurnEnds(s)
           \/ UNCHANGED <<runs, gens, task, hermes>>
    PROVE  ReportsInv'
<1>0. TypesInv BY DEF RunsInv
<1>1. ASSUME NEW j \in Keys, DeleteSession(j), NEW k \in Keys PROVE ReportInv(k)'
  <2>1. task' = task /\ runs' = [runs EXCEPT ![j] = NoRun]
        /\ hermes' = [hermes EXCEPT ![<<j, runs[j].gen>>].open = FALSE, ![<<j, runs[j].gen>>].report = FALSE]
    BY <1>1 DEF DeleteSession
  <2>2. CASE k = j
    <3>1. runs'[k] = NoRun BY <1>0, <2>1, <2>2 DEF TypesInv
    <3> QED BY <3>1 DEF ReportInv
  <2>3. CASE k # j
    <3>1. runs'[k] = runs[k] BY <1>0, <2>1, <2>3 DEF TypesInv
    <3>2. \A g \in Generations : hermes'[<<k, g>>] = hermes[<<k, g>>]
      BY <1>0, <2>1, <2>3 DEF TypesInv, Sessions
    <3>3. runs[k] # NoRun => 1 \in Generations BY OneSession
    <3> QED BY <2>1, <3>1, <3>2, <3>3, ReportStays DEF ReportsInv, Done, Closing, HasReport
  <2> QED BY <2>2, <2>3
<1>2. ASSUME Claim, NEW k \in Keys PROVE ReportInv(k)'
  <2> PICK c : c = CallbackKey OBVIOUS
  <2>1. /\ hermes' = hermes /\ runs[c] = NoRun /\ gens[c] < MaxGenerations
        /\ runs' = [runs EXCEPT ![c] = NewRun(c)] /\ task' = Spawned({c})
    BY <1>2 DEF Claim
  <2>2. task'[k] = IF k = c /\ task[k] = Idle THEN Starting ELSE task[k] BY <2>1 DEF Spawned
  <2>3. Closing(k)' => Closing(k) BY <2>2 DEF Closing, Starting
  <2>4. CASE k = c
    <3>1. runs'[k] = NewRun(k) BY <1>0, <2>1, <2>4 DEF TypesInv
    <3>2. ~Done(k)' BY <3>1 DEF Done, NewRun
    <3>3. gens[k] # 1
      BY <1>0, <2>1, <2>4, ScheduleRunsAssumption DEF TypesInv, ClaimedOnce
    <3>4. ~Started(k) BY <3>3, OneSession
    <3>5. ~Closing(k) BY <3>4 DEF Closing, Started
    <3> QED BY <2>3, <3>2, <3>5 DEF ReportInv
  <2>5. CASE k # c
    <3>1. runs'[k] = runs[k] BY <1>0, <2>1, <2>5 DEF TypesInv
    <3> QED BY <2>1, <2>3, <3>1, ReportStays DEF ReportsInv, Done, HasReport
  <2> QED BY <2>4, <2>5
<1>3. ASSUME UNCHANGED <<runs, hermes>>, NEW k \in Keys, Closing(k)' => Closing(k)
      PROVE  ReportInv(k)'
  BY <1>3, ReportStays DEF ReportsInv, Done, HasReport
<1>4. ASSUME Crash, NEW k \in Keys PROVE ReportInv(k)'
  <2>1. UNCHANGED <<runs, hermes>> /\ task'[k] = Idle BY <1>4 DEF Crash
  <2> QED BY <1>3, <2>1 DEF Closing
<1>5. ASSUME Restart, NEW k \in Keys PROVE ReportInv(k)'
  <2>1. UNCHANGED <<runs, hermes>> /\ task'[k] \in {task[k], Starting} BY <1>5 DEF Restart, Spawned
  <2>2. Starting.phase = "start" BY DEF Starting
  <2> QED BY <1>3, <2>1, <2>2 DEF Closing
<1>6. ASSUME TimePasses \/ UNCHANGED <<runs, gens, task, hermes>>, NEW k \in Keys PROVE ReportInv(k)'
  <2>1. UNCHANGED <<runs, task, hermes>> BY <1>6 DEF TimePasses
  <2> QED BY <1>3, <2>1 DEF Closing
<1>7. ASSUME NEW s \in Sessions, TurnEnds(s), NEW k \in Keys PROVE ReportInv(k)'
  <2>1. UNCHANGED <<runs, task>> BY <1>7 DEF TurnEnds
  <2>2. PICK r \in BOOLEAN : hermes' = [hermes EXCEPT ![s].busy = FALSE, ![s].report = @ \/ r]
    BY <1>7 DEF TurnEnds
  <2>3. ASSUME NEW u \in Sessions, HasReport(u) PROVE HasReport(u)'
    <3>1. hermes[u] \in Node /\ hermes[u].report BY <1>0, <2>3 DEF TypesInv, HasReport
    <3> QED BY <1>0, <2>2, <3>1 DEF TypesInv, Node, HasReport
  <2>4. runs[k] # NoRun => <<k, 1>> \in Sessions BY OneSession DEF Sessions
  <2> QED BY <2>1, <2>3, <2>4, ReportStays DEF ReportsInv, Done, Closing
<1> QED BY <1>1, <1>2, <1>4, <1>5, <1>6, <1>7 DEF ReportsInv

(* A scheduled run succeeds only with a report file in its session, as     *)
(* long as no key is claimed again after its session was deleted; if one   *)
(* is, the task of the first claim may complete the record of the second   *)
(* (_generate_report and _close_session of ScheduledReportRunner).         *)
THEOREM ReportedWhenDone == ClaimedOnce => (Spec => []SuccessHasReport)
<1> SUFFICES ASSUME ClaimedOnce PROVE Spec => []SuccessHasReport OBVIOUS
<1>1. Init => ReportsInv BY DEF Init, RunInit, ReportsInv, ReportInv
<1>2. RunsInv /\ RunsInv' /\ ReportsInv /\ [Next]_vars => ReportsInv'
  BY NextSplits, WorkKeepsReports, AroundKeepsReports
<1>3. ReportsInv => SuccessHasReport BY DEF ReportsInv, ReportInv, SuccessHasReport, Done
<1> QED BY <1>1, <1>2, <1>3, RunsAgree, PTL DEF Spec

-----------------------------------------------------------------------------
(***************************************************************************)
(* The types of the runs and of the routes.  A task that waits for a slot  *)
(* or pauses has an attempt left, and the request of a route that changes  *)
(* a schedule has seen one.                                                *)
(***************************************************************************)

Task == {Idle} \cup
        [phase : Phases, gen : 0..MaxGenerations, read : 0..MaxAttempts, target : 0..MaxGenerations]

AttemptLeft(run, q) ==
    /\ q.phase = "slot" => q.read < MaxAttempts
    /\ q.phase = "sleep" /\ run # NoRun => run.attempts < MaxAttempts

RunTypes ==
    /\ record \in Schedule \cup {Absent}
    /\ runs \in [Keys -> Run \cup {NoRun}]
    /\ gens \in [Keys -> 0..MaxGenerations]
    /\ task \in [Keys -> Task]
    /\ hermes \in [Sessions -> Node]
    /\ period \in 1..MaxPeriods /\ fresh \in BOOLEAN /\ up \in BOOLEAN
    /\ crashes \in 0..MaxCrashes /\ deletions \in 0..MaxDeletions
    /\ \A k \in Keys : AttemptLeft(runs[k], task[k])

Seen(q) == q.op \notin {"none", "create"} => q.seen \in Schedule

RouteTypes ==
    /\ jobs \in [Jobs -> Job \cup {Unused}]
    /\ script \in BOOLEAN
    /\ route \in [Clients -> RouteOK \cup {NoRoute}]
    /\ \A c \in Clients : Seen(route[c])
    /\ requests \in 0..MaxRequests /\ refusals \in 0..MaxRefusals
    /\ doubts \in Nat /\ markers \in 0..MaxMarkers

(* One key moves, with its record and its task. *)
LEMMA KeyStaysTyped ==
    ASSUME RunTypes, NEW k \in Keys, NEW run \in Run \cup {NoRun}, NEW q \in Task,
           runs' = [runs EXCEPT ![k] = run], task' = [task EXCEPT ![k] = q],
           AttemptLeft(run, q),
           record' \in Schedule \cup {Absent}, hermes' \in [Sessions -> Node],
           UNCHANGED <<gens, period, fresh, up, crashes>>, deletions' \in 0..MaxDeletions
    PROVE  RunTypes'
<1>1. runs' \in [Keys -> Run \cup {NoRun}] /\ task' \in [Keys -> Task] BY DEF RunTypes
<1>2. \A j \in Keys : AttemptLeft(runs'[j], task'[j]) BY DEF RunTypes
<1> QED BY <1>1, <1>2 DEF RunTypes, Task

LEMMA WrittenIsTyped ==
    ASSUME RunTypes, NEW k \in Keys, NEW run, runs[k] # NoRun => run \in Run, UpdateRun(k, run)
    PROVE  /\ runs' = [runs EXCEPT ![k] = Written(k, run)]
           /\ Written(k, run) \in Run \cup {NoRun}
           /\ record' \in Schedule \cup {Absent}
<1>1. runs' = [runs EXCEPT ![k] = Written(k, run)] BY DEF UpdateRun, Written, RunTypes
<1>2. Written(k, run) \in Run \cup {NoRun} BY DEF Written
<1>3. record' \in Schedule \cup {Absent}
  BY DEF UpdateRun, Mirrored, RunTypes, Schedule, Live, Absent
<1> QED BY <1>1, <1>2, <1>3

LEMMA GoingIsTyped ==
    ASSUME RunTypes, NEW k \in Keys, NEW phase \in Phases, task[k] # Idle, Goes(k, phase)
    PROVE  /\ task' = [task EXCEPT ![k] = Going(k, phase)]
           /\ Going(k, phase) \in Task
           /\ Going(k, phase).phase = phase
<1>1. task[k] \in Task /\ task[k] # Idle BY DEF RunTypes
<1> QED BY <1>1 DEF Goes, Going, Task, Idle

LEMMA BeginningIsTyped ==
    ASSUME RunTypes, NEW k \in Keys, NEW phase \in Phases, runs[k] # NoRun, Begins(k, phase)
    PROVE  /\ task' = [task EXCEPT ![k] = Working(phase, runs[k])]
           /\ Working(phase, runs[k]) \in Task
           /\ Working(phase, runs[k]).phase = phase
           /\ Working(phase, runs[k]).read = runs[k].attempts
<1>1. runs[k] \in Run BY DEF RunTypes
<1>2. runs[k].gen \in 0..MaxGenerations /\ runs[k].attempts \in 0..MaxAttempts
  BY <1>1, ScheduleRunsAssumption DEF Run, Generations
<1> QED BY <1>2 DEF Begins, Working, Task

(* The record of a run that changes in one field. *)
LEMMA RunFields ==
    ASSUME NEW run \in Run
    PROVE  /\ \A status \in {"pending", "running", "succeeded", "failed"} :
                  /\ [run EXCEPT !.status = status] \in Run
                  /\ [run EXCEPT !.status = status].attempts = run.attempts
           /\ [run EXCEPT !.submitted = TRUE] \in Run
           /\ [run EXCEPT !.status = "pending", !.submitted = FALSE] \in Run
           /\ \A n \in 0..MaxAttempts : [run EXCEPT !.status = "running", !.attempts = n] \in Run
BY DEF Run

LEMMA AttemptFailsTyped ==
    ASSUME RunTypes, NEW k \in Keys, task[k] # Idle, NEW safe \in BOOLEAN, AttemptFails(k, safe),
           UNCHANGED <<gens, period, fresh, up, crashes, deletions>>,
           hermes' \in [Sessions -> Node]
    PROVE  RunTypes'
<1> DEFINE failed == [runs[k] EXCEPT !.status = "failed"]
           phase == IF Retries(k, safe) THEN "sleep" ELSE "ending"
<1>1. runs[k] # NoRun => runs[k] \in Run BY DEF RunTypes
<1>2. runs[k] # NoRun => failed \in Run /\ failed.attempts = runs[k].attempts BY <1>1, RunFields
<1>3. /\ runs' = [runs EXCEPT ![k] = Written(k, failed)]
      /\ Written(k, failed) \in Run \cup {NoRun}
      /\ record' \in Schedule \cup {Absent}
  BY <1>2, WrittenIsTyped DEF AttemptFails
<1>4. /\ task' = [task EXCEPT ![k] = Going(k, phase)]
      /\ Going(k, phase) \in Task /\ Going(k, phase).phase = phase
  BY GoingIsTyped DEF AttemptFails, Phases
<1>5. AttemptLeft(Written(k, failed), Going(k, phase))
  <2>1. CASE phase = "sleep"
    <3>1. Retries(k, safe) BY <2>1
    <3>2. runs[k] # NoRun /\ runs[k].attempts < MaxAttempts BY <3>1 DEF Retries
    <3> QED BY <1>2, <1>4, <2>1, <3>2 DEF AttemptLeft, Written
  <2>2. CASE phase = "ending" BY <1>4, <2>2 DEF AttemptLeft
  <2> QED BY <2>1, <2>2
<1> HIDE DEF failed, phase
<1> QED BY <1>3, <1>4, <1>5, KeyStaysTyped DEF RunTypes

(* A record and a task as they were, but for the phase of the task. *)
LEMMA GoesTyped ==
    ASSUME RunTypes, NEW k \in Keys, task[k] # Idle,
           NEW phase \in Phases \ {"slot", "sleep"}, Goes(k, phase),
           UNCHANGED <<runs, gens, period, fresh, up, crashes, deletions>>,
           record' \in Schedule \cup {Absent}, hermes' \in [Sessions -> Node]
    PROVE  RunTypes'
<1>1. runs' = [runs EXCEPT ![k] = runs[k]] /\ runs[k] \in Run \cup {NoRun} BY DEF RunTypes
<1>2. /\ task' = [task EXCEPT ![k] = Going(k, phase)]
      /\ Going(k, phase) \in Task /\ Going(k, phase).phase = phase
  BY GoingIsTyped
<1>3. AttemptLeft(runs[k], Going(k, phase)) BY <1>2 DEF AttemptLeft
<1> QED BY <1>1, <1>2, <1>3, KeyStaysTyped DEF RunTypes

LEMMA UpdateAndGoTyped ==
    ASSUME RunTypes, NEW k \in Keys, task[k] # Idle,
           NEW phase \in Phases \ {"slot", "sleep"}, Goes(k, phase),
           NEW run, runs[k] # NoRun => run \in Run, UpdateRun(k, run),
           UNCHANGED <<gens, period, fresh, up, crashes, deletions>>,
           hermes' \in [Sessions -> Node]
    PROVE  RunTypes'
<1>1. /\ runs' = [runs EXCEPT ![k] = Written(k, run)] /\ Written(k, run) \in Run \cup {NoRun}
      /\ record' \in Schedule \cup {Absent}
  BY WrittenIsTyped
<1>2. /\ task' = [task EXCEPT ![k] = Going(k, phase)]
      /\ Going(k, phase) \in Task /\ Going(k, phase).phase = phase
  BY GoingIsTyped
<1>3. AttemptLeft(Written(k, run), Going(k, phase)) BY <1>2 DEF AttemptLeft
<1> QED BY <1>1, <1>2, <1>3, KeyStaysTyped DEF RunTypes

LEMMA WorkStaysTyped ==
    ASSUME RunTypes, NEW k \in Keys, Work(k)
    PROVE  RunTypes'
<1> DEFINE run == runs[k]
<1>0. /\ UNCHANGED <<gens, period, fresh, up, crashes, deletions>>
      /\ hermes \in [Sessions -> Node] /\ record \in Schedule \cup {Absent}
      /\ run # NoRun => run \in Run
  BY DEF Work, Start, TakeSlot, EnsureSession, Submit, Answered, Disconnected, Retry, Succeed, EndFailed,
         RunTypes
<1>1. task[k] # Idle
  <2>1. task[k].phase # "none"
    BY DEF Work, Start, TakeSlot, EnsureSession, Submit, Answered, Disconnected, Retry, Succeed, EndFailed
  <2> QED BY <2>1 DEF Idle
<1>2. CASE Start(k)
  <2>0. hermes' = hermes BY <1>2 DEF Start
  <2>1. CASE Goes(k, "none") /\ UNCHANGED <<runs, record>>
    BY <1>0, <1>1, <2>0, <2>1, GoesTyped DEF Phases
  <2>2. CASE Goes(k, "none") /\ UpdateRun(k, [run EXCEPT !.status = "failed"])
    <3>1. run # NoRun => [run EXCEPT !.status = "failed"] \in Run BY <1>0, RunFields
    <3> QED BY <1>0, <1>1, <2>0, <2>2, <3>1, UpdateAndGoTyped DEF Phases
  <2>3. ASSUME NEW phase \in {"closing", "slot"}, Begins(k, phase), run # NoRun,
               UNCHANGED <<runs, record>>, phase = "slot" => ~Spent(run)
        PROVE  RunTypes'
    <3>1. runs' = [runs EXCEPT ![k] = run] BY <2>3 DEF RunTypes
    <3>2. /\ task' = [task EXCEPT ![k] = Working(phase, run)] /\ Working(phase, run) \in Task
          /\ Working(phase, run).phase = phase /\ Working(phase, run).read = run.attempts
      BY <2>3, BeginningIsTyped DEF Phases
    <3>3. AttemptLeft(run, Working(phase, run))
      BY <1>0, <2>3, <3>2, ScheduleRunsAssumption DEF AttemptLeft, Spent, Run
    <3> QED BY <1>0, <2>0, <2>3, <3>1, <3>2, <3>3, KeyStaysTyped DEF RunTypes
  <2> QED BY <1>2, <2>1, <2>2, <2>3 DEF Start
<1>3. CASE TakeSlot(k)
  <2> DEFINE next == [run EXCEPT !.status = "running", !.attempts = task[k].read + 1]
             q == IF run = NoRun THEN Idle ELSE [task[k] EXCEPT !.phase = "session", !.target = run.gen]
  <2>1. task[k] \in Task /\ task[k] # Idle /\ task[k].phase = "slot" BY <1>1, <1>3 DEF TakeSlot, RunTypes
  <2>2. task[k].read + 1 \in 0..MaxAttempts
    BY <2>1, ScheduleRunsAssumption DEF RunTypes, AttemptLeft, Task
  <2>3. run # NoRun => next \in Run BY <1>0, <2>2, RunFields
  <2>4. UpdateRun(k, next) /\ task' = [task EXCEPT ![k] = q] /\ hermes' = hermes BY <1>3 DEF TakeSlot
  <2>5. run # NoRun => run.gen \in 0..MaxGenerations
    BY <1>0, ScheduleRunsAssumption DEF Run, Generations
  <2>6. q \in Task /\ q.phase \in {"none", "session"} BY <2>1, <2>5 DEF Task, Phases, Idle
  <2>7. AttemptLeft(Written(k, next), q) BY <2>6 DEF AttemptLeft
  <2>8. /\ runs' = [runs EXCEPT ![k] = Written(k, next)] /\ Written(k, next) \in Run \cup {NoRun}
        /\ record' \in Schedule \cup {Absent}
    BY <2>3, <2>4, WrittenIsTyped
  <2> HIDE DEF next, q
  <2> QED BY <1>0, <2>4, <2>6, <2>7, <2>8, KeyStaysTyped DEF RunTypes
<1>4. CASE EnsureSession(k)
  <2>1. ASSUME NEW safe \in BOOLEAN, AttemptFails(k, safe), hermes' = hermes PROVE RunTypes'
    BY <1>0, <1>1, <2>1, AttemptFailsTyped
  <2>2. CASE hermes' = [hermes EXCEPT ![<<k, task[k].target>>].open = TRUE]
    <3>1. hermes' \in [Sessions -> Node] BY <1>0, <2>2 DEF Node
    <3>2. run # NoRun => [run EXCEPT !.submitted = TRUE] \in Run BY <1>0, RunFields
    <3>3. CASE Goes(k, "closing") /\ UNCHANGED <<runs, record>>
      BY <1>0, <1>1, <3>1, <3>3, GoesTyped DEF Phases
    <3>4. CASE Goes(k, "post") /\ UpdateRun(k, [run EXCEPT !.submitted = TRUE])
      BY <1>0, <1>1, <3>1, <3>2, <3>4, UpdateAndGoTyped DEF Phases
    <3>5. CASE \E safe \in BOOLEAN : AttemptFails(k, safe) BY <1>0, <1>1, <3>1, <3>5, AttemptFailsTyped
    <3> QED BY <1>4, <3>3, <3>4, <3>5 DEF EnsureSession
  <2> QED BY <1>4, <2>1, <2>2 DEF EnsureSession
<1>5. CASE Submit(k)
  <2>1. CASE (AttemptFails(k, TRUE) \/ AttemptFails(k, FALSE)) /\ hermes' = hermes
    BY <1>0, <1>1, <2>1, AttemptFailsTyped
  <2>2. CASE /\ hermes' = [hermes EXCEPT ![Own(k)].turns = @ + 1, ![Own(k)].busy = TRUE]
             /\ Goes(k, "chat") /\ UNCHANGED <<runs, record>>
    <3>1. hermes' \in [Sessions -> Node]
      <4> DEFINE n == [hermes[Own(k)] EXCEPT !.turns = @ + 1, !.busy = TRUE]
      <4>1. ASSUME Own(k) \in Sessions PROVE n \in Node
        <5>1. hermes[Own(k)] \in Node /\ hermes[Own(k)].turns + 1 \in Nat BY <1>0, <4>1 DEF Node
        <5> QED BY <5>1 DEF Node
      <4>2. hermes' = [hermes EXCEPT ![Own(k)] = n] BY <1>0, <2>2
      <4> HIDE DEF n
      <4> QED BY <1>0, <4>1, <4>2
    <3> QED BY <1>0, <1>1, <2>2, <3>1, GoesTyped DEF Phases
  <2> QED BY <1>5, <2>1, <2>2 DEF Submit
<1>6. CASE Answered(k)
  <2>0. hermes' = hermes BY <1>6 DEF Answered
  <2>1. CASE Goes(k, "closing") /\ UNCHANGED <<runs, record>>
    BY <1>0, <1>1, <2>0, <2>1, GoesTyped DEF Phases
  <2>2. CASE AttemptFails(k, FALSE) BY <1>0, <1>1, <2>0, <2>2, AttemptFailsTyped
  <2> QED BY <1>6, <2>1, <2>2 DEF Answered
<1>7. CASE Disconnected(k) BY <1>0, <1>1, <1>7, AttemptFailsTyped DEF Disconnected
<1>8. CASE Retry(k)
  <2> DEFINE next == [run EXCEPT !.status = "pending", !.submitted = FALSE]
  <2>0. UpdateRun(k, next) /\ hermes' = hermes /\ task[k].phase = "sleep" BY <1>8 DEF Retry
  <2>1. run # NoRun => next \in Run BY <1>0, RunFields
  <2>2. CASE run = NoRun
    <3>1. Goes(k, "none") BY <1>8, <2>2 DEF Retry
    <3> HIDE DEF next
    <3> QED BY <1>0, <1>1, <2>0, <2>1, <3>1, UpdateAndGoTyped DEF Phases
  <2>3. CASE run # NoRun
    <3>1. /\ runs' = [runs EXCEPT ![k] = Written(k, next)] /\ Written(k, next) \in Run \cup {NoRun}
          /\ record' \in Schedule \cup {Absent}
      BY <2>0, <2>1, WrittenIsTyped
    <3>2. /\ task' = [task EXCEPT ![k] = Working("slot", run)] /\ Working("slot", run) \in Task
          /\ Working("slot", run).phase = "slot" /\ Working("slot", run).read = run.attempts
      BY <1>8, <2>3, BeginningIsTyped DEF Retry, Phases
    <3>3. run.attempts < MaxAttempts BY <2>0, <2>3 DEF RunTypes, AttemptLeft
    <3>4. AttemptLeft(Written(k, next), Working("slot", run)) BY <3>2, <3>3 DEF AttemptLeft
    <3> HIDE DEF next
    <3> QED BY <1>0, <2>0, <3>1, <3>2, <3>4, KeyStaysTyped DEF RunTypes
  <2> QED BY <2>2, <2>3
<1>9. CASE Succeed(k)
  <2>1. run # NoRun => [run EXCEPT !.status = "succeeded"] \in Run BY <1>0, RunFields
  <2> QED BY <1>0, <1>1, <1>9, <2>1, UpdateAndGoTyped DEF Succeed, Phases
<1>10. CASE EndFailed(k) BY <1>0, <1>1, <1>10, GoesTyped DEF EndFailed, Phases
<1> QED BY <1>2, <1>3, <1>4, <1>5, <1>6, <1>7, <1>8, <1>9, <1>10 DEF Work

LEMMA ClaimStaysTyped ==
    ASSUME RunTypes, Claim
    PROVE  RunTypes'
<1> PICK k : k = CallbackKey OBVIOUS
<1>1. /\ runs[k] = NoRun /\ gens[k] < MaxGenerations /\ record # Absent
      /\ gens' = [gens EXCEPT ![k] = @ + 1]
      /\ runs' = [runs EXCEPT ![k] = NewRun(k)]
      /\ record' = [record EXCEPT !.marker = 0, !.last = k]
      /\ task' = Spawned({k})
      /\ fresh' = TRUE /\ UNCHANGED <<hermes, period, up, crashes, deletions>>
  BY DEF Claim, Live
<1>2. k \in Keys
  <2>1. record.marker \in 0..MaxMarkers /\ period \in 0..MaxPeriods
    BY <1>1, ScheduleRunsAssumption DEF RunTypes, Schedule
  <2>2. record.marker # 0 => record.marker \in 1..MaxMarkers
    BY <2>1, ScheduleRunsAssumption
  <2>3. 0 \in 0..MaxPeriods BY ScheduleRunsAssumption
  <2> QED BY <2>1, <2>2, <2>3 DEF CallbackKey, Keys
<1>3. gens[k] + 1 \in Generations /\ gens[k] + 1 \in 0..MaxGenerations
  <2>1. gens[k] \in 0..MaxGenerations BY <1>2 DEF RunTypes
  <2> QED BY <1>1, <2>1, ScheduleRunsAssumption DEF Generations
<1>4. NewRun(k) \in Run /\ NewRun(k).attempts = 0
  <2>1. 0 \in 0..MaxAttempts BY ScheduleRunsAssumption
  <2> QED BY <1>3, <2>1 DEF NewRun, Run
<1>5. Starting \in Task /\ Starting.phase = "start"
  BY ScheduleRunsAssumption DEF Starting, Task, Phases
<1>6. record' \in Schedule \cup {Absent}
  <2>1. record \in Schedule /\ 0 \in 0..MaxMarkers BY <1>1, ScheduleRunsAssumption DEF RunTypes
  <2> QED BY <1>1, <1>2, <2>1 DEF Schedule
<1>7. gens' \in [Keys -> 0..MaxGenerations] /\ runs' \in [Keys -> Run \cup {NoRun}]
      /\ task' \in [Keys -> Task]
  BY <1>1, <1>3, <1>4, <1>5 DEF RunTypes, Spawned
<1>8. ASSUME NEW j \in Keys PROVE AttemptLeft(runs'[j], task'[j])
  <2>1. task'[j] = task[j] \/ task'[j] = Starting BY <1>1 DEF Spawned
  <2>2. runs'[j] = runs[j] \/ runs'[j] = NewRun(k) BY <1>1 DEF RunTypes
  <2>3. AttemptLeft(runs[j], task[j]) BY DEF RunTypes
  <2> QED BY <1>4, <1>5, <2>1, <2>2, <2>3, ScheduleRunsAssumption DEF AttemptLeft
<1> QED BY <1>1, <1>6, <1>7, <1>8 DEF RunTypes

LEMMA AroundStaysTyped ==
    ASSUME RunTypes, \/ Crash \/ Restart \/ TimePasses \/ \E s \in Sessions : TurnEnds(s)
                     \/ \E k \in Keys : DeleteSession(k)
    PROVE  RunTypes'
<1>1. CASE Crash
  <2>1. task' = [k \in Keys |-> Idle] /\ up' = FALSE /\ crashes' \in 0..MaxCrashes
        /\ UNCHANGED <<record, runs, gens, hermes, period, fresh, deletions>>
    BY <1>1, ScheduleRunsAssumption DEF Crash, RunTypes
  <2>2. \A k \in Keys : AttemptLeft(runs'[k], task'[k]) BY <2>1 DEF AttemptLeft, Idle
  <2> QED BY <2>1, <2>2 DEF RunTypes, Task
<1>2. CASE Restart
  <2>1. task' = Spawned(Resumable) /\ up' = TRUE
        /\ UNCHANGED <<record, runs, gens, hermes, period, fresh, crashes, deletions>>
    BY <1>2 DEF Restart
  <2>2. Starting \in Task /\ Starting.phase = "start"
    BY ScheduleRunsAssumption DEF Starting, Task, Phases
  <2>3. \A k \in Keys : task'[k] = task[k] \/ task'[k] = Starting BY <2>1 DEF Spawned
  <2>4. task' \in [Keys -> Task] BY <2>1, <2>2 DEF RunTypes, Spawned
  <2>5. \A k \in Keys : AttemptLeft(runs'[k], task'[k])
    BY <2>1, <2>2, <2>3 DEF RunTypes, AttemptLeft
  <2> QED BY <2>1, <2>4, <2>5 DEF RunTypes
<1>3. CASE TimePasses
  BY <1>3 DEF TimePasses, RunTypes
<1>4. ASSUME NEW s \in Sessions, TurnEnds(s) PROVE RunTypes'
  <2>1. PICK r \in BOOLEAN : hermes' = [hermes EXCEPT ![s].busy = FALSE, ![s].report = @ \/ r]
    BY <1>4 DEF TurnEnds
  <2>2. hermes' \in [Sessions -> Node]
    <3> DEFINE n == [hermes[s] EXCEPT !.busy = FALSE, !.report = @ \/ r]
    <3>1. hermes[s] \in Node /\ hermes \in [Sessions -> Node] BY DEF RunTypes
    <3>2. n \in Node BY <3>1 DEF Node
    <3>3. hermes' = [hermes EXCEPT ![s] = n] BY <2>1, <3>1
    <3> HIDE DEF n
    <3> QED BY <3>1, <3>2, <3>3
  <2> QED BY <1>4, <2>2 DEF TurnEnds, RunTypes
<1>5. ASSUME NEW k \in Keys, DeleteSession(k) PROVE RunTypes'
  <2> DEFINE s == <<k, runs[k].gen>>
  <2>1. /\ UNCHANGED <<record, gens, task, period, fresh, up, crashes>>
        /\ runs' = [runs EXCEPT ![k] = NoRun]
        /\ hermes' = [hermes EXCEPT ![s].open = FALSE, ![s].report = FALSE]
        /\ deletions' \in 0..MaxDeletions
    BY <1>5, ScheduleRunsAssumption DEF DeleteSession, RunTypes
  <2>2. hermes' \in [Sessions -> Node] BY <2>1 DEF RunTypes, Node
  <2>3. task' = [task EXCEPT ![k] = task[k]] /\ task[k] \in Task BY <2>1 DEF RunTypes
  <2>4. AttemptLeft(NoRun, task[k]) BY DEF RunTypes, AttemptLeft
  <2> HIDE DEF s
  <2> QED BY <2>1, <2>2, <2>3, <2>4, KeyStaysTyped DEF RunTypes
<1> QED BY <1>1, <1>2, <1>3, <1>4, <1>5

(* The calls of the routes keep the types of what they change. *)
LEMMA ToldIsTyped ==
    ASSUME NEW rec \in Schedule, NEW j \in Nat, NEW state
    PROVE  /\ Told(rec, j, state) \in Schedule
           /\ [Told(rec, j, state) EXCEPT !.state = "completed", !.enabled = FALSE] \in Schedule
           /\ [Told(rec, j, state) EXCEPT !.state = "failed", !.enabled = FALSE] \in Schedule
           /\ state \in {"active", "paused"} => Told(rec, j, state).state \in {"scheduled", "paused"}
BY DEF Told, Schedule

LEMMA NewRecordIsTyped ==
    ASSUME NEW f \in Frequencies, NEW j \in Nat
    PROVE  NewRecord(f, j) \in Schedule /\ NewRecord(f, j).job = j
           /\ NewRecord(f, j).frequency = f /\ NewRecord(f, j).enabled = TRUE
           /\ NewRecord(f, j).state = "scheduled"
<1>1. [frequency |-> f, enabled |-> TRUE, state |-> "scheduled", marker |-> 0, job |-> j,
       last |-> NoKey] \in Schedule
  BY ScheduleRunsAssumption DEF Schedule
<1> QED BY <1>1 DEF NewRecord, Told, Schedule

LEMMA TimerIsTyped ==
    ASSUME RouteTypes, NEW a \in Answers
    PROVE  /\ Learned(a) => refusals' \in 0..MaxRefusals /\ doubts' \in Nat
           /\ \A j : \A state \in {"active", "paused", "done", "deleted"} :
                  Put(j, state, a) => jobs' \in [Jobs -> Job \cup {Unused}]
           /\ \A j : \A f \in Frequencies : Added(j, f, a) => jobs' \in [Jobs -> Job \cup {Unused}]
<1>1. Learned(a) => refusals' \in 0..MaxRefusals /\ doubts' \in Nat
  BY SchedulesAssumption DEF Learned, RouteTypes
<1>2. ASSUME NEW j, NEW state \in {"active", "paused", "done", "deleted"}, Put(j, state, a)
      PROVE  jobs' \in [Jobs -> Job \cup {Unused}]
  <2>1. jobs \in [Jobs -> Job \cup {Unused}] BY DEF RouteTypes
  <2>2. CASE jobs' = jobs BY <2>1, <2>2
  <2>3. CASE Exists(j) /\ jobs' = [jobs EXCEPT ![j].state = state]
    <3>1. jobs[j] \in Job BY <2>1, <2>3 DEF Exists, Unused
    <3>2. [jobs[j] EXCEPT !.state = state] \in Job BY <3>1 DEF Job
    <3> QED BY <2>1, <2>3, <3>2
  <2> QED BY <1>2, <2>2, <2>3 DEF Put
<1>3. ASSUME NEW j, NEW f \in Frequencies, Added(j, f, a) PROVE jobs' \in [Jobs -> Job \cup {Unused}]
  <2>1. [state |-> "active", frequency |-> f] \in Job BY DEF Job
  <2> QED BY <1>3, <2>1 DEF Added, RouteTypes
<1> QED BY <1>1, <1>2, <1>3

(* The request of one client changes. *)
LEMMA RouteMoves ==
    ASSUME RouteTypes, NEW c \in Clients, NEW q \in RouteOK \cup {NoRoute}, Seen(q),
           route' = [route EXCEPT ![c] = q],
           jobs' \in [Jobs -> Job \cup {Unused}], script' \in BOOLEAN,
           requests' \in 0..MaxRequests, refusals' \in 0..MaxRefusals,
           doubts' \in Nat, markers' \in 0..MaxMarkers
    PROVE  RouteTypes'
<1>1. route' \in [Clients -> RouteOK \cup {NoRoute}] BY DEF RouteTypes
<1>2. \A d \in Clients : Seen(route'[d]) BY DEF RouteTypes
<1> QED BY <1>1, <1>2 DEF RouteTypes

LEMMA RouteEnds ==
    ASSUME RouteTypes, NEW c \in Clients, Ends(c),
           jobs' \in [Jobs -> Job \cup {Unused}], script' \in BOOLEAN, requests' = requests,
           refusals' \in 0..MaxRefusals, doubts' \in Nat, markers' = markers
    PROVE  RouteTypes'
<1>1. Seen(NoRoute) BY DEF Seen, NoRoute
<1> QED BY <1>1, RouteMoves DEF Ends, RouteTypes

LEMMA RouteStarts ==
    ASSUME RunTypes, RouteTypes, NEW c \in Clients,
           NEW op \in {"create", "update", "pause", "resume", "run", "delete", "refresh"},
           op # "create" => Live,
           NEW step \in {"job", "pauseOld", "call", "get"}, NEW f \in Frequencies,
           Asks(c, op, step, f), jobs' = jobs, script' \in BOOLEAN,
           UNCHANGED <<refusals, doubts, markers>>
    PROVE  RouteTypes'
<1> DEFINE q == Request(op, step, f)
<1>1. q \in RouteOK /\ Seen(q)
  <2>1. 0 \in 0..MaxJobs /\ 0 \in 0..MaxMarkers BY ScheduleRunsAssumption, SchedulesAssumption
  <2>2. op # "create" => record \in Schedule BY DEF Live, RunTypes
  <2>3. record \in Schedule \cup {Absent} BY DEF RunTypes
  <2> QED BY <2>1, <2>2, <2>3 DEF Request, RouteOK, Seen
<1>2. route' = [route EXCEPT ![c] = q] BY DEF Asks
<1>3. requests' \in 0..MaxRequests BY SchedulesAssumption DEF Asks, RouteTypes
<1> HIDE DEF q
<1> QED BY <1>1, <1>2, <1>3, RouteMoves DEF RouteTypes

LEMMA RouteSteps ==
    ASSUME RouteTypes, NEW c \in Clients, route[c] # NoRoute, NEW q,
           route' = [route EXCEPT ![c] = q],
           \E step \in {"job", "pauseOld", "pauseNew", "deleteOld", "deleteNew", "resumeOld", "store"} :
               \/ q = [route[c] EXCEPT !.step = step]
               \/ \E j \in 0..MaxJobs : q = [route[c] EXCEPT !.step = step, !.job = j]
               \/ \E state \in {"active", "paused", "done"} :
                      q = [route[c] EXCEPT !.step = step, !.state = state],
           jobs' \in [Jobs -> Job \cup {Unused}], script' \in BOOLEAN, requests' = requests,
           refusals' \in 0..MaxRefusals, doubts' \in Nat, markers' = markers
    PROVE  RouteTypes'
<1>1. route[c] \in RouteOK /\ Seen(route[c]) BY DEF RouteTypes
<1>2. q \in RouteOK /\ q.op = route[c].op /\ q.seen = route[c].seen
  <2>1. PICK step \in {"job", "pauseOld", "pauseNew", "deleteOld", "deleteNew", "resumeOld", "store"} :
            \/ q = [route[c] EXCEPT !.step = step]
            \/ \E j \in 0..MaxJobs : q = [route[c] EXCEPT !.step = step, !.job = j]
            \/ \E state \in {"active", "paused", "done"} :
                   q = [route[c] EXCEPT !.step = step, !.state = state]
    OBVIOUS
  <2>2. CASE q = [route[c] EXCEPT !.step = step] BY <1>1, <2>2 DEF RouteOK
  <2>3. ASSUME NEW j \in 0..MaxJobs, q = [route[c] EXCEPT !.step = step, !.job = j]
        PROVE  q \in RouteOK /\ q.op = route[c].op /\ q.seen = route[c].seen
    BY <1>1, <2>3 DEF RouteOK
  <2>4. ASSUME NEW state \in {"active", "paused", "done"},
               q = [route[c] EXCEPT !.step = step, !.state = state]
        PROVE  q \in RouteOK /\ q.op = route[c].op /\ q.seen = route[c].seen
    BY <1>1, <2>4 DEF RouteOK
  <2> QED BY <2>1, <2>2, <2>3, <2>4
<1>3. Seen(q) BY <1>1, <1>2 DEF Seen
<1> QED BY <1>2, <1>3, RouteMoves DEF RouteTypes

LEMMA RecordMoves ==
    ASSUME RunTypes, Keep, record' \in Schedule \cup {Absent}
    PROVE  RunTypes'
BY DEF RunTypes, Keep

LEMMA AskStaysTyped ==
    ASSUME RunTypes, RouteTypes, NEW c \in Clients, Ask(c)
    PROVE  RunTypes' /\ RouteTypes'
<1>0. record \in Schedule \cup {Absent} BY DEF RunTypes
<1>1. Live => record \in Schedule /\ record.frequency \in Frequencies BY <1>0 DEF Live, Schedule
<1>2. CASE Create(c)
  <2>1. Keep /\ record' = record BY <1>2 DEF Create
  <2>2. RouteTypes' BY <1>2, RouteStarts DEF Create
  <2> QED BY <1>0, <2>1, <2>2, RecordMoves
<1>3. CASE Update(c)
  <2>1. Keep /\ record' = record BY <1>3 DEF Update
  <2>2. RouteTypes'
    <3>1. PICK f \in Frequencies : Asks(c, "update", IF record.enabled THEN "pauseOld" ELSE "job", f)
      BY <1>3 DEF Update
    <3>2. Live /\ UNCHANGED <<jobs, script, refusals, doubts, markers>> /\ script' \in BOOLEAN
      BY <1>3 DEF Update, RouteTypes
    <3>3. PICK step \in {"job", "pauseOld"} : Asks(c, "update", step, f) BY <3>1
    <3> QED BY <3>2, <3>3, RouteStarts
  <2> QED BY <1>0, <2>1, <2>2, RecordMoves
<1>4. CASE SetEnabled(c) \/ Delete(c) \/ Refresh(c)
  <2>1. Keep /\ record' = record /\ Live /\ UNCHANGED <<jobs, script, refusals, doubts, markers>>
    BY <1>4 DEF SetEnabled, Delete, Refresh
  <2>2. PICK op \in {"pause", "resume", "delete", "refresh"}, step \in {"call", "get"} :
            Asks(c, op, step, record.frequency)
    BY <1>4 DEF SetEnabled, Delete, Refresh
  <2>3. script' \in BOOLEAN BY <2>1 DEF RouteTypes
  <2>4. RouteTypes' BY <1>1, <2>1, <2>2, <2>3, RouteStarts
  <2> QED BY <1>0, <2>1, <2>4, RecordMoves
<1>5. CASE RunNow(c)
  <2> DEFINE m == IF record.marker # 0 THEN record.marker ELSE markers + 1
             q == [Request("run", "call", record.frequency) EXCEPT !.marker = m]
  <2>1. record \in Schedule /\ record.marker \in 0..MaxMarkers BY <1>1, <1>5 DEF RunNow, Schedule
  <2>2. m \in 0..MaxMarkers
    BY <1>5, <2>1, ScheduleRunsAssumption DEF RunNow, RouteTypes
  <2>3. record' = [record EXCEPT !.marker = m] BY <1>5 DEF RunNow
  <2>4. Request("run", "call", record.frequency) \in RouteOK
    BY <1>1, <1>5, <2>1, ScheduleRunsAssumption, SchedulesAssumption DEF RunNow, Request, RouteOK
  <2>5. q \in RouteOK /\ q.op = "run" /\ q.seen = record
    BY <2>2, <2>4 DEF Request, RouteOK
  <2>6. route' = [route EXCEPT ![c] = q] BY <1>5 DEF RunNow
  <2>7. markers' \in 0..MaxMarkers /\ requests' \in 0..MaxRequests
    BY <1>5, <2>2, SchedulesAssumption DEF RunNow, RouteTypes
  <2>8. UNCHANGED <<jobs, script, refusals, doubts>> /\ Keep BY <1>5 DEF RunNow
  <2>9. Seen(q) BY <2>1, <2>5 DEF Seen
  <2> HIDE DEF m, q
  <2>10. record' \in Schedule BY <2>1, <2>2, <2>3 DEF Schedule
  <2>11. RouteTypes' BY <2>5, <2>6, <2>7, <2>8, <2>9, RouteMoves DEF RouteTypes
  <2> QED BY <2>8, <2>10, <2>11, RecordMoves
<1> QED BY <1>2, <1>3, <1>4, <1>5 DEF Ask

LEMMA ServeStaysTyped ==
    ASSUME RunTypes, RouteTypes, NEW c \in Clients, Serve(c)
    PROVE  RunTypes' /\ RouteTypes'
<1> USE DEF At
<1>0. record \in Schedule \cup {Absent} /\ script \in BOOLEAN /\ jobs \in [Jobs -> Job \cup {Unused}]
      /\ markers' = markers /\ requests' = requests /\ Keep
  BY DEF RunTypes, RouteTypes, Serve, CreateJob, UpdatePauseOld, UpdateJob, UpdatePauseNew, UpdateCleansUp,
         SetEnabledCall, RunNowCall, DeleteCall, RefreshGet, RefreshStore
<1>1. Live => record \in Schedule BY <1>0 DEF Live
<1>2. route[c] # NoRoute
  BY DEF Serve, CreateJob, UpdatePauseOld, UpdateJob, UpdatePauseNew, UpdateCleansUp,
         SetEnabledCall, RunNowCall, DeleteCall, RefreshGet, RefreshStore, NoRoute
<1>3. route[c] \in RouteOK /\ (route[c].op # "create" => route[c].seen \in Schedule)
  BY <1>2 DEF RouteTypes, Seen, RouteOK
<1>4. route[c].op # "create" => Old(c) \in Nat BY <1>3 DEF Old, Schedule
<1>5. route[c].frequency \in Frequencies /\ route[c].job \in Nat
  BY <1>3, SchedulesAssumption DEF RouteOK
<1>6. \A j \in Jobs : j \in Nat /\ j \in 0..MaxJobs BY SchedulesAssumption DEF Jobs
<1>7. ASSUME NEW j \in Nat, NEW state PROVE Moved(c, j, state) \in Schedule \cup {Absent}
  <2>1. Live => [record EXCEPT !.frequency = route[c].frequency] \in Schedule
    BY <1>1, <1>5 DEF Schedule
  <2> QED BY <1>0, <2>1, ToldIsTyped DEF Moved
<1>8. CASE CreateJob(c)
  <2>1. PICK a \in Answers, j \in FreshJobs :
            /\ Learned(a) /\ Added(j, route[c].frequency, a)
            /\ record' = IF a = "done" THEN NewRecord(route[c].frequency, j) ELSE record
            /\ script' = (a = "done")
    BY <1>8 DEF CreateJob
  <2>2. j \in Nat BY <1>6 DEF FreshJobs
  <2>3. record' \in Schedule \cup {Absent} BY <1>0, <1>5, <2>1, <2>2, NewRecordIsTyped
  <2>4. jobs' \in [Jobs -> Job \cup {Unused}] /\ refusals' \in 0..MaxRefusals /\ doubts' \in Nat
    BY <1>5, <2>1, TimerIsTyped
  <2>5. Ends(c) /\ script' \in BOOLEAN BY <1>8, <2>1 DEF CreateJob
  <2> QED BY <1>0, <2>3, <2>4, <2>5, RecordMoves, RouteEnds
<1>9. CASE UpdatePauseOld(c)
  <2>1. PICK a \in Answers :
            /\ Learned(a) /\ Put(Old(c), "paused", a)
            /\ IF Works(Old(c), a) THEN Step(c, "job") ELSE Ends(c)
    BY <1>9 DEF UpdatePauseOld
  <2>2. jobs' \in [Jobs -> Job \cup {Unused}] /\ refusals' \in 0..MaxRefusals /\ doubts' \in Nat
    BY <2>1, TimerIsTyped
  <2>3. record' = record /\ script' = script BY <1>9 DEF UpdatePauseOld
  <2>4. CASE Ends(c) BY <1>0, <2>2, <2>3, <2>4, RecordMoves, RouteEnds
  <2>5. CASE Step(c, "job")
    <3>1. route' = [route EXCEPT ![c] = [route[c] EXCEPT !.step = "job"]] BY <2>5 DEF Step
    <3> QED BY <1>0, <1>2, <2>2, <2>3, <3>1, RecordMoves, RouteSteps
  <2> QED BY <2>1, <2>4, <2>5
<1>10. CASE UpdateJob(c)
  <2>1. PICK a \in Answers, j \in FreshJobs :
            /\ Learned(a) /\ Added(j, route[c].frequency, a)
            /\ record' = IF a = "done" /\ route[c].seen.enabled THEN Moved(c, j, "active") ELSE record
            /\ LET next == AfterJob(a, route[c].seen.enabled)
               IN  IF next = "end" THEN Ends(c)
                   ELSE route' = [route EXCEPT ![c].step = next, ![c].job = j]
    BY <1>10 DEF UpdateJob
  <2>2. j \in Nat /\ j \in 0..MaxJobs BY <1>6 DEF FreshJobs
  <2>3. record' \in Schedule \cup {Absent} BY <1>0, <1>7, <2>1, <2>2
  <2>4. jobs' \in [Jobs -> Job \cup {Unused}] /\ refusals' \in 0..MaxRefusals /\ doubts' \in Nat
    BY <1>5, <2>1, TimerIsTyped
  <2>5. script' = script BY <1>10 DEF UpdateJob
  <2>6. CASE Ends(c) BY <1>0, <2>3, <2>4, <2>5, <2>6, RecordMoves, RouteEnds
  <2>7. ASSUME NEW step \in {"deleteOld", "pauseNew", "resumeOld"},
               route' = [route EXCEPT ![c].step = step, ![c].job = j]
        PROVE  RunTypes' /\ RouteTypes'
    <3>1. route' = [route EXCEPT ![c] = [route[c] EXCEPT !.step = step, !.job = j]]
      BY <2>7 DEF RouteTypes
    <3> QED BY <1>0, <1>2, <2>2, <2>3, <2>4, <2>5, <3>1, RecordMoves, RouteSteps
  <2>8. AfterJob(a, route[c].seen.enabled) \in {"deleteOld", "pauseNew", "resumeOld", "end"}
    BY DEF AfterJob
  <2> QED BY <2>1, <2>6, <2>7, <2>8
<1>11. CASE UpdatePauseNew(c)
  <2>1. PICK a \in Answers :
            /\ Learned(a) /\ Put(route[c].job, "paused", a)
            /\ record' = IF a = "done" THEN Moved(c, route[c].job, "paused") ELSE record
            /\ Step(c, IF a = "done" THEN "deleteOld" ELSE "deleteNew")
    BY <1>11 DEF UpdatePauseNew
  <2>2. record' \in Schedule \cup {Absent} BY <1>0, <1>5, <1>7, <2>1
  <2>3. jobs' \in [Jobs -> Job \cup {Unused}] /\ refusals' \in 0..MaxRefusals /\ doubts' \in Nat
    BY <2>1, TimerIsTyped
  <2>4. script' = script BY <1>11 DEF UpdatePauseNew
  <2>5. PICK step \in {"deleteOld", "deleteNew"} : Step(c, step) BY <2>1
  <2>6. route' = [route EXCEPT ![c] = [route[c] EXCEPT !.step = step]] BY <2>5 DEF Step
  <2> QED BY <1>0, <1>2, <2>2, <2>3, <2>4, <2>6, RecordMoves, RouteSteps
<1>12. CASE UpdateCleansUp(c)
  <2>1. PICK a \in Answers :
            /\ Learned(a)
            /\ \/ Put(Old(c), "deleted", a) \/ Put(route[c].job, "deleted", a) \/ Put(Old(c), "active", a)
    BY <1>12 DEF UpdateCleansUp
  <2>2. jobs' \in [Jobs -> Job \cup {Unused}] /\ refusals' \in 0..MaxRefusals /\ doubts' \in Nat
    BY <2>1, TimerIsTyped
  <2>3. Ends(c) /\ record' = record /\ script' = script BY <1>12 DEF UpdateCleansUp
  <2> QED BY <1>0, <2>2, <2>3, RecordMoves, RouteEnds
<1>13. CASE SetEnabledCall(c)
  <2>1. PICK op \in {"pause", "resume"}, a \in Answers, state \in {"active", "paused"} :
            /\ At(c, op, "call") /\ Learned(a) /\ Put(Old(c), state, a)
            /\ record' = IF Live /\ Works(Old(c), a) THEN Told(record, Old(c), state) ELSE record
    BY <1>13 DEF SetEnabledCall
  <2>2. Old(c) \in Nat BY <1>4, <2>1
  <2>3. record' \in Schedule \cup {Absent} BY <1>0, <1>1, <2>1, <2>2, ToldIsTyped
  <2>4. jobs' \in [Jobs -> Job \cup {Unused}] /\ refusals' \in 0..MaxRefusals /\ doubts' \in Nat
    BY <2>1, TimerIsTyped
  <2>5. Ends(c) /\ script' = script BY <1>13 DEF SetEnabledCall
  <2> QED BY <1>0, <2>3, <2>4, <2>5, RecordMoves, RouteEnds
<1>14. CASE RunNowCall(c)
  <2>1. PICK a \in Answers : Learned(a) BY <1>14 DEF RunNowCall
  <2>2. refusals' \in 0..MaxRefusals /\ doubts' \in Nat BY <2>1, TimerIsTyped
  <2>3. record' = record \/ (Live /\ record' = [record EXCEPT !.marker = 0]) BY <1>14 DEF RunNowCall
  <2>4. record' \in Schedule \cup {Absent}
    BY <1>0, <1>1, <2>3, ScheduleRunsAssumption DEF Schedule
  <2>5. Ends(c) /\ jobs' = jobs /\ script' = script BY <1>14 DEF RunNowCall
  <2> QED BY <1>0, <2>2, <2>4, <2>5, RecordMoves, RouteEnds
<1>15. CASE DeleteCall(c)
  <2>1. PICK a \in Answers : Learned(a) /\ Put(Old(c), "deleted", a) BY <1>15 DEF DeleteCall
  <2>2. jobs' \in [Jobs -> Job \cup {Unused}] /\ refusals' \in 0..MaxRefusals /\ doubts' \in Nat
    BY <2>1, TimerIsTyped
  <2>3. record' \in {Absent, record} /\ script' \in {FALSE, script} /\ Ends(c) BY <1>15 DEF DeleteCall
  <2> QED BY <1>0, <2>2, <2>3, RecordMoves, RouteEnds
<1>16. CASE RefreshGet(c)
  <2>1. PICK a \in Answers :
            /\ Learned(a)
            /\ IF Works(Old(c), a)
               THEN route' = [route EXCEPT ![c].step = "store", ![c].state = jobs[Old(c)].state]
               ELSE Ends(c)
    BY <1>16 DEF RefreshGet, Answers
  <2>2. refusals' \in 0..MaxRefusals /\ doubts' \in Nat BY <2>1, TimerIsTyped
  <2>3. record' = record /\ jobs' = jobs /\ script' = script BY <1>16 DEF RefreshGet
  <2>4. CASE Ends(c) BY <1>0, <2>2, <2>3, <2>4, RecordMoves, RouteEnds
  <2>5. CASE Works(Old(c), a) /\ ~Ends(c)
    <3>1. PICK state \in {"active", "paused", "done"} : state = jobs[Old(c)].state
      BY <2>5 DEF Works, Exists
    <3>2. route' = [route EXCEPT ![c].step = "store", ![c].state = state] BY <2>1, <2>5, <3>1
    <3>3. route' = [route EXCEPT ![c] = [route[c] EXCEPT !.step = "store", !.state = state]]
      BY <3>2 DEF RouteTypes
    <3> QED BY <1>0, <1>2, <2>2, <2>3, <3>3, RecordMoves, RouteSteps
  <2> QED BY <2>1, <2>4, <2>5
<1>17. CASE RefreshStore(c)
  <2>1. Old(c) \in Nat /\ Ends(c) /\ UNCHANGED <<jobs, script, refusals, doubts>>
    BY <1>4, <1>17 DEF RefreshStore
  <2>2. record' \in Schedule \cup {Absent} BY <1>0, <1>1, <1>17, <2>1, ToldIsTyped DEF RefreshStore
  <2>3. refusals' \in 0..MaxRefusals /\ doubts' \in Nat BY <2>1 DEF RouteTypes
  <2> QED BY <1>0, <2>1, <2>2, <2>3, RecordMoves, RouteEnds
<1> QED BY <1>8, <1>9, <1>10, <1>11, <1>12, <1>13, <1>14, <1>15, <1>16, <1>17 DEF Serve

LEMMA FireStaysTyped ==
    ASSUME RunTypes, RouteTypes, NEW j \in Jobs, Fire(j)
    PROVE  RunTypes' /\ RouteTypes'
<1>1. RunTypes'
  <2>1. CASE UNCHANGED runVars BY <2>1 DEF runVars, RunTypes
  <2> QED BY <2>1, ClaimStaysTyped DEF Fire
<1>2. jobs' \in [Jobs -> Job \cup {Unused}]
  <2>1. jobs[j] \in Job BY DEF Fire, RouteTypes, Unused
  <2>2. [jobs[j] EXCEPT !.state = "done"] \in Job BY <2>1 DEF Job
  <2>3. jobs' = jobs \/ jobs' = [jobs EXCEPT ![j] = [jobs[j] EXCEPT !.state = "done"]]
    BY DEF Fire, Fired
  <2> QED BY <2>2, <2>3 DEF RouteTypes
<1> QED BY <1>1, <1>2 DEF Fire, RouteTypes

LEMMA CrashStaysTyped ==
    ASSUME RunTypes, RouteTypes, ServiceCrash, IsFiniteSet(Clients)
    PROVE  RunTypes' /\ RouteTypes'
<1>1. RunTypes' BY AroundStaysTyped DEF ServiceCrash
<1>2. Cardinality({c \in Clients : route[c] # NoRoute}) \in Nat
  BY FS_Subset, FS_CardinalityType
<1>3. \A c \in Clients : Seen(NoRoute) BY DEF Seen, NoRoute
<1> QED BY <1>1, <1>2, <1>3 DEF ServiceCrash, RouteTypes

LEMMA NextStaysTyped ==
    ASSUME RunTypes, RouteTypes, IsFiniteSet(Clients), [Next]_vars
    PROVE  RunTypes' /\ RouteTypes'
<1>1. CASE RunStep /\ UNCHANGED routeVars
  <2>1. RunTypes' BY <1>1, WorkStaysTyped, AroundStaysTyped DEF RunStep
  <2> QED BY <1>1, <2>1 DEF routeVars, RouteTypes
<1>2. ASSUME NEW c \in Clients, Ask(c) \/ Serve(c) PROVE RunTypes' /\ RouteTypes'
  BY <1>2, AskStaysTyped, ServeStaysTyped
<1>3. ASSUME NEW j \in Jobs, Fire(j) PROVE RunTypes' /\ RouteTypes' BY <1>3, FireStaysTyped
<1>4. CASE ServiceCrash BY <1>4, CrashStaysTyped
<1>5. CASE UNCHANGED vars BY <1>5 DEF vars, runVars, routeVars, RunTypes, RouteTypes
<1> QED BY <1>1, <1>2, <1>3, <1>4, <1>5 DEF Next

THEOREM TypesKept == IsFiniteSet(Clients) => (Spec => [](RunTypes /\ RouteTypes))
<1> SUFFICES ASSUME IsFiniteSet(Clients) PROVE Spec => [](RunTypes /\ RouteTypes) OBVIOUS
<1>1. Init => RunTypes /\ RouteTypes
  <2> SUFFICES ASSUME Init PROVE RunTypes /\ RouteTypes OBVIOUS
  <2> USE ScheduleRunsAssumption, SchedulesAssumption
  <2>1. 0 \in 0..MaxGenerations /\ 1 \in 1..MaxPeriods /\ 0 \in 0..MaxCrashes /\ 0 \in 0..MaxDeletions
        /\ 0 \in 0..MaxRequests /\ 0 \in 0..MaxRefusals /\ 0 \in 0..MaxMarkers
    OBVIOUS
  <2>2. record \in Schedule \cup {Absent} /\ jobs \in [Jobs -> Job \cup {Unused}]
    <3>1. ASSUME NEW f \in Frequencies, NEW state \in {"active", "paused"}
          PROVE  Told(NewRecord(f, 1), 1, state) \in Schedule /\ [state |-> state, frequency |-> f] \in Job
      BY NewRecordIsTyped, ToldIsTyped DEF Job
    <3> QED BY <3>1 DEF Init
  <2>3. \A k \in Keys : AttemptLeft(runs[k], task[k]) BY DEF Init, RunInit, AttemptLeft, Idle
  <2>4. RunTypes BY <2>1, <2>2, <2>3 DEF Init, RunInit, RunTypes, Task, Node
  <2>5. \A c \in Clients : Seen(route[c]) BY DEF Init, Seen, NoRoute
  <2> QED BY <2>1, <2>2, <2>4, <2>5 DEF Init, RouteTypes, Live
<1>2. RunTypes /\ RouteTypes /\ [Next]_vars => RunTypes' /\ RouteTypes' BY NextStaysTyped
<1> QED BY <1>1, <1>2, PTL DEF Spec

(* The type of the file, the tasks, Hermes and the requests in flight: no  *)
(* attempt is counted beyond the maximum, also when a run is deleted and   *)
(* claimed again while its task pauses (_run counts from what it read).    *)
THEOREM ScheduleTypes == IsFiniteSet(Clients) => (Spec => []TypeOK)
<1>1. RunTypes /\ RouteTypes => TypeOK BY DEF RunTypes, RouteTypes, TypeOK, Task, Node
<1> QED BY <1>1, TypesKept, PTL

-----------------------------------------------------------------------------
(***************************************************************************)
(* The file and the timer, for one client: what a route has done so far    *)
(* says which job fires meanwhile.  The invariant holds as long as no      *)
(* outcome is in doubt and the schedule was never a one-time one, and for  *)
(* any number of refused calls but those of a rollback, which nothing      *)
(* repeats.                                                                *)
(***************************************************************************)

OneClient == \E c : Clients = {c}

Plain == doubts = 0 /\ Recurring

Firing(j) == jobs[j].state = "active"

NoneFires    == \A j \in Jobs : ~Firing(j)
OnlyFires(n) == n \in Jobs /\ \A j \in Jobs : Firing(j) <=> j = n

Matched == \A j \in Jobs : Firing(j) <=> Live /\ record.enabled /\ j = record.job

FileInv ==
    /\ \A j \in Jobs : jobs[j].state # "done"
    /\ Live => /\ record.job \in Jobs /\ jobs[record.job] # Unused
               /\ record.frequency = "recurring" /\ record.state \in {"scheduled", "paused"}

(* The request has seen the schedule as it is. *)
Current(c) ==
    LET seen == route[c].seen
    IN  /\ Live /\ seen # Absent
        /\ seen.job = record.job /\ seen.enabled = record.enabled /\ seen.state = record.state

Doing(c, op, step) == route[c].op = op /\ route[c].step = step

(* The rollback of a refused update, to the old job or from the new one. *)
RollsBack(c) == Doing(c, "update", "resumeOld") \/ Doing(c, "update", "deleteNew")

UpdateInv(c) ==
    \/ Doing(c, "update", "pauseOld") /\ Current(c) /\ record.enabled /\ Matched
    \/ /\ Doing(c, "update", "job") /\ Current(c) /\ NoneFires
       /\ record.enabled => Exists(record.job)
    \/ /\ Doing(c, "update", "resumeOld") /\ Current(c) /\ NoneFires
       /\ record.enabled /\ Exists(record.job)
    \/ /\ Doing(c, "update", "pauseNew") \/ Doing(c, "update", "deleteNew")
       /\ Current(c) /\ ~record.enabled /\ OnlyFires(route[c].job)
       /\ route[c].job # record.job /\ route[c].frequency = "recurring"
    \/ Doing(c, "update", "deleteOld") /\ Live /\ Matched /\ record.job # route[c].seen.job

RequestInv(c) ==
    \/ route[c] = NoRoute /\ Matched
    \/ Doing(c, "create", "job") /\ ~Live /\ \A j \in Jobs : jobs[j] = Unused
    \/ /\ route[c].op \in {"pause", "resume", "run", "delete", "refresh"}
       /\ Current(c) /\ Matched
       /\ route[c].step = "store" => /\ route[c].state = jobs[record.job].state
                                     /\ route[c].state \in {"active", "paused"}
    \/ UpdateInv(c)

ClientInv(c) == RequestInv(c) /\ (RollsBack(c) => refusals > 0)

JobsInv == Plain => FileInv /\ \A c \in Clients : ClientInv(c)

(* The calls of a rollback are not refused. *)
RollbackHeeded ==
    \A c \in Clients : RollsBack(c) /\ UpdateCleansUp(c) => refusals' = refusals

(* The schedule is what it was, but for its marker and last claim. *)
SameSchedule ==
    \/ record' = record
    \/ /\ Live /\ Live'
       /\ record'.job = record.job /\ record'.enabled = record.enabled
       /\ record'.state = record.state /\ record'.frequency = record.frequency

LEMMA ScheduleIsLive == \A rec \in Schedule : rec # Absent
BY DEF Schedule, Frequencies, Absent

LEMMA SameScheduleKeeps ==
    ASSUME FileInv, jobs' = jobs, SameSchedule
    PROVE  FileInv' /\ (Matched => Matched')
<1>1. FileInv' BY DEF FileInv, SameSchedule, Live
<1>2. Matched => Matched' BY DEF Matched, Firing, SameSchedule, Live
<1> QED BY <1>1, <1>2

LEMMA QuietKeepsJobs ==
    ASSUME FileInv, NEW c \in Clients, ClientInv(c), UNCHANGED <<jobs, route, refusals>>, SameSchedule
    PROVE  FileInv' /\ ClientInv(c)'
<1>1. FileInv' /\ (Matched => Matched') BY SameScheduleKeeps
<1>2. Current(c) => Current(c)' BY DEF Current, SameSchedule, Live
<1>3. /\ NoneFires => NoneFires' /\ \A n : OnlyFires(n) => OnlyFires(n)'
      /\ \A n : Exists(n) <=> Exists(n)'
  BY DEF NoneFires, OnlyFires, Firing, Exists
<1>4. /\ Live' <=> Live
      /\ Live => record'.job = record.job /\ record'.enabled = record.enabled
  BY DEF SameSchedule, Live
<1>5. UpdateInv(c) => UpdateInv(c)'
  <2>1. \A op, step : Doing(c, op, step)' <=> Doing(c, op, step) BY DEF Doing
  <2>2. Current(c) => Live BY DEF Current
  <2>3. OnlyFires(route[c].job) => OnlyFires(route[c].job)' BY DEF OnlyFires, Firing
  <2> QED BY <1>1, <1>2, <1>3, <1>4, <2>1, <2>2, <2>3 DEF UpdateInv
<1>6. RequestInv(c)'
  <2>1. \A op, step : Doing(c, op, step)' <=> Doing(c, op, step) BY DEF Doing
  <2>2. Current(c) => Live BY DEF Current
  <2> QED BY <1>1, <1>2, <1>4, <1>5, <2>1, <2>2 DEF RequestInv, ClientInv
<1> QED BY <1>1, <1>6 DEF ClientInv, RollsBack, Doing

(* A client asks, from a file and a timer that match. *)
LEMMA AskKeepsJobs ==
    ASSUME RunTypes, RouteTypes, NEW c \in Clients, FileInv, ClientInv(c), Ask(c)
    PROVE  FileInv' /\ ClientInv(c)'
<1>1. /\ jobs' = jobs /\ SameSchedule /\ route[c] = NoRoute
  <2>1. RunNow(c) => Live /\ record' # Absent /\ SameSchedule
    BY DEF RunNow, SameSchedule, Live, RunTypes, Schedule, Absent
  <2> QED BY <2>1 DEF Ask, Create, Update, SetEnabled, RunNow, Delete, Refresh, Asks, SameSchedule
<1>2. Matched BY <1>1 DEF ClientInv, RequestInv, UpdateInv, Doing, NoRoute
<1>3. FileInv' /\ Matched' BY <1>1, <1>2, SameScheduleKeeps
<1>4. \/ /\ route'[c].op = "create" /\ route'[c].step = "job" /\ Create(c)
      \/ /\ Live /\ route'[c].seen = record
         /\ \/ route'[c].op \in {"pause", "resume", "run", "delete", "refresh"} /\ route'[c].step # "store"
            \/ /\ route'[c].op = "update" /\ record' = record
               /\ route'[c].step = IF record.enabled THEN "pauseOld" ELSE "job"
  BY DEF Ask, Create, Update, SetEnabled, RunNow, Delete, Refresh, Asks, Request, RouteTypes
<1>5. Live /\ route'[c].seen = record => Current(c)'
  BY <1>1 DEF Current, SameSchedule, Live
<1>6. CASE Create(c) /\ route'[c].op = "create" /\ route'[c].step = "job"
  <2>1. \A j \in Jobs : jobs[j] = Unused BY <1>6 DEF Create
  <2>2. ~Live /\ record' = record BY <1>6, <2>1 DEF Create, FileInv
  <2> QED BY <1>1, <1>3, <1>6, <2>1, <2>2 DEF ClientInv, RequestInv, Doing, RollsBack, Live
<1>7. CASE Live /\ route'[c].op \in {"pause", "resume", "run", "delete", "refresh"}
           /\ route'[c].step # "store" /\ route'[c].seen = record
  BY <1>3, <1>5, <1>7 DEF ClientInv, RequestInv, RollsBack, Doing
<1>8. CASE Live /\ route'[c].op = "update" /\ record' = record /\ route'[c].seen = record
           /\ route'[c].step = IF record.enabled THEN "pauseOld" ELSE "job"
  <2>1. ~record.enabled => NoneFires' BY <1>1, <1>2 DEF Matched, NoneFires, Firing
  <2>2. UpdateInv(c)' BY <1>3, <1>5, <1>8, <2>1 DEF UpdateInv, Doing
  <2>3. ~RollsBack(c)' BY <1>8 DEF RollsBack, Doing
  <2> QED BY <1>3, <2>2, <2>3 DEF ClientInv, RequestInv
<1> QED BY <1>4, <1>6, <1>7, <1>8

(* What a call does when its answer is learned. *)
LEMMA CallsDo ==
    ASSUME RouteTypes, NEW a \in Answers, Learned(a), doubts' = 0
    PROVE  /\ a \in {"done", "refused"}
           /\ refusals' = IF a = "refused" THEN refusals + 1 ELSE refusals
           /\ refusals' >= refusals
           /\ a = "refused" => refusals' > 0 /\ refusals' # refusals
BY DEF Learned, RouteTypes, Answers

LEMMA PutDoes ==
    ASSUME RouteTypes, NEW j, NEW state, NEW a \in {"done", "refused"}, Put(j, state, a)
    PROVE  /\ a = "refused" \/ ~Exists(j) => jobs' = jobs
           /\ a = "done" /\ Exists(j) =>
                  /\ j \in Jobs
                  /\ \A i \in Jobs : jobs'[i].state = IF i = j THEN state ELSE jobs[i].state
                  /\ \A i \in Jobs : jobs'[i].frequency = jobs[i].frequency
                  /\ \A i \in Jobs : jobs[i] # Unused /\ state # "unused" => jobs'[i] # Unused
<1>1. a = "refused" \/ ~Exists(j) => jobs' = jobs BY DEF Put
<1>2. CASE a = "done" /\ Exists(j)
  <2>1. j \in Jobs /\ jobs' = [jobs EXCEPT ![j] = [jobs[j] EXCEPT !.state = state]]
    BY <1>2 DEF Put, Exists
  <2>2. jobs[j] \in Job BY <1>2, <2>1 DEF Exists, RouteTypes, Unused
  <2>3. [jobs[j] EXCEPT !.state = state].state = state
        /\ [jobs[j] EXCEPT !.state = state].frequency = jobs[j].frequency
    BY <2>2 DEF Job
  <2>4. \A i \in Jobs : jobs'[i] = IF i = j THEN [jobs[j] EXCEPT !.state = state] ELSE jobs[i]
    BY <2>1 DEF RouteTypes
  <2>5. \A i \in Jobs : jobs'[i].state = IF i = j THEN state ELSE jobs[i].state
    BY <2>3, <2>4
  <2>6. \A i \in Jobs : jobs'[i].frequency = jobs[i].frequency BY <2>3, <2>4
  <2>7. \A i \in Jobs : jobs[i] # Unused /\ state # "unused" => jobs'[i] # Unused
    BY <2>4, <2>5 DEF Unused
  <2> QED BY <1>2, <2>1, <2>5, <2>6, <2>7
<1> QED BY <1>1, <1>2

LEMMA AddDoes ==
    ASSUME RouteTypes, NEW j \in FreshJobs, NEW f, NEW a \in {"done", "refused"}, Added(j, f, a)
    PROVE  /\ j \in Jobs /\ jobs[j] = Unused
           /\ a = "refused" => jobs' = jobs
           /\ a = "done" =>
                  /\ jobs'[j] = [state |-> "active", frequency |-> f] /\ jobs'[j] # Unused
                  /\ \A i \in Jobs : i # j => jobs'[i] = jobs[i]
BY DEF Added, FreshJobs, RouteTypes, Unused

(* Only a new job has a frequency that none had before. *)
LEMMA PlainStays ==
    ASSUME RunTypes, RouteTypes, IsFiniteSet(Clients), [Next]_vars, Plain'
    PROVE  Plain
<1>1. ASSUME NEW a \in Answers, Learned(a) PROVE doubts = 0
  BY <1>1 DEF Learned, RouteTypes, Plain
<1>2. ASSUME jobs' = jobs, doubts' = doubts PROVE Plain BY <1>2 DEF Plain, Recurring
<1>3. ASSUME NEW j, NEW state, NEW a, Put(j, state, a), doubts = 0 PROVE Plain
  <2>1. CASE jobs' = jobs BY <1>3, <2>1 DEF Plain, Recurring
  <2>2. CASE Exists(j) /\ jobs' = [jobs EXCEPT ![j] = [jobs[j] EXCEPT !.state = state]]
    <3>1. jobs[j] \in Job BY <2>2 DEF Exists, RouteTypes, Unused
    <3>2. [jobs[j] EXCEPT !.state = state].frequency = jobs[j].frequency BY <3>1 DEF Job
    <3>3. \A i \in Jobs : jobs'[i] = IF i = j THEN [jobs[j] EXCEPT !.state = state] ELSE jobs[i]
      BY <2>2 DEF RouteTypes
    <3>4. \A i \in Jobs : jobs'[i].frequency = jobs[i].frequency BY <3>2, <3>3
    <3> QED BY <1>3, <3>4 DEF Plain, Recurring
  <2> QED BY <1>3, <2>1, <2>2 DEF Put
<1>4. ASSUME NEW j \in FreshJobs, NEW f, NEW a, Added(j, f, a), doubts = 0 PROVE Plain
  <2>1. jobs[j].frequency # "once" BY <1>4 DEF FreshJobs, Unused
  <2>2. \A i \in Jobs : i # j => jobs'[i] = jobs[i] BY <1>4 DEF Added, RouteTypes
  <2> QED BY <1>4, <2>1, <2>2 DEF Plain, Recurring
<1>5. ASSUME NEW c \in Clients, Ask(c) PROVE Plain
  BY <1>2, <1>5 DEF Ask, Create, Update, SetEnabled, RunNow, Delete, Refresh
<1>6. ASSUME NEW c \in Clients, Serve(c) PROVE Plain
  <2>1. CASE \E a \in Answers, j \in FreshJobs, f \in {route[c].frequency} : Learned(a) /\ Added(j, f, a)
    BY <1>1, <1>4, <2>1
  <2>2. CASE \E a \in Answers : Learned(a) /\ \E j, state : Put(j, state, a) BY <1>1, <1>3, <2>2
  <2>3. CASE (\E a \in Answers : Learned(a)) /\ jobs' = jobs
    <3>1. doubts = 0 BY <1>1, <2>3
    <3> QED BY <2>3, <3>1 DEF Plain, Recurring
  <2>4. CASE jobs' = jobs /\ doubts' = doubts BY <1>2, <2>4
  <2> QED BY <1>6, <2>1, <2>2, <2>3, <2>4
          DEF Serve, CreateJob, UpdatePauseOld, UpdateJob, UpdatePauseNew, UpdateCleansUp,
              SetEnabledCall, RunNowCall, DeleteCall, RefreshGet, RefreshStore, Answers
<1>7. ASSUME NEW j \in Jobs, Fire(j) PROVE Plain
  <2>1. jobs[j] \in Job BY <1>7 DEF Fire, RouteTypes, Unused
  <2>2. CASE jobs' = jobs BY <1>2, <1>7, <2>2 DEF Fire
  <2>3. CASE jobs[j].frequency = "once" /\ jobs' = [jobs EXCEPT ![j] = [jobs[j] EXCEPT !.state = "done"]]
    <3>1. jobs'[j].frequency = "once" BY <2>1, <2>3 DEF RouteTypes, Job
    <3> QED BY <3>1 DEF Plain, Recurring
  <2> QED BY <1>7, <2>2, <2>3 DEF Fire, Fired
<1>8. CASE ServiceCrash
  <2>1. Cardinality({c \in Clients : route[c] # NoRoute}) \in Nat BY FS_Subset, FS_CardinalityType
  <2>2. doubts = 0 BY <1>8, <2>1 DEF ServiceCrash, RouteTypes, Plain
  <2> QED BY <1>8, <2>2 DEF ServiceCrash, Plain, Recurring
<1>9. CASE UNCHANGED routeVars BY <1>2, <1>9 DEF routeVars
<1> QED BY <1>5, <1>6, <1>7, <1>8, <1>9 DEF Next, vars

(* A route ends with the file and the timer matched. *)
LEMMA EndsMatched ==
    ASSUME RouteTypes, NEW c \in Clients, Ends(c), FileInv', Matched'
    PROVE  FileInv' /\ ClientInv(c)'
<1>1. route'[c] = NoRoute BY DEF Ends, RouteTypes
<1> QED BY <1>1 DEF ClientInv, RequestInv, RollsBack, Doing, NoRoute

LEMMA EndsUnchanged ==
    ASSUME RouteTypes, NEW c \in Clients, Ends(c), FileInv, Matched, jobs' = jobs, SameSchedule
    PROVE  FileInv' /\ ClientInv(c)'
<1>1. FileInv' /\ Matched' BY SameScheduleKeeps
<1> QED BY <1>1, EndsMatched

(* The one call of a creation, and those that change or remove a schedule  *)
(* at once.                                                                *)
LEMMA CallKeepsJobs ==
    ASSUME RunTypes, RouteTypes, NEW c \in Clients, FileInv, ClientInv(c), Plain',
           CreateJob(c) \/ SetEnabledCall(c) \/ RunNowCall(c) \/ DeleteCall(c)
    PROVE  FileInv' /\ ClientInv(c)'
<1> USE DEF At
<1>0. doubts' = 0 /\ Recurring' /\ Ends(c)
  BY DEF Plain, CreateJob, SetEnabledCall, RunNowCall, DeleteCall
<1>1. route[c] # NoRoute /\ route[c].frequency \in Frequencies
  <2>1. route[c] # NoRoute BY DEF CreateJob, SetEnabledCall, RunNowCall, DeleteCall, NoRoute
  <2> QED BY <2>1 DEF RouteTypes, RouteOK
<1>2. CASE CreateJob(c)
  <2>1. PICK a \in Answers, j \in FreshJobs :
            /\ Learned(a) /\ Added(j, route[c].frequency, a)
            /\ record' = IF a = "done" THEN NewRecord(route[c].frequency, j) ELSE record
    BY <1>2 DEF CreateJob
  <2>2. a \in {"done", "refused"} BY <1>0, <2>1, CallsDo
  <2>3. ~Live /\ \A i \in Jobs : jobs[i] = Unused
    BY <1>2 DEF CreateJob, ClientInv, RequestInv, UpdateInv, Doing, NoRoute
  <2>4. Matched BY <2>3 DEF Matched, Firing, Unused
  <2>5. CASE a = "refused"
    <3>1. jobs' = jobs /\ SameSchedule BY <2>1, <2>2, <2>5, AddDoes DEF SameSchedule
    <3> QED BY <1>0, <2>4, <3>1, EndsUnchanged
  <2>6. CASE a = "done"
    <3> DEFINE f == route[c].frequency
    <3>1. /\ j \in Jobs /\ jobs'[j] = [state |-> "active", frequency |-> f] /\ jobs'[j] # Unused
          /\ \A i \in Jobs : i # j => jobs'[i] = Unused
      BY <2>1, <2>2, <2>3, <2>6, AddDoes
    <3>2. f = "recurring" BY <1>0, <1>1, <3>1 DEF Recurring, Frequencies
    <3>3. j \in Nat BY <3>1, SchedulesAssumption DEF Jobs
    <3>4. record' = NewRecord(f, j) BY <2>1, <2>6
    <3> HIDE DEF f
    <3>5. /\ record' \in Schedule /\ record'.job = j /\ record'.frequency = "recurring"
          /\ record'.enabled = TRUE /\ record'.state = "scheduled"
      BY <3>2, <3>3, <3>4, NewRecordIsTyped DEF Frequencies
    <3>6. Live' BY <3>5, ScheduleIsLive DEF Live
    <3>7. \A i \in Jobs : jobs'[i].state = IF i = j THEN "active" ELSE "unused"
      BY <3>1 DEF Unused
    <3>8. FileInv' BY <3>1, <3>5, <3>6, <3>7 DEF FileInv
    <3>9. Matched' BY <3>5, <3>6, <3>7 DEF Matched, Firing
    <3> QED BY <1>0, <3>8, <3>9, EndsMatched
  <2> QED BY <2>2, <2>5, <2>6
<1>3. CASE SetEnabledCall(c) \/ RunNowCall(c) \/ DeleteCall(c)
  <2>0. Current(c) /\ Matched
    BY <1>3 DEF SetEnabledCall, RunNowCall, DeleteCall, ClientInv, RequestInv, UpdateInv, Doing, NoRoute
  <2>1. /\ Live /\ Old(c) = record.job /\ record \in Schedule /\ record.job \in Jobs
        /\ jobs[record.job] # Unused /\ record.frequency = "recurring" /\ record.job \in Nat
    BY <2>0, SchedulesAssumption DEF Current, Old, Live, FileInv, RunTypes, Jobs
  <2>2. CASE RunNowCall(c)
    <3>1. jobs' = jobs BY <2>2 DEF RunNowCall
    <3>2. SameSchedule
      <4>1. record' = record \/ record' = [record EXCEPT !.marker = 0] BY <2>2 DEF RunNowCall
      <4>2. record' = [record EXCEPT !.marker = 0] => record' \in Schedule
        BY <2>1, ScheduleRunsAssumption DEF Schedule
      <4>3. record' = [record EXCEPT !.marker = 0] =>
                /\ record'.job = record.job /\ record'.enabled = record.enabled
                /\ record'.state = record.state /\ record'.frequency = record.frequency
        BY <2>1 DEF Schedule
      <4> QED BY <2>1, <4>1, <4>2, <4>3, ScheduleIsLive DEF SameSchedule, Live
    <3> QED BY <1>0, <2>0, <3>1, <3>2, EndsUnchanged
  <2>3. CASE SetEnabledCall(c)
    <3>1. PICK op \in {"pause", "resume"}, a \in Answers, state \in {"active", "paused"} :
              /\ Learned(a) /\ Put(Old(c), state, a)
              /\ record' = IF Live /\ Works(Old(c), a) THEN Told(record, Old(c), state) ELSE record
      BY <2>3 DEF SetEnabledCall
    <3>2. a \in {"done", "refused"} BY <1>0, <3>1, CallsDo
    <3>3. CASE a = "done" /\ Exists(Old(c))
      <4>1. /\ \A i \in Jobs : jobs'[i].state = IF i = record.job THEN state ELSE jobs[i].state
            /\ \A i \in Jobs : jobs[i] # Unused => jobs'[i] # Unused
        BY <2>1, <3>1, <3>2, <3>3, PutDoes
      <4>2. record' = Told(record, record.job, state) BY <2>1, <3>1, <3>3 DEF Works
      <4>3. /\ record' \in Schedule /\ record'.job = record.job /\ record'.frequency = "recurring"
            /\ record'.enabled = (state = "active") /\ record'.state \in {"scheduled", "paused"}
        <5> DEFINE told == Told(record, record.job, state)
        <5>1. told \in Schedule /\ told.state \in {"scheduled", "paused"}
          BY <2>1, ToldIsTyped
        <5>3. told.job = record.job /\ told.frequency = record.frequency /\ told.enabled = (state = "active")
          BY <2>1 DEF Told, Schedule
        <5> HIDE DEF told
        <5>2. record' = told BY <4>2 DEF told
        <5> QED BY <2>1, <5>1, <5>2, <5>3
      <4>4. Live' BY <4>3, ScheduleIsLive DEF Live
      <4>5. FileInv' BY <2>1, <4>1, <4>3, <4>4 DEF FileInv
      <4>6. Matched' BY <2>0, <4>1, <4>3, <4>4 DEF Matched, Firing
      <4> QED BY <1>0, <4>5, <4>6, EndsMatched
    <3>4. CASE ~(a = "done" /\ Exists(Old(c)))
      <4>1. jobs' = jobs /\ SameSchedule BY <3>1, <3>2, <3>4, PutDoes DEF Works, SameSchedule
      <4> QED BY <1>0, <2>0, <4>1, EndsUnchanged
    <3> QED BY <3>3, <3>4
  <2>4. CASE DeleteCall(c)
    <3>1. PICK a \in Answers :
              /\ Learned(a) /\ Put(Old(c), "deleted", a)
              /\ IF a = "done" \/ (a = "refused" /\ ~Exists(Old(c)))
                 THEN record' = Absent ELSE record' = record
      BY <2>4 DEF DeleteCall
    <3>2. a \in {"done", "refused"} BY <1>0, <3>1, CallsDo
    <3>3. CASE a = "refused" /\ Exists(Old(c))
      <4>1. jobs' = jobs /\ SameSchedule BY <3>1, <3>2, <3>3, PutDoes DEF SameSchedule
      <4> QED BY <1>0, <2>0, <4>1, EndsUnchanged
    <3>4. CASE ~(a = "refused" /\ Exists(Old(c)))
      <4>1. record' = Absent /\ ~Live' BY <3>1, <3>2, <3>4 DEF Live
      <4>2. \A i \in Jobs : jobs'[i].state # "active" /\ jobs'[i].state # "done"
        <5>1. CASE Exists(Old(c))
          BY <2>0, <2>1, <3>1, <3>2, <3>4, <5>1, PutDoes DEF Matched, Firing, FileInv
        <5>2. CASE ~Exists(Old(c))
          <6>1. jobs' = jobs BY <3>1, <3>2, <5>2, PutDoes
          <6>2. jobs[record.job].state # "active" BY <2>1, <5>2 DEF Exists
          <6> QED BY <2>0, <2>1, <6>1, <6>2 DEF Matched, Firing, FileInv
        <5> QED BY <5>1, <5>2
      <4> QED BY <1>0, <4>1, <4>2, EndsMatched DEF FileInv, Matched, Firing
    <3> QED BY <3>3, <3>4
  <2> QED BY <1>3, <2>2, <2>3, <2>4
<1> QED BY <1>2, <1>3

(* A refresh writes what the timer told, which is still so. *)
LEMMA RefreshKeepsJobs ==
    ASSUME RunTypes, RouteTypes, NEW c \in Clients, FileInv, ClientInv(c), Plain',
           RefreshGet(c) \/ RefreshStore(c)
    PROVE  FileInv' /\ ClientInv(c)'
<1> USE DEF At
<1>0. Current(c) /\ Matched /\ route[c].op = "refresh" /\ doubts' = 0 /\ jobs' = jobs
  BY DEF RefreshGet, RefreshStore, ClientInv, RequestInv, UpdateInv, Doing, NoRoute, Plain
<1>1. /\ Live /\ Old(c) = record.job /\ record \in Schedule /\ record.job \in Jobs
      /\ jobs[record.job] # Unused /\ record.frequency = "recurring" /\ record.job \in Nat
      /\ route[c].seen.state \in {"scheduled", "paused"}
  BY <1>0, SchedulesAssumption DEF Current, Old, Live, FileInv, RunTypes, Jobs
<1>2. CASE RefreshGet(c)
  <2>1. PICK a \in Answers :
            /\ Learned(a)
            /\ IF Works(Old(c), a)
               THEN route' = [route EXCEPT ![c].step = "store", ![c].state = jobs[Old(c)].state]
               ELSE Ends(c)
    BY <1>2 DEF RefreshGet, Answers
  <2>2. SameSchedule BY <1>2 DEF RefreshGet, SameSchedule
  <2>3. CASE Ends(c) BY <1>0, <2>2, <2>3, EndsUnchanged
  <2>4. CASE Works(Old(c), a) /\ ~Ends(c)
    <3>1. jobs[record.job].state \in {"active", "paused"}
      BY <1>1, <2>4 DEF Works, Exists, FileInv
    <3>2. route' = [route EXCEPT ![c] = [route[c] EXCEPT !.step = "store", !.state = jobs[record.job].state]]
      BY <1>1, <2>1, <2>4 DEF RouteTypes
    <3>3. route[c] \in RouteOK BY <1>0 DEF RouteTypes, NoRoute
    <3>4. /\ route'[c].op = "refresh" /\ route'[c].step = "store" /\ route'[c].seen = route[c].seen
          /\ route'[c].state = jobs[record.job].state
      BY <1>0, <3>2, <3>3 DEF RouteTypes, RouteOK
    <3>5. record' = record BY <1>2 DEF RefreshGet
    <3>6. FileInv' /\ Matched' BY <1>0, <2>2, SameScheduleKeeps
    <3>7. Current(c)' BY <1>0, <3>4, <3>5 DEF Current, Live
    <3> QED BY <1>0, <3>1, <3>4, <3>5, <3>6, <3>7 DEF ClientInv, RequestInv, RollsBack, Doing
  <2> QED BY <2>1, <2>3, <2>4
<1>3. CASE RefreshStore(c)
  <2> DEFINE state == route[c].state
  <2>1. state = jobs[record.job].state /\ state \in {"active", "paused"}
    BY <1>0, <1>3 DEF RefreshStore, ClientInv, RequestInv, UpdateInv, Doing, NoRoute
  <2>2. record' = Told(record, record.job, state) BY <1>1, <1>3 DEF RefreshStore
  <2> HIDE DEF state
  <2>3. /\ record' \in Schedule /\ record'.job = record.job /\ record'.frequency = "recurring"
        /\ record'.enabled = (state = "active") /\ record'.state \in {"scheduled", "paused"}
    <3> DEFINE told == Told(record, record.job, state)
    <3>1. told \in Schedule /\ told.state \in {"scheduled", "paused"}
      BY <1>1, <2>1, ToldIsTyped
    <3>2. told.job = record.job /\ told.frequency = record.frequency /\ told.enabled = (state = "active")
      BY <1>1 DEF Told, Schedule
    <3> HIDE DEF told
    <3>3. record' = told BY <2>2 DEF told
    <3> QED BY <1>1, <3>1, <3>2, <3>3
  <2>4. Live' BY <2>3, ScheduleIsLive DEF Live
  <2>5. FileInv' BY <1>0, <1>1, <2>3, <2>4 DEF FileInv
  <2>6. Matched' BY <1>0, <1>1, <2>1, <2>3, <2>4 DEF Matched, Firing
  <2>7. Ends(c) BY <1>3 DEF RefreshStore
  <2> QED BY <2>5, <2>6, <2>7, EndsMatched
<1> QED BY <1>2, <1>3

(* The steps of an update: what fires between them, and where a refused    *)
(* call leaves the file and the timer.                                     *)
LEMMA UpdateKeepsJobs ==
    ASSUME RunTypes, RouteTypes, NEW c \in Clients, FileInv, ClientInv(c), Plain', RollbackHeeded,
           \/ UpdatePauseOld(c) \/ UpdateJob(c) \/ UpdatePauseNew(c) \/ UpdateCleansUp(c)
    PROVE  FileInv' /\ ClientInv(c)'
<1> USE DEF At
<1>0. doubts' = 0 /\ Recurring' BY DEF Plain
<1>1. route[c].op = "update" /\ UpdateInv(c)
  BY DEF UpdatePauseOld, UpdateJob, UpdatePauseNew, UpdateCleansUp, ClientInv, RequestInv, Doing, NoRoute
<1>2. /\ route[c] \in RouteOK /\ route[c].frequency \in Frequencies
      /\ Live /\ record \in Schedule /\ record.job \in Jobs
      /\ jobs[record.job] # Unused /\ record.frequency = "recurring"
      /\ record.state \in {"scheduled", "paused"} /\ record.enabled \in BOOLEAN
  BY <1>1 DEF RouteTypes, RouteOK, NoRoute, UpdateInv, Current, Live, FileInv, RunTypes, Schedule
<1>3. ASSUME NEW step, Step(c, step)
      PROVE  /\ route'[c].op = "update" /\ route'[c].step = step
             /\ route'[c].seen = route[c].seen /\ route'[c].job = route[c].job
             /\ route'[c].frequency = route[c].frequency
  <2>1. route' = [route EXCEPT ![c] = [route[c] EXCEPT !.step = step]] BY <1>3 DEF Step
  <2> QED BY <1>1, <1>2, <2>1 DEF RouteTypes, RouteOK
<1>4. ASSUME NEW j \in Jobs, NEW state \in {"active", "paused"}, record' = Moved(c, j, state),
             route[c].frequency = "recurring"
      PROVE  /\ Live' /\ record'.job = j /\ record'.enabled = (state = "active")
             /\ record'.frequency = "recurring" /\ record'.state \in {"scheduled", "paused"}
  <2> DEFINE rec  == [record EXCEPT !.frequency = route[c].frequency]
             told == Told(rec, j, state)
  <2>1. rec \in Schedule /\ rec.frequency = "recurring" BY <1>2, <1>4 DEF Schedule
  <2>2. j \in Nat BY SchedulesAssumption DEF Jobs
  <2>3. record' = told BY <1>2, <1>4 DEF Moved
  <2> HIDE DEF rec
  <2>4. told \in Schedule /\ told.state \in {"scheduled", "paused"} BY <2>1, <2>2, ToldIsTyped
  <2>5. told.job = j /\ told.frequency = "recurring" /\ told.enabled = (state = "active")
    BY <2>1 DEF Told, Schedule
  <2> HIDE DEF told
  <2> QED BY <2>3, <2>4, <2>5, ScheduleIsLive DEF Live
<1>5. CASE UpdatePauseOld(c)
  <2>1. Current(c) /\ record.enabled /\ Matched /\ Old(c) = record.job
    BY <1>1, <1>5 DEF UpdatePauseOld, UpdateInv, Doing, Current, Old
  <2>2. PICK a \in Answers :
            /\ Learned(a) /\ Put(Old(c), "paused", a)
            /\ IF Works(Old(c), a) THEN Step(c, "job") ELSE Ends(c)
    BY <1>5 DEF UpdatePauseOld
  <2>3. a \in {"done", "refused"} /\ record' = record BY <1>0, <1>5, <2>2, CallsDo DEF UpdatePauseOld
  <2>4. CASE Works(Old(c), a)
    <3>1. /\ \A i \in Jobs : jobs'[i].state = IF i = record.job THEN "paused" ELSE jobs[i].state
          /\ \A i \in Jobs : jobs[i] # Unused => jobs'[i] # Unused
      BY <1>2, <2>1, <2>2, <2>3, <2>4, PutDoes DEF Works
    <3>2. FileInv' BY <1>2, <2>3, <3>1 DEF FileInv, Live
    <3>3. NoneFires' /\ Exists(record.job)'
      BY <1>2, <2>1, <2>3, <3>1 DEF NoneFires, Firing, Matched, Exists
    <3>4. Step(c, "job") BY <2>2, <2>4
    <3>5. Doing(c, "update", "job")' /\ Current(c)'
      BY <1>3, <2>1, <2>3, <3>4 DEF Doing, Current, Live
    <3>6. ~RollsBack(c)' BY <3>5 DEF RollsBack, Doing
    <3> QED BY <3>2, <3>3, <3>5, <3>6 DEF ClientInv, RequestInv, UpdateInv
  <2>5. CASE ~Works(Old(c), a)
    <3>1. jobs' = jobs /\ SameSchedule BY <2>2, <2>3, <2>5, PutDoes DEF Works, SameSchedule
    <3> QED BY <2>1, <2>2, <2>5, <3>1, EndsUnchanged
  <2> QED BY <2>4, <2>5
<1>6. CASE UpdateJob(c)
  <2>1. /\ Current(c) /\ NoneFires /\ (record.enabled => Exists(record.job))
        /\ route[c].seen.enabled = record.enabled /\ route[c].seen.job = record.job
    BY <1>1, <1>6 DEF UpdateJob, UpdateInv, Doing, Current
  <2>2. PICK a \in Answers, j \in FreshJobs :
            /\ Learned(a) /\ Added(j, route[c].frequency, a)
            /\ record' = IF a = "done" /\ route[c].seen.enabled THEN Moved(c, j, "active") ELSE record
            /\ LET next == AfterJob(a, route[c].seen.enabled)
               IN  IF next = "end" THEN Ends(c)
                   ELSE route' = [route EXCEPT ![c].step = next, ![c].job = j]
    BY <1>6 DEF UpdateJob
  <2>3. a \in {"done", "refused"} /\ (a = "refused" => refusals' > 0)
    BY <1>0, <2>2, CallsDo
  <2>4. j \in Jobs /\ j # record.job /\ jobs[j] = Unused /\ j \in 0..MaxJobs
    BY <1>2, SchedulesAssumption DEF FreshJobs, Jobs
  <2>5. ASSUME NEW step, route' = [route EXCEPT ![c].step = step, ![c].job = j]
        PROVE  /\ route'[c].op = "update" /\ route'[c].step = step
               /\ route'[c].seen = route[c].seen /\ route'[c].job = j
               /\ route'[c].frequency = route[c].frequency
    <3>1. route' = [route EXCEPT ![c] = [route[c] EXCEPT !.step = step, !.job = j]]
      BY <2>5 DEF RouteTypes
    <3> QED BY <1>1, <1>2, <3>1 DEF RouteTypes, RouteOK
  <2>6. CASE a = "refused"
    <3>1. jobs' = jobs /\ record' = record /\ SameSchedule
      BY <2>2, <2>3, <2>6, AddDoes DEF SameSchedule
    <3>2. CASE ~record.enabled
      <4>1. Ends(c) BY <2>1, <2>2, <2>6, <3>2 DEF AfterJob
      <4>2. Matched BY <2>1, <3>2 DEF Matched, NoneFires
      <4> QED BY <3>1, <4>1, <4>2, EndsUnchanged
    <3>3. CASE record.enabled
      <4>1. route' = [route EXCEPT ![c].step = "resumeOld", ![c].job = j]
        BY <2>1, <2>2, <2>6, <3>3 DEF AfterJob
      <4>2. Doing(c, "update", "resumeOld")' /\ Current(c)'
        BY <2>1, <2>5, <3>1, <4>1 DEF Doing, Current, Live
      <4>3. NoneFires' /\ Exists(record.job)' BY <2>1, <3>1, <3>3 DEF NoneFires, Firing, Exists
      <4>4. FileInv' BY <3>1 DEF FileInv, Live
      <4> QED BY <2>3, <2>6, <3>1, <3>3, <4>2, <4>3, <4>4 DEF ClientInv, RequestInv, UpdateInv
    <3> QED BY <3>2, <3>3
  <2>7. CASE a = "done"
    <3> DEFINE f == route[c].frequency
    <3>1. /\ jobs'[j] = [state |-> "active", frequency |-> f] /\ jobs'[j] # Unused
          /\ \A i \in Jobs : i # j => jobs'[i] = jobs[i]
      BY <2>2, <2>3, <2>7, AddDoes
    <3>2. f = "recurring" BY <1>0, <1>2, <2>4, <3>1 DEF Recurring, Frequencies
    <3>3. \A i \in Jobs : (jobs'[i].state = "active") = (i = j) BY <2>1, <3>1 DEF NoneFires, Firing
    <3>4. \A i \in Jobs : jobs'[i].state # "done"
      <4>1. jobs'[j].state = "active" BY <3>1
      <4> QED BY <3>1, <4>1 DEF FileInv
    <3>5. CASE record.enabled
      <4>1. record' = Moved(c, j, "active") BY <2>1, <2>2, <2>7, <3>5
      <4>2. /\ Live' /\ record'.job = j /\ record'.enabled = ("active" = "active")
            /\ record'.frequency = "recurring" /\ record'.state \in {"scheduled", "paused"}
        BY <1>4, <2>4, <3>2, <4>1
      <4>3. FileInv' BY <2>4, <3>1, <3>4, <4>2 DEF FileInv
      <4>4. Matched' BY <3>3, <4>2 DEF Matched, Firing
      <4>5. route' = [route EXCEPT ![c].step = "deleteOld", ![c].job = j]
        BY <2>1, <2>2, <2>7, <3>5 DEF AfterJob
      <4>6. Doing(c, "update", "deleteOld")' /\ record'.job # route'[c].seen.job
        BY <2>1, <2>4, <2>5, <4>2, <4>5 DEF Doing
      <4>7. ~RollsBack(c)' BY <4>6 DEF RollsBack, Doing
      <4> QED BY <4>2, <4>3, <4>4, <4>6, <4>7 DEF ClientInv, RequestInv, UpdateInv
    <3>6. CASE ~record.enabled
      <4>1. record' = record BY <2>1, <2>2, <3>6
      <4>2. FileInv' BY <1>2, <2>4, <3>1, <3>4, <4>1 DEF FileInv, Live
      <4>3. route' = [route EXCEPT ![c].step = "pauseNew", ![c].job = j]
        BY <2>1, <2>2, <2>7, <3>6 DEF AfterJob
      <4>4. /\ Doing(c, "update", "pauseNew")' /\ Current(c)' /\ route'[c].job = j
            /\ route'[c].frequency = "recurring"
        BY <2>1, <2>5, <3>2, <4>1, <4>3 DEF Doing, Current, Live
      <4>5. OnlyFires(route[c].job)' BY <2>4, <3>3, <4>4 DEF OnlyFires, Firing
      <4>6. ~RollsBack(c)' BY <4>4 DEF RollsBack, Doing
      <4>7. route'[c].job # record'.job BY <2>4, <4>1, <4>4
      <4> QED BY <3>6, <4>1, <4>2, <4>4, <4>5, <4>6, <4>7 DEF ClientInv, RequestInv, UpdateInv
    <3> QED BY <3>5, <3>6
  <2> QED BY <2>3, <2>6, <2>7
<1>7. CASE UpdatePauseNew(c)
  <2> DEFINE j == route[c].job
  <2>1. Current(c) /\ ~record.enabled /\ OnlyFires(j) /\ j \in Jobs
        /\ j # record.job /\ route[c].frequency = "recurring"
    BY <1>1, <1>7 DEF UpdatePauseNew, UpdateInv, Doing, OnlyFires
  <2>2. PICK a \in Answers :
            /\ Learned(a) /\ Put(j, "paused", a)
            /\ record' = IF a = "done" THEN Moved(c, j, "paused") ELSE record
            /\ Step(c, IF a = "done" THEN "deleteOld" ELSE "deleteNew")
    BY <1>7 DEF UpdatePauseNew
  <2>3. a \in {"done", "refused"} /\ (a = "refused" => refusals' > 0) BY <1>0, <2>2, CallsDo
  <2>4. Exists(j) /\ jobs[j] # Unused BY <2>1 DEF OnlyFires, Firing, Exists, Unused
  <2>5. CASE a = "done"
    <3>1. /\ \A i \in Jobs : jobs'[i].state = IF i = j THEN "paused" ELSE jobs[i].state
          /\ \A i \in Jobs : jobs'[i].frequency = jobs[i].frequency
          /\ \A i \in Jobs : jobs[i] # Unused => jobs'[i] # Unused
      BY <2>2, <2>3, <2>4, <2>5, PutDoes
    <3>2. record' = Moved(c, j, "paused") BY <2>2, <2>5
    <3>3. /\ Live' /\ record'.job = j /\ record'.enabled = ("paused" = "active")
          /\ record'.frequency = "recurring" /\ record'.state \in {"scheduled", "paused"}
      BY <1>4, <2>1, <3>2
    <3>4. FileInv' BY <2>1, <2>4, <3>1, <3>3 DEF FileInv
    <3>5. Matched' BY <2>1, <3>1, <3>3 DEF Matched, OnlyFires, Firing
    <3>6. Step(c, "deleteOld") BY <2>2, <2>5
    <3>7. Doing(c, "update", "deleteOld")' /\ route'[c].seen = route[c].seen BY <1>3, <3>6 DEF Doing
    <3>8. j # route[c].seen.job
      BY <2>1 DEF Current
    <3>9. ~RollsBack(c)' BY <3>7 DEF RollsBack, Doing
    <3> QED BY <3>3, <3>4, <3>5, <3>7, <3>8, <3>9 DEF ClientInv, RequestInv, UpdateInv
  <2>6. CASE a = "refused"
    <3>1. jobs' = jobs /\ record' = record BY <2>2, <2>3, <2>6, PutDoes
    <3>2. FileInv' BY <3>1 DEF FileInv, Live
    <3>3. Step(c, "deleteNew") BY <2>2, <2>6
    <3>4. Doing(c, "update", "deleteNew")' /\ Current(c)' /\ route'[c].job = j
          /\ route'[c].frequency = "recurring"
      BY <1>3, <2>1, <3>1, <3>3 DEF Doing, Current, Live
    <3>5. OnlyFires(route[c].job)' BY <2>1, <3>1, <3>4 DEF OnlyFires, Firing
    <3> QED BY <2>1, <2>3, <2>6, <3>1, <3>2, <3>4, <3>5 DEF ClientInv, RequestInv, UpdateInv
  <2> QED BY <2>3, <2>5, <2>6
<1>8. CASE UpdateCleansUp(c)
  <2>1. PICK a \in Answers :
            /\ Learned(a)
            /\ \/ At(c, "update", "deleteOld") /\ Put(Old(c), "deleted", a)
               \/ At(c, "update", "deleteNew") /\ Put(route[c].job, "deleted", a)
               \/ At(c, "update", "resumeOld") /\ Put(Old(c), "active", a)
    BY <1>8 DEF UpdateCleansUp
  <2>2. a \in {"done", "refused"} /\ (a = "refused" => refusals' # refusals)
    BY <1>0, <2>1, CallsDo
  <2>3. Ends(c) /\ record' = record BY <1>8 DEF UpdateCleansUp
  <2>4. RollsBack(c) => a = "done" BY <1>8, <2>2 DEF RollbackHeeded
  <2>5. CASE At(c, "update", "deleteOld") /\ Put(Old(c), "deleted", a)
    <3>1. Live /\ Matched /\ record.job # Old(c)
      BY <1>1, <2>5 DEF UpdateInv, Doing, Old
    <3>2. CASE a = "refused" \/ ~Exists(Old(c))
      <4>1. jobs' = jobs /\ SameSchedule BY <2>2, <2>3, <2>5, <3>2, PutDoes DEF SameSchedule
      <4> QED BY <2>3, <3>1, <4>1, EndsUnchanged
    <3>3. CASE a = "done" /\ Exists(Old(c))
      <4>1. /\ \A i \in Jobs : jobs'[i].state = IF i = Old(c) THEN "deleted" ELSE jobs[i].state
            /\ \A i \in Jobs : jobs[i] # Unused => jobs'[i] # Unused
        BY <2>2, <2>5, <3>3, PutDoes
      <4>2. FileInv' BY <1>2, <2>3, <4>1 DEF FileInv, Live
      <4>3. Matched' BY <2>3, <3>1, <4>1 DEF Matched, Firing, Live
      <4> QED BY <2>3, <4>2, <4>3, EndsMatched
    <3> QED BY <2>2, <3>2, <3>3
  <2>6. CASE At(c, "update", "deleteNew") /\ Put(route[c].job, "deleted", a)
    <3> DEFINE j == route[c].job
    <3>1. ~record.enabled /\ OnlyFires(j) /\ j \in Jobs /\ a = "done"
      BY <1>1, <2>4, <2>6 DEF UpdateInv, Doing, OnlyFires, RollsBack
    <3>2. Exists(j) BY <3>1 DEF OnlyFires, Firing, Exists
    <3>3. /\ \A i \in Jobs : jobs'[i].state = IF i = j THEN "deleted" ELSE jobs[i].state
          /\ \A i \in Jobs : jobs[i] # Unused => jobs'[i] # Unused
      BY <2>2, <2>6, <3>1, <3>2, PutDoes
    <3>4. FileInv' BY <1>2, <2>3, <3>3 DEF FileInv, Live
    <3>5. Matched' BY <2>3, <3>1, <3>3 DEF Matched, Firing, OnlyFires, Live
    <3> QED BY <2>3, <3>4, <3>5, EndsMatched
  <2>7. CASE At(c, "update", "resumeOld") /\ Put(Old(c), "active", a)
    <3>1. /\ record.enabled /\ NoneFires /\ Exists(record.job) /\ Old(c) = record.job /\ a = "done"
      BY <1>1, <2>4, <2>7 DEF UpdateInv, Doing, RollsBack, Current, Old
    <3>2. /\ \A i \in Jobs : jobs'[i].state = IF i = record.job THEN "active" ELSE jobs[i].state
          /\ \A i \in Jobs : jobs[i] # Unused => jobs'[i] # Unused
      BY <2>2, <2>7, <3>1, PutDoes
    <3>3. FileInv' BY <1>2, <2>3, <3>2 DEF FileInv, Live
    <3>4. Matched' BY <1>2, <2>3, <3>1, <3>2 DEF Matched, Firing, NoneFires, Live
    <3> QED BY <2>3, <3>3, <3>4, EndsMatched
  <2> QED BY <2>1, <2>5, <2>6, <2>7
<1> QED BY <1>5, <1>6, <1>7, <1>8

(* The runner and the callbacks leave a recurring schedule as it is, but   *)
(* for its marker and its last claim.                                      *)
LEMMA RunnerKeepsSchedule ==
    ASSUME RunTypes, FileInv, RunStep \/ Claim
    PROVE  SameSchedule
<1>1. ASSUME NEW k, NEW run, UpdateRun(k, run) PROVE record' = record
  BY <1>1 DEF UpdateRun, Mirrored, FileInv
<1>2. ASSUME NEW k \in Keys, Work(k) PROVE record' = record
  <2>1. ASSUME NEW safe, AttemptFails(k, safe) PROVE record' = record
    BY <1>1, <2>1 DEF AttemptFails
  <2>2. Start(k) => record' = record BY <1>1 DEF Start
  <2>3. TakeSlot(k) \/ Retry(k) \/ Succeed(k) => record' = record BY <1>1 DEF TakeSlot, Retry, Succeed
  <2>4. EnsureSession(k) \/ Submit(k) => record' = record BY <1>1, <2>1 DEF EnsureSession, Submit
  <2>5. Answered(k) \/ Disconnected(k) => record' = record BY <2>1 DEF Answered, Disconnected
  <2> QED BY <1>2, <2>2, <2>3, <2>4, <2>5 DEF Work, EndFailed
<1>3. CASE Claim
  <2>1. Live /\ record \in Schedule BY <1>3 DEF Claim, Live, RunTypes
  <2>2. record' = [record EXCEPT !.marker = 0, !.last = CallbackKey] BY <1>3 DEF Claim
  <2>3. /\ record'.job = record.job /\ record'.enabled = record.enabled
        /\ record'.state = record.state /\ record'.frequency = record.frequency
    BY <2>1, <2>2 DEF Schedule
  <2>4. record' # Absent BY <2>1, <2>3 DEF Absent, Schedule, Frequencies
  <2> QED BY <2>1, <2>3, <2>4 DEF SameSchedule, Live
<1>4. CASE RunStep
  BY <1>2, <1>4 DEF RunStep, DeleteSession, TurnEnds, TimePasses, Restart, SameSchedule
<1> QED BY <1>3, <1>4

LEMMA NextKeepsJobs ==
    ASSUME OneClient, RunTypes, RouteTypes, JobsInv, [Next]_vars, RollbackHeeded
    PROVE  JobsInv'
<1>1. PICK c : Clients = {c} BY DEF OneClient
<1>2. c \in Clients /\ IsFiniteSet(Clients) BY <1>1, FS_Singleton
<1> SUFFICES ASSUME Plain' PROVE FileInv' /\ ClientInv(c)'
  BY <1>1 DEF JobsInv
<1>3. Plain BY <1>2, PlainStays
<1>4. FileInv /\ ClientInv(c) BY <1>2, <1>3 DEF JobsInv
<1>5. CASE RunStep /\ UNCHANGED routeVars
  <2>1. SameSchedule BY <1>4, <1>5, RunnerKeepsSchedule
  <2> QED BY <1>2, <1>4, <1>5, <2>1, QuietKeepsJobs DEF routeVars
<1>6. CASE Ask(c) BY <1>2, <1>4, <1>6, AskKeepsJobs
<1>7. CASE Serve(c)
  BY <1>2, <1>4, <1>7, CallKeepsJobs, RefreshKeepsJobs, UpdateKeepsJobs DEF Serve
<1>8. ASSUME NEW j \in Jobs, Fire(j) PROVE FileInv' /\ ClientInv(c)'
  <2>1. jobs' = jobs
    <3>1. jobs[j].frequency # "once" BY <1>3 DEF Plain, Recurring
    <3> QED BY <1>8, <3>1 DEF Fire, Fired
  <2>2. SameSchedule
    <3>1. CASE Claim BY <1>4, <3>1, RunnerKeepsSchedule
    <3>2. CASE UNCHANGED runVars BY <3>2 DEF runVars, SameSchedule
    <3> QED BY <1>8, <3>1, <3>2 DEF Fire
  <2> QED BY <1>2, <1>4, <1>8, <2>1, <2>2, QuietKeepsJobs DEF Fire
<1>9. CASE ServiceCrash
  <2> DEFINE S == {d \in Clients : route[d] # NoRoute}
  <2>1. IsFiniteSet(S) /\ Cardinality(S) \in Nat BY <1>2, FS_Subset, FS_CardinalityType
  <2>2. Cardinality(S) = 0 BY <1>9, <2>1 DEF ServiceCrash, RouteTypes, Plain
  <2>3. S = {} BY <2>1, <2>2, FS_EmptySet
  <2>4. route[c] = NoRoute BY <1>2, <2>3
  <2>5. Matched BY <1>4, <2>4 DEF ClientInv, RequestInv, UpdateInv, Doing, NoRoute
  <2>6. route'[c] = route[c] BY <1>2, <1>9, <2>4 DEF ServiceCrash
  <2>7. jobs' = jobs /\ record' = record /\ SameSchedule
    BY <1>9 DEF ServiceCrash, Crash, SameSchedule
  <2>8. FileInv' /\ Matched' BY <1>4, <2>5, <2>7, SameScheduleKeeps
  <2> QED BY <2>4, <2>6, <2>8 DEF ClientInv, RequestInv, RollsBack, Doing, NoRoute
<1>10. CASE UNCHANGED vars
  BY <1>2, <1>4, <1>10, QuietKeepsJobs DEF vars, runVars, routeVars, SameSchedule
<1> QED BY <1>1, <1>5, <1>6, <1>7, <1>8, <1>9, <1>10 DEF Next

LEMMA JobsStart ==
    ASSUME Init, RunTypes
    PROVE  JobsInv
<1> SUFFICES ASSUME Plain PROVE FileInv /\ Matched
  BY DEF Init, JobsInv, ClientInv, RequestInv, RollsBack, Doing, NoRoute
<1> USE SchedulesAssumption
<1>1. CASE record = Absent /\ jobs = [j \in Jobs |-> Unused]
  BY <1>1 DEF FileInv, Matched, Firing, Live, Unused
<1>2. ASSUME NEW f \in Frequencies, NEW state \in {"active", "paused"},
             record = Told(NewRecord(f, 1), 1, state),
             jobs = [j \in Jobs |-> IF j = 1 THEN [state |-> state, frequency |-> f] ELSE Unused]
      PROVE  FileInv /\ Matched
  <2>1. 1 \in Jobs /\ \A j \in Jobs : jobs[j].state = IF j = 1 THEN state ELSE "unused"
    BY <1>2 DEF Jobs, Unused
  <2>2. jobs[1].frequency = f BY <1>2, <2>1
  <2>3. f = "recurring" BY <2>1, <2>2 DEF Plain, Recurring, Frequencies
  <2> DEFINE new == NewRecord(f, 1)
  <2>4. new \in Schedule /\ new.frequency = "recurring"
    BY <2>3, NewRecordIsTyped DEF NewRecord, Told, Frequencies
  <2> HIDE DEF new
  <2> DEFINE told == Told(new, 1, state)
  <2>5. told \in Schedule /\ told.state \in {"scheduled", "paused"} BY <2>4, ToldIsTyped
  <2>6. told.job = 1 /\ told.frequency = "recurring" /\ told.enabled = (state = "active")
    BY <2>4 DEF Told, Schedule
  <2>7. record = told BY <1>2 DEF new
  <2> HIDE DEF told
  <2>8. Live BY <2>5, <2>7, ScheduleIsLive DEF Live
  <2>9. jobs[1] # Unused BY <2>1 DEF Unused
  <2> QED BY <2>1, <2>5, <2>6, <2>7, <2>8, <2>9 DEF FileInv, Matched, Firing
<1> QED BY <1>1, <1>2 DEF Init

LEMMA MatchedWhenIdle ==
    ASSUME OneClient, RunTypes, JobsInv
    PROVE  JobMatchesRecord
<1> SUFFICES ASSUME \A c \in Clients : route[c] = NoRoute, Plain
             PROVE  \A j \in Jobs : (jobs[j].state = "active") = (Live /\ record.enabled /\ j = record.job)
  BY DEF JobMatchesRecord, Plain
<1>1. PICK c \in Clients : route[c] = NoRoute BY DEF OneClient
<1>2. Matched BY <1>1 DEF JobsInv, ClientInv, RequestInv, UpdateInv, Doing, NoRoute
<1>3. Live => record.enabled \in BOOLEAN BY DEF Live, RunTypes, Schedule
<1> QED BY <1>2, <1>3 DEF Matched, Firing

(* One client at a time, and whatever calls Hermes refuses but those of a  *)
(* rollback: when no request is in flight and no outcome is in doubt, the  *)
(* job of an enabled recurring schedule fires and no other job does        *)
(* (create_schedule, update_schedule, set_schedule_enabled and             *)
(* delete_schedule; a rollback is tried once and its failure is only       *)
(* logged).                                                                *)
THEOREM JobsStayMatched ==
    OneClient => (Spec /\ [][RollbackHeeded]_vars => []JobMatchesRecord)
<1> SUFFICES ASSUME OneClient PROVE Spec /\ [][RollbackHeeded]_vars => []JobMatchesRecord OBVIOUS
<1>1. IsFiniteSet(Clients) BY FS_Singleton DEF OneClient
<1>2. Init /\ RunTypes => JobsInv BY JobsStart
<1>3. RunTypes /\ RouteTypes /\ JobsInv /\ [Next]_vars /\ [RollbackHeeded]_vars => JobsInv'
  <2> SUFFICES ASSUME RunTypes, RouteTypes, JobsInv, [Next]_vars, [RollbackHeeded]_vars
               PROVE  JobsInv'
    OBVIOUS
  <2>1. RollbackHeeded BY DEF RollbackHeeded, vars, routeVars
  <2> QED BY <2>1, NextKeepsJobs
<1>4. RunTypes /\ JobsInv => JobMatchesRecord BY MatchedWhenIdle
<1> QED BY <1>1, <1>2, <1>3, <1>4, TypesKept, PTL DEF Spec

(* In particular, a single call that Hermes refuses is always made good.   *)
THEOREM OneRefusalIsUndone ==
    OneClient /\ MaxRefusals <= 1 => (Spec => []JobMatchesRecord)
<1> SUFFICES ASSUME OneClient, MaxRefusals <= 1 PROVE Spec => []JobMatchesRecord OBVIOUS
<1>1. IsFiniteSet(Clients) BY FS_Singleton DEF OneClient
<1>2. Init /\ RunTypes => JobsInv BY JobsStart
<1>3. RunTypes /\ RouteTypes /\ JobsInv /\ [Next]_vars => JobsInv'
  <2> SUFFICES ASSUME RunTypes, RouteTypes, JobsInv, [Next]_vars, Plain' PROVE JobsInv'
    BY DEF JobsInv
  <2>1. \A c \in Clients : RollsBack(c) => refusals > 0
    BY <1>1, PlainStays DEF JobsInv, ClientInv
  <2>2. refusals \in Nat /\ \A c \in Clients : UpdateCleansUp(c) =>
            refusals' \in {refusals, refusals + 1} /\ refusals' <= MaxRefusals
    BY DEF RouteTypes, UpdateCleansUp, Learned
  <2>3. RollbackHeeded BY <2>1, <2>2, SchedulesAssumption DEF RollbackHeeded
  <2> QED BY <2>3, NextKeepsJobs
<1>4. RunTypes /\ JobsInv => JobMatchesRecord BY MatchedWhenIdle
<1> QED BY <1>1, <1>2, <1>3, <1>4, TypesKept, PTL DEF Spec
=============================================================================
