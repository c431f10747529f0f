------------------------- MODULE MemoryJobsProofs -------------------------
(***************************************************************************)
(* A session is reflected on once for each way of counting its turns, for  *)
(* any sessions, attempts, crashes, retries and consolidations.            *)
(*                                                                         *)
(* The invariant says which jobs are spent: Hermes was, or may have been,  *)
(* asked to reflect for them and nothing will ask it again, be it a task,  *)
(* a restart, a request that is still to be queued or a client.  Accepted  *)
(* turns are then no more than the jobs that are spent.                    *)
(***************************************************************************)
EXTENDS MemoryJobs, FiniteSetTheorems, TLAPS

(* The ways of counting the turns of a session that give it a job. *)
CountsOf(s) == {n \in {Turns[s], HalfMessages[s]} : n >= 1}

(* No more turns are accepted for a session than there are counts of it:   *)
(* one, if a close and an idle sweep name the same job, two otherwise.     *)
OncePerCount == budget.faults = 0 => \A s \in Sessions : executed[s] <= Cardinality(CountsOf(s))

Settled(j) ==
    \/ jobs[j].status = "succeeded"
    \/ jobs[j].status = "failed" /\ jobs[j].flags # Safe
    \/ jobs[j].status = "running" /\ (task[j].at \in {"answering", "deleting"} \/ ~up)

Spent(j) ==
    /\ task[j].at # "asking"
    /\ task[j].at = "deleting" => task[j].ok \/ task[j].err # Safe
    /\ \/ j.session \in deleted
       \/ Settled(j) /\ task[j].at \notin {"preparing", "backoff"}

SpentJobs(s) == {j \in Jobs : j.session = s /\ j.turns >= 1 /\ Spent(j)}

(* A task that took a slot for a session still there has a claimed job. *)
ClaimInv(j) ==
    task[j].at \in {"preparing", "asking"} /\ j.session \notin deleted => jobs[j].status = "running"

(* A session without turns has no job, a stopped service no task, and a    *)
(* session whose jobs are about to be deleted is gone.                     *)
EmptyInv(j) == j.turns < 1 => jobs[j] = NoJob /\ task[j] = NoTask
DownInv     == ~up => task = [j \in Jobs |-> NoTask]
DeleteInv   == \A s \in Sessions : Request("delete", s) \in requests => s \in deleted

QueueInv == TypeOK /\ DownInv /\ DeleteInv /\ \A j \in Jobs : EmptyInv(j)

CountInv ==
    budget.faults = 0 =>
        /\ \A j \in Jobs : ClaimInv(j)
        /\ \A s \in Sessions : executed[s] <= Cardinality(SpentJobs(s))

MemoryInv == QueueInv /\ CountInv

-----------------------------------------------------------------------------
(* What the transactions of the queue return. *)
LEMMA JobTypes ==
    /\ NoJob \in Job /\ NewJob \in Job
    /\ \A job \in Job : Claimed(job) \in Job /\ Done(job) \in Job /\ Resumed(job) \in Job
    /\ \A job \in Job, e \in Error : Failed(job, e) \in Job
<1>1. NoJob \in Job /\ NewJob \in Job BY DEF Job, NoJob, NewJob, Quiet, Refused
<1>2. ASSUME NEW job \in Job, NEW e \in [retryable : BOOLEAN, unknown : BOOLEAN] PROVE Failed(job, e) \in Job
  BY DEF Job, Failed
<1>3. Error \subseteq [retryable : BOOLEAN, unknown : BOOLEAN] BY DEF Error, Safe, Refused, Lost
<1>4. ASSUME NEW job \in Job PROVE Claimed(job) \in Job /\ Done(job) \in Job
  <2>1. Claimed(job) \in Job BY DEF Job, Claimed, Quiet, Refused
  <2>2. Quiet \in [retryable : BOOLEAN, unknown : BOOLEAN] BY DEF Quiet, Refused
  <2>3. Done(job) \in Job BY <2>2 DEF Job, Done
  <2> QED BY <2>1, <2>3
<1>5. ASSUME NEW job \in Job PROVE Resumed(job) \in Job BY <1>2 DEF Resumed
<1> QED BY <1>1, <1>2, <1>3, <1>4, <1>5

LEMMA JobFields ==
    \A job \in Job : /\ Done(job).status = "succeeded"
                     /\ \A e : Failed(job, e).status = "failed" /\ Failed(job, e).flags = e
BY DEF Job, Done, Failed

Places == {"none", "waiting", "preparing", "asking", "answering", "deleting", "backoff"}

LEMMA TaskTypes ==
    /\ NoTask \in Task /\ NoTask.at = "none"
    /\ \A loc \in Places : At(loc) \in Task /\ At(loc).at = loc
    /\ \A ok \in BOOLEAN, e \in Error : [at |-> "deleting", ok |-> ok, err |-> e] \in Task
BY DEF Task, NoTask, At, Places, Error

LEMMA JobNames ==
    /\ \A s \in Sessions : /\ JobOf(s, Turns[s]) \in Jobs /\ JobOf(s, HalfMessages[s]) \in Jobs
                           /\ \A n : JobOf(s, n).session = s /\ JobOf(s, n).turns = n
    /\ \A j \in Jobs : /\ j.session \in Sessions
                       /\ j.turns \in {Turns[j.session], HalfMessages[j.session]}
                       /\ j = JobOf(j.session, j.turns)
                       /\ ScopeOf[j.session] \in Scopes
<1>1. \A s, n : JobOf(s, n).session = s /\ JobOf(s, n).turns = n BY DEF JobOf
<1>2. \A s \in Sessions : JobOf(s, Turns[s]) \in Jobs /\ JobOf(s, HalfMessages[s]) \in Jobs BY DEF Jobs
<1>3. ASSUME NEW j \in Jobs
      PROVE  /\ j.session \in Sessions /\ ScopeOf[j.session] \in Scopes
             /\ j.turns \in {Turns[j.session], HalfMessages[j.session]}
             /\ j = JobOf(j.session, j.turns)
  <2>1. PICK s \in Sessions : j \in {JobOf(s, Turns[s]), JobOf(s, HalfMessages[s])} BY DEF Jobs
  <2>2. j.session = s /\ j.turns \in {Turns[s], HalfMessages[s]} BY <1>1, <2>1
  <2>3. j = JobOf(s, j.turns)
    <3>1. CASE j = JobOf(s, Turns[s])
      <4>1. j.turns = Turns[s] BY <1>1, <3>1, Zenon
      <4> QED BY <3>1, <4>1, Zenon
    <3>2. CASE j = JobOf(s, HalfMessages[s])
      <4>1. j.turns = HalfMessages[s] BY <1>1, <3>2, Zenon
      <4> QED BY <3>2, <4>1, Zenon
    <3> QED BY <2>1, <3>1, <3>2
  <2> QED BY <2>2, <2>3, ScopeOfAssumption
<1> QED BY <1>1, <1>2, <1>3

LEMMA TurnEndNames ==
    ASSUME NEW s \in Sessions, NEW op
    PROVE  JobOf(s, TurnEnd(op, s)) \in Jobs /\ TurnEnd(op, s) \in Nat
BY JobNames, TurnsAssumption DEF TurnEnd

LEMMA SpawnedTypes ==
    ASSUME TypeOK, NEW j \in Jobs
    PROVE  /\ Spawned(task, j) \in [Jobs -> Task]
           /\ \A k \in Jobs \ {j} : Spawned(task, j)[k] = task[k]
           /\ Spawned(task, j)[j] = IF task[j].at = "none" THEN At("waiting") ELSE task[j]
BY TaskTypes DEF TypeOK, Spawned, Places

LEMMA ConsTypes ==
    /\ NoConsolidation \in Consolidation
    /\ TypeOK => \A s \in Scopes : ConsolidationStarted(s) \in [Scopes -> Consolidation]
    /\ \A c \in Consolidation, loc \in {"waiting", "working", "rewriting", "sleeping"} :
           [c EXCEPT !.at = loc] \in Consolidation
BY DEF Consolidation, NoConsolidation, TypeOK, ConsolidationStarted

-----------------------------------------------------------------------------
(* A step that moves the task of one job, and perhaps changes its record.  *)
LEMMA OneTaskMoves ==
    ASSUME QueueInv, up, NEW j \in Jobs, j.turns >= 1, UNCHANGED <<up, requests, deleted>>,
           NEW job \in Job, jobs' = [jobs EXCEPT ![j] = job],
           NEW q \in Task, task' = [task EXCEPT ![j] = q]
    PROVE  /\ jobs' \in [Jobs -> Job] /\ task' \in [Jobs -> Task]
           /\ DownInv' /\ DeleteInv' /\ \A k \in Jobs : EmptyInv(k)'
<1>1. jobs' \in [Jobs -> Job] /\ task' \in [Jobs -> Task] BY DEF QueueInv, TypeOK
<1>2. \A k \in Jobs \ {j} : jobs'[k] = jobs[k] /\ task'[k] = task[k] BY DEF QueueInv, TypeOK
<1>3. DownInv' /\ DeleteInv' BY DEF QueueInv, DownInv, DeleteInv
<1>4. j.turns \in Nat BY JobNames, TurnsAssumption
<1>5. \A k \in Jobs : EmptyInv(k)' BY <1>2, <1>4 DEF QueueInv, EmptyInv
<1> QED BY <1>1, <1>3, <1>5

(* The steps of a task, and the retry that spawns one. *)
LEMMA TaskQueueInv ==
    ASSUME QueueInv, NEW j \in Jobs, Retry(j) \/ TakeSlot(j) \/ TakeSlotUnread(j) \/ TaskStep(j)
    PROVE  QueueInv'
<1> USE DEF QueueInv
<1>1. jobs[j] \in Job /\ task[j] \in Task BY DEF TypeOK
<1>2. jobs = [jobs EXCEPT ![j] = jobs[j]] BY DEF TypeOK
<1>3. up /\ UNCHANGED <<up, requests, deleted>>
  BY DEF Retry, TakeSlot, TakeSlotUnread, TaskStep, Prepared, PrepareFails, Accept, AskFails, Answered,
         AnswerLost, AnswerUnusable, Conclude, ConcludeUnread, Wake, Move, Fails, Ended, hermes
<1>4. task[j].at # "none" \/ jobs[j].status # "absent" => j.turns >= 1
  BY JobNames, TurnsAssumption, TaskTypes DEF EmptyInv, NoJob
<1>5. ASSUME NEW job \in Job, jobs' = [jobs EXCEPT ![j] = job], NEW q \in Task,
             task' = [task EXCEPT ![j] = q], task[j].at # "none" \/ jobs[j].status # "absent",
             cons' \in [Scopes -> Consolidation], turns' \subseteq Jobs,
             executed' \in [Sessions -> Nat], budget' \in [crashes : Nat, faults : Nat, retries : Nat],
             UNCHANGED <<cooling, ended, rewrites, memory>>
      PROVE  QueueInv'
  <2>1. /\ jobs' \in [Jobs -> Job] /\ task' \in [Jobs -> Task]
        /\ DownInv' /\ DeleteInv' /\ \A k \in Jobs : EmptyInv(k)'
    BY <1>3, <1>4, <1>5, OneTaskMoves
  <2> QED BY <2>1, <1>3, <1>5 DEF TypeOK
<1>6. Unreadable => budget' \in [crashes : Nat, faults : Nat, retries : Nat]
  BY DEF Unreadable, TypeOK
<1>7. ASSUME NEW loc \in Places, Move(j, loc), jobs' = jobs, UNCHANGED hermes, task[j].at # "none"
      PROVE  QueueInv'
  BY <1>1, <1>2, <1>5, <1>7, TaskTypes DEF Move, hermes, TypeOK
<1>8. ASSUME NEW e \in Error, Fails(j, e), UNCHANGED hermes, task[j].at # "none"
      PROVE  QueueInv'
  <2>1. CASE jobs[j].status = "absent" BY <1>7, <1>8, <2>1 DEF Fails, Places
  <2>2. CASE jobs[j].status # "absent"
    <3>1. Failed(jobs[j], e) \in Job BY <1>1, JobTypes
    <3>2. At("none") \in Task /\ At("backoff") \in Task BY TaskTypes DEF Places
    <3> QED BY <1>1, <1>5, <1>8, <2>2, <3>1, <3>2 DEF Fails, Move, hermes, TypeOK
  <2> QED BY <2>1, <2>2
<1>9. ASSUME NEW ok \in BOOLEAN, NEW e \in Error, Ended(j, ok, e), task[j].at # "none" PROVE QueueInv'
  BY <1>1, <1>2, <1>5, <1>9, TaskTypes DEF Ended, hermes, TypeOK
<1>10. CASE Retry(j)
  <2>1. NewJob \in Job BY JobTypes
  <2>2. Spawned(task, j) = [task EXCEPT ![j] = Spawned(task, j)[j]] /\ Spawned(task, j)[j] \in Task
    BY SpawnedTypes DEF TypeOK
  <2>3. budget' \in [crashes : Nat, faults : Nat, retries : Nat] BY <1>10 DEF Retry, TypeOK
  <2> QED BY <1>5, <1>10, <2>1, <2>2, <2>3 DEF Retry, hermes, TypeOK
<1>11. CASE TakeSlot(j)
  <2>1. CASE jobs' = jobs /\ Move(j, "none") BY <1>7, <1>11, <2>1 DEF TakeSlot, Places
  <2>2. CASE jobs' = [jobs EXCEPT ![j] = Claimed(jobs[j])] /\ Move(j, "preparing")
    <3>1. Claimed(jobs[j]) \in Job /\ At("preparing") \in Task BY <1>1, JobTypes, TaskTypes DEF Places
    <3> QED BY <1>5, <1>11, <2>2, <3>1 DEF TakeSlot, Move, hermes, TypeOK
  <2> QED BY <1>11, <2>1, <2>2 DEF TakeSlot
<1>12. CASE TakeSlotUnread(j)
  BY <1>1, <1>2, <1>5, <1>6, <1>12, TaskTypes DEF TakeSlotUnread, hermes, TypeOK
<1>13. CASE Prepared(j) BY <1>7, <1>13 DEF Prepared, Places
<1>14. CASE PrepareFails(j) BY <1>8, <1>14 DEF PrepareFails
<1>15. CASE Accept(j)
  <2>1. executed' \in [Sessions -> Nat] BY <1>15, JobNames DEF Accept, TypeOK
  <2>2. At("answering") \in Task BY TaskTypes DEF Places
  <2> QED BY <1>1, <1>2, <1>5, <1>15, <2>1, <2>2 DEF Accept, Move, TypeOK
<1>16. CASE AskFails(j) BY <1>9, <1>16 DEF AskFails
<1>17. CASE Answered(j) BY <1>9, <1>17 DEF Answered, Error
<1>18. CASE AnswerLost(j) BY <1>9, <1>18 DEF AnswerLost, Error
<1>19. CASE AnswerUnusable(j) BY <1>9, <1>19 DEF AnswerUnusable, Error
<1>20. CASE Conclude(j)
  <2>1. CASE task[j].ok
    <3>1. Done(jobs[j]) \in Job /\ NoTask \in Task BY <1>1, JobTypes, TaskTypes
    <3>2. cons' \in [Scopes -> Consolidation] BY <1>20, <2>1, ConsTypes, JobNames DEF Conclude
    <3>3. PICK job \in Job : jobs' = [jobs EXCEPT ![j] = job]
      BY <1>1, <1>20, <2>1, <3>1 DEF Conclude, TypeOK
    <3> QED BY <1>5, <1>20, <2>1, <3>1, <3>2, <3>3 DEF Conclude, hermes, TypeOK
  <2>2. CASE ~task[j].ok
    <3>1. task[j].err \in Error BY <1>1 DEF Task
    <3> QED BY <1>8, <1>20, <2>2, <3>1 DEF Conclude
  <2> QED BY <2>1, <2>2
<1>21. CASE ConcludeUnread(j)
  <2>1. cons' \in [Scopes -> Consolidation] BY <1>21, ConsTypes, JobNames DEF ConcludeUnread, TypeOK
  <2> QED BY <1>1, <1>2, <1>5, <1>6, <1>21, <2>1, TaskTypes DEF ConcludeUnread, hermes, TypeOK
<1>22. CASE Wake(j) BY <1>7, <1>22 DEF Wake, Places
<1> QED BY <1>10, <1>11, <1>12, <1>13, <1>14, <1>15, <1>16, <1>17, <1>18, <1>19, <1>20, <1>21, <1>22
        DEF TaskStep

(* The routes: closings, sweeps and deletions, and what they queue. *)
LEMMA RouteQueueInv ==
    ASSUME QueueInv, NEW s \in Sessions, RouteStep(s)
    PROVE  QueueInv'
<1> USE DEF QueueInv
<1>1. ASSUME NEW op \in {"close", "idle"}, Begins(op, s), ended' \subseteq Sessions, UNCHANGED deleted
      PROVE  QueueInv'
  <2>1. \A z \in Sessions : Request("delete", z) # Request(op, s) BY <1>1 DEF Request
  <2>2. TypeOK' BY <1>1 DEF Begins, Request, TypeOK
  <2>3. DeleteInv' BY <1>1, <2>1 DEF Begins, DeleteInv
  <2> QED BY <1>1, <2>2, <2>3 DEF Begins, DownInv, EmptyInv
<1>2. CASE DeleteSession(s)
  <2>1. \A z \in Sessions : Request("delete", z) = Request("delete", s) => z = s BY DEF Request
  <2>2. TypeOK' BY <1>2 DEF DeleteSession, Begins, Request, TypeOK
  <2>3. DeleteInv' BY <1>2, <2>1 DEF DeleteSession, Begins, DeleteInv
  <2> QED BY <1>2, <2>2, <2>3 DEF DeleteSession, Begins, DownInv, EmptyInv
<1>3. ASSUME NEW op, Answers(op, s), jobs' \in [Jobs -> Job], task' \in [Jobs -> Task],
             cons' = cons, budget' \in [crashes : Nat, faults : Nat, retries : Nat],
             \A j \in Jobs : EmptyInv(j)'
      PROVE  QueueInv'
  <2>1. TypeOK' BY <1>3 DEF Answers, hermes, TypeOK
  <2>2. DeleteInv' BY <1>3 DEF Answers, hermes, DeleteInv
  <2> QED BY <1>3, <2>1, <2>2 DEF Answers, DownInv
<1>4. Unreadable => budget' \in [crashes : Nat, faults : Nat, retries : Nat]
  BY DEF Unreadable, TypeOK
<1>5. CASE CloseFails(s) BY <1>3, <1>5 DEF CloseFails, TypeOK, EmptyInv
<1>6. ASSUME NEW op \in {"close", "idle"}, Schedule(op, s) PROVE QueueInv'
  <2>1. CASE UNCHANGED <<jobs, task>> BY <1>3, <1>6, <2>1 DEF Schedule, TypeOK, EmptyInv
  <2>2. CASE TurnEnd(op, s) >= 1
    <3> DEFINE j == JobOf(s, TurnEnd(op, s))
               job == IF jobs[j].status = "absent" THEN NewJob ELSE jobs[j]
    <3>1. j \in Jobs /\ j.turns >= 1 BY <2>2, TurnEndNames, JobNames
    <3>2. job \in Job BY <3>1, JobTypes DEF TypeOK
    <3>3. /\ jobs' = [jobs EXCEPT ![j] = job]
          /\ task' = IF CanAutoRun(job) THEN Spawned(task, j) ELSE task
      BY <1>6, <2>2, TurnEndNames DEF Schedule
    <3> HIDE DEF j, job
    <3>4. jobs' \in [Jobs -> Job] /\ task' \in [Jobs -> Task]
      BY <3>1, <3>2, <3>3, SpawnedTypes DEF TypeOK
    <3>5. \A k \in Jobs \ {j} : jobs'[k] = jobs[k] /\ task'[k] = task[k]
      BY <3>1, <3>3, SpawnedTypes DEF TypeOK
    <3>6. \A k \in Jobs : EmptyInv(k)' BY <3>1, <3>5, JobNames, TurnsAssumption DEF EmptyInv
    <3> QED BY <1>3, <1>6, <3>4, <3>6 DEF Schedule, TypeOK
  <2> QED BY <1>6, <2>1, <2>2, TurnEndNames DEF Schedule
<1>7. ASSUME NEW op \in {"close", "idle"}, ScheduleUnread(op, s) PROVE QueueInv'
  <2> DEFINE j == JobOf(s, TurnEnd(op, s))
  <2>1. j \in Jobs /\ j.turns = TurnEnd(op, s) /\ TurnEnd(op, s) \in Nat /\ TurnEnd(op, s) >= 1
    BY <1>7, TurnEndNames, JobNames DEF ScheduleUnread
  <2>2. /\ jobs' = [other \in Jobs |-> IF other = j THEN NewJob ELSE NoJob]
        /\ task' = Spawned(task, j)
    BY <1>7 DEF ScheduleUnread
  <2> HIDE DEF j
  <2>3. jobs' \in [Jobs -> Job] /\ task' \in [Jobs -> Task] BY <2>1, <2>2, JobTypes, SpawnedTypes
  <2>4. \A k \in Jobs \ {j} : jobs'[k] = NoJob /\ task'[k] = task[k] BY <2>1, <2>2, SpawnedTypes
  <2>5. \A k \in Jobs : EmptyInv(k)' BY <2>1, <2>4 DEF EmptyInv
  <2> QED BY <1>3, <1>4, <1>7, <2>3, <2>5 DEF ScheduleUnread
<1>8. CASE DeleteJobs(s)
  <2>1. budget' \in [crashes : Nat, faults : Nat, retries : Nat] BY <1>4, <1>8 DEF DeleteJobs, TypeOK
  <2>2. jobs' \in [Jobs -> Job] BY <1>8, JobTypes DEF DeleteJobs, TypeOK
  <2>3. \A k \in Jobs : EmptyInv(k)' BY <1>8 DEF DeleteJobs, EmptyInv
  <2> QED BY <1>3, <1>8, <2>1, <2>2, <2>3 DEF DeleteJobs, TypeOK
<1>9. CASE Close(s) BY <1>1, <1>9 DEF Close, TypeOK
<1>10. CASE IdleClose(s) BY <1>1, <1>10 DEF IdleClose, TypeOK
<1> QED BY <1>2, <1>5, <1>6, <1>7, <1>8, <1>9, <1>10 DEF RouteStep

(* Consolidations, and the turns of Hermes. *)
MemoryStep(s) == Sweep(s) \/ ConsTakesSlot(s) \/ ConsStep(s) \/ CoolsDown(s) \/ HermesConsolidates(s)

LEMMA MemoryQueueInv ==
    ASSUME QueueInv, (\E s \in Scopes : MemoryStep(s)) \/ (\E j \in Jobs : HermesReflects(j))
    PROVE  /\ QueueInv'
           /\ UNCHANGED <<jobs, task, up, deleted, executed, budget>>
<1> USE DEF QueueInv
<1>1. ASSUME UNCHANGED <<jobs, task, requests, up, ended, deleted, executed, budget>>,
             cons' \in [Scopes -> Consolidation], cooling' \subseteq Scopes, turns' \subseteq Jobs,
             rewrites' \subseteq Scopes, memory' \in [Scopes -> SUBSET [session : Sessions, turn : Nat]]
      PROVE  QueueInv' /\ UNCHANGED <<jobs, task, up, deleted, executed, budget>>
  BY <1>1 DEF TypeOK, DownInv, DeleteInv, EmptyInv
<1>2. ASSUME NEW s \in Scopes, NEW c \in Consolidation, ConsMove(s, c), cooling' \subseteq Scopes,
             UNCHANGED <<ended, deleted, turns, memory, executed>>, rewrites' \subseteq Scopes
      PROVE  QueueInv' /\ UNCHANGED <<jobs, task, up, deleted, executed, budget>>
  BY <1>1, <1>2 DEF ConsMove, TypeOK
<1>3. ASSUME NEW s \in Scopes, NEW loc \in {"waiting", "working", "rewriting", "sleeping"}
      PROVE  [cons[s] EXCEPT !.at = loc] \in Consolidation
  BY ConsTypes DEF TypeOK
<1>4. ASSUME NEW s \in Scopes, NEW e, ConsFailed(s, e), UNCHANGED hermes
      PROVE  QueueInv' /\ UNCHANGED <<jobs, task, up, deleted, executed, budget>>
  BY <1>2, <1>3, <1>4, ConsTypes DEF ConsFailed, hermes, TypeOK
<1>5. ASSUME NEW s \in Scopes, Sweep(s)
      PROVE  QueueInv' /\ UNCHANGED <<jobs, task, up, deleted, executed, budget>>
  <2>1. cons' \in [Scopes -> Consolidation] BY <1>5, ConsTypes DEF Sweep
  <2> QED BY <1>1, <1>5, <2>1 DEF Sweep, hermes, TypeOK
<1>6. ASSUME NEW s \in Scopes, ConsTakesSlot(s)
      PROVE  QueueInv' /\ UNCHANGED <<jobs, task, up, deleted, executed, budget>>
  BY <1>2, <1>3, <1>6 DEF ConsTakesSlot, hermes, TypeOK
<1>7. ASSUME NEW s \in Scopes, ConsAccepted(s)
      PROVE  QueueInv' /\ UNCHANGED <<jobs, task, up, deleted, executed, budget>>
  BY <1>2, <1>3, <1>7 DEF ConsAccepted, TypeOK
<1>8. ASSUME NEW s \in Scopes, ConsAskFails(s) \/ ConsAnswerLost(s)
      PROVE  QueueInv' /\ UNCHANGED <<jobs, task, up, deleted, executed, budget>>
  BY <1>4, <1>8 DEF ConsAskFails, ConsAnswerLost
<1>9. ASSUME NEW s \in Scopes, ConsAnswered(s)
      PROVE  QueueInv' /\ UNCHANGED <<jobs, task, up, deleted, executed, budget>>
  <2>1. CASE AboveTrigger(s) BY <1>4, <1>9, <2>1 DEF ConsAnswered
  <2>2. CASE ~AboveTrigger(s) BY <1>2, <1>9, <2>2, ConsTypes DEF ConsAnswered, hermes, TypeOK
  <2> QED BY <2>1, <2>2
<1>10. ASSUME NEW s \in Scopes, ConsWakes(s)
       PROVE  QueueInv' /\ UNCHANGED <<jobs, task, up, deleted, executed, budget>>
  <2>1. [at |-> "waiting", attempt |-> cons[s].attempt + 1] \in Consolidation
    BY DEF TypeOK, Consolidation
  <2> QED BY <1>2, <1>10, <2>1, ConsTypes DEF ConsWakes, hermes, TypeOK
<1>11. ASSUME NEW s \in Scopes, CoolsDown(s)
       PROVE  QueueInv' /\ UNCHANGED <<jobs, task, up, deleted, executed, budget>>
  BY <1>1, <1>11 DEF CoolsDown, hermes, TypeOK
<1>12. ASSUME NEW s \in Scopes, HermesConsolidates(s)
       PROVE  QueueInv' /\ UNCHANGED <<jobs, task, up, deleted, executed, budget>>
  <2>1. memory' \in [Scopes -> SUBSET [session : Sessions, turn : Nat]]
    BY <1>12 DEF HermesConsolidates, TypeOK
  <2> QED BY <1>1, <1>12, <2>1 DEF HermesConsolidates, service, TypeOK
<1>13. ASSUME NEW j \in Jobs, HermesReflects(j)
       PROVE  QueueInv' /\ UNCHANGED <<jobs, task, up, deleted, executed, budget>>
  <2>1. j.session \in Sessions /\ ScopeOf[j.session] \in Scopes BY JobNames
  <2>2. [session |-> j.session, turn |-> executed[j.session]] \in [session : Sessions, turn : Nat]
    BY <2>1 DEF TypeOK
  <2>3. memory' \in [Scopes -> SUBSET [session : Sessions, turn : Nat]]
    BY <1>13, <2>1, <2>2 DEF HermesReflects, TypeOK
  <2> QED BY <1>1, <1>13, <2>3 DEF HermesReflects, service, TypeOK
<1> QED BY <1>5, <1>6, <1>7, <1>8, <1>9, <1>10, <1>11, <1>12, <1>13 DEF MemoryStep, ConsStep

LEMMA FaultQueueInv ==
    ASSUME QueueInv, Crash \/ Restart \/ RestartUnread
    PROVE  QueueInv'
<1> USE DEF QueueInv
<1>1. CASE Crash
  <2>1. task' \in [Jobs -> Task] /\ cons' \in [Scopes -> Consolidation]
    BY <1>1, TaskTypes, ConsTypes DEF Crash
  <2>2. budget' \in [crashes : Nat, faults : Nat, retries : Nat] BY <1>1 DEF Crash, TypeOK
  <2>3. TypeOK' BY <1>1, <2>1, <2>2 DEF Crash, hermes, TypeOK
  <2> QED BY <1>1, <2>3 DEF Crash, hermes, DownInv, DeleteInv, EmptyInv
<1>2. CASE Restart
  <2>1. jobs' \in [Jobs -> Job] BY <1>2, JobTypes DEF Restart, TypeOK
  <2>2. task' \in [Jobs -> Task] BY <1>2, TaskTypes DEF Restart, Places
  <2>3. TypeOK' BY <1>2, <2>1, <2>2 DEF Restart, hermes, TypeOK
  <2>4. ASSUME NEW j \in Jobs, j.turns < 1 PROVE jobs'[j] = NoJob /\ task'[j] = NoTask
    <3>1. jobs[j] = NoJob /\ jobs[j].status = "absent" BY <2>4 DEF EmptyInv, NoJob
    <3>2. Resumed(jobs[j]) = jobs[j] BY <3>1 DEF Resumed
    <3>3. ~Resumes(Resumed(jobs[j])) BY <3>1, <3>2 DEF Resumes, CanAutoRun
    <3> QED BY <1>2, <3>1, <3>2, <3>3 DEF Restart
  <2> QED BY <1>2, <2>3, <2>4 DEF Restart, hermes, DownInv, DeleteInv, EmptyInv
<1>3. CASE RestartUnread
  <2>1. TypeOK' BY <1>3 DEF RestartUnread, Unreadable, hermes, TypeOK
  <2> QED BY <1>3, <2>1 DEF RestartUnread, hermes, DownInv, DeleteInv, EmptyInv
<1> QED BY <1>1, <1>2, <1>3

LEMMA NextQueueInv == QueueInv /\ [Next]_vars => QueueInv'
<1> SUFFICES ASSUME QueueInv, [Next]_vars PROVE QueueInv' OBVIOUS
<1>1. CASE UNCHANGED vars
  BY <1>1 DEF vars, service, hermes, QueueInv, TypeOK, DownInv, DeleteInv, EmptyInv
<1>2. CASE Next
  BY <1>2, TaskQueueInv, RouteQueueInv, MemoryQueueInv, FaultQueueInv DEF Next, MemoryStep
<1> QED BY <1>1, <1>2

-----------------------------------------------------------------------------
(* A job that is spent stays so. *)
Kept(j) == Spent(j) => Spent(j)'

LEMMA SameJob ==
    ASSUME NEW j \in Jobs, jobs'[j] = jobs[j], task'[j] = task[j], up' = up,
           deleted \subseteq deleted', ClaimInv(j)
    PROVE  Kept(j) /\ ClaimInv(j)'
BY DEF Kept, Spent, Settled, ClaimInv

LEMMA SpentIsFinite ==
    ASSUME NEW s \in Sessions
    PROVE  /\ IsFiniteSet(SpentJobs(s)) /\ Cardinality(SpentJobs(s)) \in Nat
           /\ IsFiniteSet(SpentJobs(s)') /\ Cardinality(SpentJobs(s)') \in Nat
<1> DEFINE two == {JobOf(s, Turns[s]), JobOf(s, HalfMessages[s])}
<1>1. {j \in Jobs : j.session = s} \subseteq two BY JobNames
<1>2. IsFiniteSet(two)
  <2>1. IsFiniteSet({JobOf(s, Turns[s])}) BY FS_Singleton
  <2>2. two = {JobOf(s, Turns[s])} \cup {JobOf(s, HalfMessages[s])} OBVIOUS
  <2> HIDE DEF two
  <2> QED BY <2>1, <2>2, FS_AddElement
<1> HIDE DEF two
<1>3. SpentJobs(s) \subseteq two /\ SpentJobs(s)' \subseteq two BY <1>1 DEF SpentJobs
<1> QED BY <1>2, <1>3, FS_Subset, FS_CardinalityType

(* A step that asks Hermes nothing. *)
LEMMA NothingAccepted ==
    ASSUME MemoryInv, budget.faults' = budget.faults, executed' = executed,
           budget.faults = 0 => \A j \in Jobs : Kept(j) /\ ClaimInv(j)'
    PROVE  CountInv'
<1> SUFFICES ASSUME budget.faults = 0, NEW s \in Sessions
             PROVE  executed[s] <= Cardinality(SpentJobs(s)')
  BY DEF CountInv
<1>1. SpentJobs(s) \subseteq SpentJobs(s)' BY DEF SpentJobs, Kept
<1>2. Cardinality(SpentJobs(s)) <= Cardinality(SpentJobs(s)') BY <1>1, SpentIsFinite, FS_Subset
<1>3. executed[s] <= Cardinality(SpentJobs(s)) /\ executed[s] \in Nat
  BY DEF MemoryInv, CountInv, QueueInv, TypeOK
<1> QED BY <1>2, <1>3, SpentIsFinite

(* A turn for a job that was not spent, and now is. *)
LEMMA OneAccepted ==
    ASSUME MemoryInv, budget.faults' = budget.faults, NEW j \in Jobs, j.turns >= 1,
           executed' = [executed EXCEPT ![j.session] = @ + 1],
           budget.faults = 0 => ~Spent(j) /\ Spent(j)',
           budget.faults = 0 => \A k \in Jobs : Kept(k) /\ ClaimInv(k)'
    PROVE  CountInv'
<1> SUFFICES ASSUME budget.faults = 0, NEW s \in Sessions
             PROVE  executed'[s] <= Cardinality(SpentJobs(s)')
  BY DEF CountInv
<1>1. SpentJobs(s) \subseteq SpentJobs(s)' BY DEF SpentJobs, Kept
<1>2. executed[s] <= Cardinality(SpentJobs(s)) /\ executed[s] \in Nat
  BY DEF MemoryInv, CountInv, QueueInv, TypeOK
<1>3. CASE s = j.session
  <2>1. j \in SpentJobs(s)' /\ j \notin SpentJobs(s) BY <1>3 DEF SpentJobs
  <2>2. Cardinality(SpentJobs(s)) < Cardinality(SpentJobs(s)')
    BY <1>1, <2>1, SpentIsFinite, FS_Subset
  <2>3. executed'[s] = executed[s] + 1 BY <1>3 DEF MemoryInv, QueueInv, TypeOK
  <2> QED BY <1>2, <2>2, <2>3, SpentIsFinite
<1>4. CASE s # j.session
  <2>1. executed'[s] = executed[s] BY <1>4 DEF MemoryInv, QueueInv, TypeOK
  <2>2. Cardinality(SpentJobs(s)) <= Cardinality(SpentJobs(s)') BY <1>1, SpentIsFinite, FS_Subset
  <2> QED BY <1>2, <2>1, <2>2, SpentIsFinite
<1> QED BY <1>3, <1>4

(* Steps of one job: what becomes of it if it was spent. *)
LEMMA TaskKeepsSpent ==
    ASSUME CarefulClients, QueueInv, NEW j \in Jobs, Retry(j) \/ TakeSlot(j) \/ TaskStep(j),
           budget.faults' = budget.faults, ClaimInv(j)
    PROVE  Kept(j) /\ ClaimInv(j)'
<1>1. jobs[j] \in Job /\ task[j] \in Task BY DEF QueueInv, TypeOK
<1>2. UNCHANGED <<up, deleted>>
  BY DEF Retry, TakeSlot, TaskStep, Prepared, PrepareFails, Accept, AskFails, Answered,
         AnswerLost, AnswerUnusable, Conclude, ConcludeUnread, Wake, Move, Fails, Ended, hermes
<1>3. \A loc \in Places : Move(j, loc) => task'[j] = At(loc) /\ task'[j].at = loc
  BY TaskTypes DEF Move, QueueInv, TypeOK
<1>4. ASSUME NEW e \in Error, Fails(j, e), task[j].at \in {"preparing", "deleting"},
             task[j].at = "deleting" => e = task[j].err /\ ~task[j].ok
      PROVE  Kept(j) /\ ClaimInv(j)'
  <2>1. CASE jobs[j].status = "absent" 
    BY <1>2, <1>3, <1>4, <2>1 DEF Fails, Places, Kept, Spent, Settled, ClaimInv
  <2>2. CASE jobs[j].status # "absent"
    <3>1. jobs'[j].status = "failed" /\ jobs'[j].flags = e
      <4>1. jobs'[j] = Failed(jobs[j], e) BY <1>4, <2>2 DEF Fails, QueueInv, TypeOK
      <4> QED BY <1>1, <4>1, JobFields
    <3>2. task'[j].at = IF GivesUp(j, e) THEN "none" ELSE "backoff"
      BY <1>3, <1>4, <2>2 DEF Fails, Places
    <3>3. e # Safe => task'[j].at = "none" BY <3>2 DEF GivesUp
    <3> QED BY <1>2, <1>4, <3>1, <3>2, <3>3 DEF Kept, Spent, Settled, ClaimInv
  <2> QED BY <2>1, <2>2
<1>5. ASSUME NEW ok \in BOOLEAN, NEW e \in Error, Ended(j, ok, e),
             task[j].at = "asking" \/ (task[j].at = "answering" /\ (ok \/ e # Safe))
      PROVE  Kept(j) /\ ClaimInv(j)'
  <2>1. task'[j].at = "deleting" /\ task'[j].ok = ok /\ task'[j].err = e /\ jobs' = jobs
    BY <1>5 DEF Ended, QueueInv, TypeOK
  <2> QED BY <1>2, <1>5, <2>1 DEF Kept, Spent, Settled, ClaimInv
<1>6. CASE Retry(j)
  <2>1. jobs[j].status = "failed" /\ jobs[j].flags = Safe
    <3>1. /\ jobs[j].status = "failed" /\ jobs[j].flags.retryable /\ ~jobs[j].flags.unknown
          /\ jobs[j].flags \in [retryable : BOOLEAN, unknown : BOOLEAN]
      BY <1>1, <1>6 DEF Retry, Job
    <3> QED BY <3>1 DEF Safe
  <2>2. task'[j] = IF task[j].at = "none" THEN At("waiting") ELSE task[j]
    BY <1>6, SpawnedTypes DEF Retry, QueueInv
  <2>3. At("waiting").at = "waiting" BY TaskTypes DEF Places
  <2> QED BY <1>2, <2>1, <2>2, <2>3 DEF Kept, Spent, Settled, ClaimInv
<1>7. CASE TakeSlot(j)
  <2>1. CASE jobs' = jobs /\ Move(j, "none")
    BY <1>2, <1>3, <1>7, <2>1 DEF TakeSlot, Places, Kept, Spent, Settled, ClaimInv
  <2>2. CASE /\ jobs' = [jobs EXCEPT ![j] = Claimed(jobs[j])] /\ Move(j, "preparing")
             /\ ~(\/ jobs[j].status \in {"absent", "succeeded"}
                  \/ jobs[j].status = "failed" /\ ~CanAutoRun(jobs[j])
                  \/ jobs[j].attempts >= MaxAttempts)
    <3>1. jobs'[j].status = "running" /\ task'[j].at = "preparing"
      BY <1>3, <2>2 DEF Claimed, Places, QueueInv, TypeOK
    <3>2. ~Settled(j) BY <1>1, <1>7, <2>2 DEF TakeSlot, CanAutoRun, Settled, Job
    <3> QED BY <1>2, <1>7, <3>1, <3>2 DEF TakeSlot, Kept, Spent, ClaimInv
  <2> QED BY <1>7, <2>1, <2>2 DEF TakeSlot
<1>8. CASE Prepared(j)
  BY <1>2, <1>3, <1>8 DEF Prepared, Places, Kept, Spent, ClaimInv
<1>9. CASE PrepareFails(j) BY <1>4, <1>9 DEF PrepareFails
<1>10. CASE Accept(j)
  BY <1>2, <1>3, <1>10 DEF Accept, Places, Kept, Spent, ClaimInv
<1>11. CASE AskFails(j) BY <1>5, <1>11 DEF AskFails
<1>12. CASE Answered(j) BY <1>5, <1>12 DEF Answered, Error
<1>13. CASE AnswerLost(j) BY <1>5, <1>13 DEF AnswerLost, Error, Lost, Safe
<1>14. CASE AnswerUnusable(j) BY <1>5, <1>14 DEF AnswerUnusable, Error, Refused, Safe
<1>15. CASE Conclude(j)
  <2>1. CASE task[j].ok
    <3>1. jobs'[j].status = IF jobs[j].status = "absent" THEN "absent" ELSE "succeeded"
      <4>1. jobs'[j] = IF jobs[j].status = "absent" THEN jobs[j] ELSE Done(jobs[j])
        BY <1>15, <2>1 DEF Conclude, QueueInv, TypeOK
      <4> QED BY <1>1, <4>1, JobFields
    <3>2. task'[j].at = "none" BY <1>15, <2>1, TaskTypes DEF Conclude, QueueInv, TypeOK
    <3> QED BY <1>2, <3>1, <3>2 DEF Kept, Spent, Settled, ClaimInv
  <2>2. CASE ~task[j].ok
    <3>1. task[j].err \in Error BY <1>1 DEF Task
    <3> QED BY <1>4, <1>15, <2>2, <3>1 DEF Conclude
  <2> QED BY <2>1, <2>2
<1>16. CASE ConcludeUnread(j)
  <2>1. budget.faults' = budget.faults + 1 BY <1>16 DEF ConcludeUnread, Unreadable, QueueInv, TypeOK
  <2> QED BY <2>1 DEF QueueInv, TypeOK
<1>17. CASE Wake(j)
  BY <1>2, <1>3, <1>17 DEF Wake, Places, Kept, Spent, Settled, ClaimInv
<1> QED BY <1>6, <1>7, <1>8, <1>9, <1>10, <1>11, <1>12, <1>13, <1>14, <1>15, <1>16, <1>17
        DEF TaskStep

(* Steps of the routes: a job that is there is not scheduled again unless  *)
(* it may run, and the jobs that are deleted are of a session that is gone. *)
LEMMA RouteKeepsSpent ==
    ASSUME QueueInv, NEW s \in Sessions, RouteStep(s), budget.faults' = budget.faults,
           NEW k \in Jobs, ClaimInv(k)
    PROVE  Kept(k) /\ ClaimInv(k)'
<1>1. Unreadable => budget.faults' # budget.faults
  BY DEF Unreadable, QueueInv, TypeOK
<1>2. ASSUME NEW op, Begins(op, s), deleted \subseteq deleted' PROVE Kept(k) /\ ClaimInv(k)'
  BY <1>2, SameJob DEF Begins
<1>3. CASE CloseFails(s) BY <1>3, SameJob DEF CloseFails, Answers, hermes
<1>4. ASSUME NEW op \in {"close", "idle"}, Schedule(op, s) PROVE Kept(k) /\ ClaimInv(k)'
  <2> DEFINE j == JobOf(s, TurnEnd(op, s))
             job == IF jobs[j].status = "absent" THEN NewJob ELSE jobs[j]
  <2>1. UNCHANGED <<up, deleted>> BY <1>4 DEF Schedule, Answers, hermes
  <2>2. j \in Jobs BY TurnEndNames
  <2>3. \/ UNCHANGED <<jobs, task>>
        \/ /\ jobs' = [jobs EXCEPT ![j] = job]
           /\ task' = IF CanAutoRun(job) THEN Spawned(task, j) ELSE task
    BY <1>4 DEF Schedule
  <2> HIDE DEF j
  <2>4. CASE UNCHANGED <<jobs, task>> BY <2>1, <2>4, SameJob
  <2>5. CASE /\ jobs' = [jobs EXCEPT ![j] = job]
             /\ task' = IF CanAutoRun(job) THEN Spawned(task, j) ELSE task
    <3>1. CASE k # j
      <4>1. jobs'[k] = jobs[k] /\ task'[k] = task[k]
        BY <2>2, <2>5, <3>1, SpawnedTypes DEF QueueInv, TypeOK
      <4> QED BY <2>1, <4>1, SameJob
    <3>2. CASE k = j
      <4>1. jobs'[k] = IF jobs[k].status = "absent" THEN NewJob ELSE jobs[k]
        BY <2>2, <2>5, <3>2 DEF QueueInv, TypeOK
      <4>2. \/ task'[k] = task[k]
            \/ /\ CanAutoRun(job) /\ task[k].at = "none" /\ task'[k] = At("waiting")
        BY <2>2, <2>5, <3>2, SpawnedTypes DEF QueueInv
      <4>3. Settled(k) => jobs'[k] = jobs[k] /\ task'[k] = task[k]
        BY <3>2, <4>1, <4>2 DEF Settled, CanAutoRun
      <4>4. At("waiting").at = "waiting" BY TaskTypes DEF Places
      <4> QED BY <2>1, <4>1, <4>2, <4>3, <4>4 DEF Kept, Spent, Settled, ClaimInv
    <3> QED BY <3>1, <3>2
  <2> QED BY <2>3, <2>4, <2>5
<1>5. ASSUME NEW op \in {"close", "idle"}, ScheduleUnread(op, s) PROVE FALSE
  BY <1>1, <1>5 DEF ScheduleUnread
<1>6. CASE DeleteJobs(s)
  <2>1. s \in deleted BY <1>6 DEF DeleteJobs, Answers, QueueInv, DeleteInv
  <2>2. UNCHANGED <<up, task, deleted>> BY <1>6 DEF DeleteJobs, Answers, hermes
  <2>3. jobs'[k] = jobs[k] \/ k.session = s BY <1>1, <1>6 DEF DeleteJobs
  <2> QED BY <2>1, <2>2, <2>3 DEF Kept, Spent, Settled, ClaimInv
<1> QED BY <1>2, <1>3, <1>4, <1>5, <1>6 DEF RouteStep, Close, IdleClose, DeleteSession

(* A crash leaves a job that was asked for running without a task, and the *)
(* restart fails it for good.                                              *)
LEMMA FaultKeepsSpent ==
    ASSUME QueueInv, Crash \/ Restart \/ RestartUnread, budget.faults' = budget.faults,
           NEW k \in Jobs, ClaimInv(k)
    PROVE  Kept(k) /\ ClaimInv(k)'
<1>1. CASE Crash
  <2>1. task'[k].at = "none" BY <1>1, TaskTypes DEF Crash
  <2> QED BY <1>1, <2>1 DEF Crash, hermes, Kept, Spent, Settled, ClaimInv
<1>2. CASE Restart
  <2>1. task'[k].at \in {"none", "waiting"} /\ deleted' = deleted
    BY <1>2, TaskTypes DEF Restart, Places, hermes
  <2>2. jobs[k] \in Job BY DEF QueueInv, TypeOK
  <2>3. jobs'[k] = Resumed(jobs[k])
        /\ task'[k] = IF Resumes(Resumed(jobs[k])) THEN At("waiting") ELSE NoTask
    BY <1>2 DEF Restart
  <2>4. [retryable |-> FALSE, unknown |-> TRUE] # Safe BY DEF Safe
  <2>5. jobs[k].status = "running" =>
            jobs'[k].status = "failed" /\ jobs'[k].flags # Safe
    BY <2>2, <2>3, <2>4, JobFields DEF Resumed
  <2>6. jobs[k].status # "running" => jobs'[k] = jobs[k] BY <2>3 DEF Resumed
  <2>7. Settled(k) => Settled(k)' BY <2>5, <2>6 DEF Settled
  <2> QED BY <2>1, <2>7 DEF Kept, Spent, ClaimInv
<1>3. CASE RestartUnread BY <1>3 DEF RestartUnread, Unreadable, QueueInv, TypeOK
<1> QED BY <1>1, <1>2, <1>3

(* Reads that the state file refuses are only counted up. *)
LEMMA FaultsGrow ==
    ASSUME QueueInv, Next, budget.faults' = 0
    PROVE  budget.faults = 0
<1> USE DEF QueueInv
<1>1. budget \in [crashes : Nat, faults : Nat, retries : Nat] BY DEF TypeOK
<1>2. ~Unreadable BY <1>1 DEF Unreadable
<1>3. ASSUME budget' = budget PROVE budget.faults = 0 BY <1>3
<1>4. ASSUME NEW s \in Sessions, RouteStep(s) PROVE budget' = budget
  BY <1>2, <1>4 DEF RouteStep, Close, IdleClose, CloseFails, Schedule, ScheduleUnread, DeleteSession,
                    DeleteJobs, Begins
<1>5. ASSUME NEW j \in Jobs, Retry(j) PROVE budget.faults = 0 BY <1>1, <1>5 DEF Retry
<1>6. ASSUME NEW j \in Jobs, TakeSlot(j) \/ TakeSlotUnread(j) \/ TaskStep(j) PROVE budget' = budget
  BY <1>2, <1>6 DEF TakeSlot, TakeSlotUnread, TaskStep, Prepared, PrepareFails, Accept, AskFails, Ended,
                    Answered, AnswerLost, AnswerUnusable, Conclude, ConcludeUnread, Wake, Move, Fails
<1>7. ASSUME Crash PROVE budget.faults = 0 BY <1>1, <1>7 DEF Crash
<1>8. ASSUME Restart \/ RestartUnread PROVE budget' = budget
  BY <1>2, <1>8 DEF Restart, RestartUnread
<1> QED BY <1>3, <1>4, <1>5, <1>6, <1>7, <1>8, MemoryQueueInv DEF Next, MemoryStep

LEMMA NextCountInv ==
    ASSUME CarefulClients, MemoryInv, Next
    PROVE  CountInv'
<1> SUFFICES ASSUME budget.faults' = 0 PROVE CountInv' BY DEF CountInv
<1> USE DEF MemoryInv
<1>1. budget.faults = 0 /\ \A k \in Jobs : ClaimInv(k) BY FaultsGrow DEF CountInv
<1>2. ASSUME executed' = executed, \A k \in Jobs : Kept(k) /\ ClaimInv(k)' PROVE CountInv'
  BY <1>1, <1>2, NothingAccepted
<1>3. ASSUME NEW s \in Sessions, RouteStep(s) PROVE CountInv'
  <2>1. executed' = executed
    BY <1>3 DEF RouteStep, Close, IdleClose, CloseFails, Schedule, ScheduleUnread, DeleteSession,
                DeleteJobs, Begins, Answers, hermes
  <2> QED BY <1>1, <1>2, <1>3, <2>1, RouteKeepsSpent
<1>4. ASSUME NEW j \in Jobs, Retry(j) \/ TakeSlot(j) \/ TaskStep(j) PROVE CountInv'
  <2>1. \A k \in Jobs \ {j} : jobs'[k] = jobs[k] /\ task'[k] = task[k]
    BY <1>4, SpawnedTypes
       DEF Retry, TakeSlot, TaskStep, Prepared, PrepareFails, Accept, AskFails, Ended, Answered,
           AnswerLost, AnswerUnusable, Conclude, ConcludeUnread, Wake, Move, Fails, QueueInv, TypeOK
  <2>2. UNCHANGED <<up, deleted>>
    BY <1>4 DEF Retry, TakeSlot, TaskStep, Prepared, PrepareFails, Accept, AskFails, Answered,
                AnswerLost, AnswerUnusable, Conclude, ConcludeUnread, Wake, Move, Fails, Ended, hermes
  <2>3. \A k \in Jobs : Kept(k) /\ ClaimInv(k)'
    <3>1. ASSUME NEW k \in Jobs \ {j} PROVE Kept(k) /\ ClaimInv(k)' BY <1>1, <2>1, <2>2, SameJob
    <3>2. Kept(j) /\ ClaimInv(j)' BY <1>1, <1>4, TaskKeepsSpent
    <3> QED BY <3>1, <3>2
  <2>4. CASE Accept(j)
    <3>1. executed' = [executed EXCEPT ![j.session] = @ + 1] BY <2>4 DEF Accept
    <3>2. ~Spent(j) BY <2>4 DEF Accept, Spent
    <3>3. task'[j].at = "answering" /\ jobs' = jobs
      BY <2>4, TaskTypes DEF Accept, Move, Places, QueueInv, TypeOK
    <3>4. Spent(j)' BY <1>1, <2>2, <2>4, <3>3 DEF Accept, ClaimInv, Spent, Settled
    <3>5. j.turns >= 1
      BY <2>4, JobNames, TurnsAssumption, TaskTypes DEF Accept, QueueInv, EmptyInv
    <3> QED BY <1>1, <2>3, <3>1, <3>2, <3>4, <3>5, OneAccepted
  <2>5. CASE executed' = executed BY <1>2, <2>3, <2>5
  <2> QED
    BY <1>4, <2>4, <2>5
       DEF Retry, TakeSlot, TaskStep, Prepared, PrepareFails, AskFails, Ended, Answered,
           AnswerLost, AnswerUnusable, Conclude, ConcludeUnread, Wake, Move, Fails, hermes
<1>5. ASSUME NEW j \in Jobs, TakeSlotUnread(j) PROVE FALSE
  BY <1>1, <1>5 DEF TakeSlotUnread, Unreadable, QueueInv, TypeOK
<1>6. ASSUME (\E s \in Scopes : MemoryStep(s)) \/ (\E j \in Jobs : HermesReflects(j)) PROVE CountInv'
  <2>1. UNCHANGED <<jobs, task, up, deleted, executed, budget>> BY <1>6, MemoryQueueInv
  <2> QED BY <1>1, <1>2, <2>1, SameJob
<1>7. ASSUME Crash \/ Restart \/ RestartUnread PROVE CountInv'
  <2>1. executed' = executed BY <1>7 DEF Crash, Restart, RestartUnread, hermes
  <2> QED BY <1>1, <1>2, <1>7, <2>1, FaultKeepsSpent
<1> QED
  <2>1. CASE \E s \in Sessions : RouteStep(s) BY <1>3, <2>1
  <2>2. CASE \E j \in Jobs : Retry(j) \/ TakeSlot(j) \/ TaskStep(j) BY <1>4, <2>2
  <2>3. CASE \E j \in Jobs : TakeSlotUnread(j) BY <1>5, <2>3
  <2>4. CASE (\E s \in Scopes : MemoryStep(s)) \/ (\E j \in Jobs : HermesReflects(j)) BY <1>6, <2>4
  <2>5. CASE Crash \/ Restart \/ RestartUnread BY <1>7, <2>5
  <2> QED BY <2>1, <2>2, <2>3, <2>4, <2>5 DEF Next, MemoryStep

LEMMA InitMemoryInv == Init => QueueInv /\ CountInv
<1> SUFFICES ASSUME Init PROVE QueueInv /\ CountInv OBVIOUS
<1>1. TypeOK BY JobTypes, TaskTypes, ConsTypes DEF Init, TypeOK
<1>2. QueueInv BY <1>1 DEF Init, QueueInv, DownInv, DeleteInv, EmptyInv
<1>3. \A s \in Sessions : executed[s] <= Cardinality(SpentJobs(s)) BY SpentIsFinite DEF Init
<1>4. \A j \in Jobs : ClaimInv(j) BY TaskTypes DEF Init, ClaimInv
<1> QED BY <1>2, <1>3, <1>4 DEF CountInv

-----------------------------------------------------------------------------
(* The queue, its tasks and Hermes stay within their types. *)
THEOREM MemoryTypes == Spec => []TypeOK
<1>1. QueueInv => TypeOK BY DEF QueueInv
<1> QED BY <1>1, InitMemoryInv, NextQueueInv, PTL DEF Spec

(* What the jobs, the tasks and the accepted turns keep at every step, if  *)
(* clients retry what they are told they may retry.                        *)
THEOREM MemoryInvariant == CarefulClients => (Spec => []MemoryInv)
<1> SUFFICES ASSUME CarefulClients PROVE Spec => []MemoryInv OBVIOUS
<1>1. Init => MemoryInv BY InitMemoryInv DEF MemoryInv
<1>2. MemoryInv /\ [Next]_vars => MemoryInv'
  <2> SUFFICES ASSUME MemoryInv, [Next]_vars PROVE MemoryInv' OBVIOUS
  <2>1. QueueInv' BY NextQueueInv DEF MemoryInv
  <2>2. CASE Next BY <2>1, <2>2, NextCountInv DEF MemoryInv
  <2>3. CASE UNCHANGED vars
    <3>1. UNCHANGED <<jobs, task, up, deleted, executed, budget>> BY <2>3 DEF vars, service, hermes
    <3>2. budget.faults = 0 => \A k \in Jobs : Kept(k) /\ ClaimInv(k)'
      BY <3>1, SameJob DEF MemoryInv, CountInv
    <3> QED BY <2>1, <3>1, <3>2, NothingAccepted DEF MemoryInv
  <2> QED BY <2>2, <2>3
<1> QED BY <1>1, <1>2, PTL DEF Spec

(* While the state file can be read, Hermes accepts no more turns to       *)
(* reflect on a session than there are ways of counting its turns that     *)
(* give it a job, whatever is lost, retried, repeated or interrupted.      *)
THEOREM TurnsPerCount == CarefulClients => (Spec => []OncePerCount)
<1> SUFFICES ASSUME CarefulClients PROVE Spec => []OncePerCount OBVIOUS
<1>1. MemoryInv => OncePerCount
  <2> SUFFICES ASSUME MemoryInv, budget.faults = 0, NEW s \in Sessions
               PROVE  executed[s] <= Cardinality(CountsOf(s))
    BY DEF OncePerCount
  <2> USE DEF MemoryInv
  <2>1. IsFiniteSet(CountsOf(s))
    <3>1. IsFiniteSet({Turns[s]} \cup {HalfMessages[s]}) BY FS_Singleton, FS_AddElement
    <3>2. CountsOf(s) \subseteq {Turns[s]} \cup {HalfMessages[s]} BY DEF CountsOf
    <3> QED BY <3>1, <3>2, FS_Subset
  <2> DEFINE f == [j \in SpentJobs(s) |-> j.turns]
  <2>2. f \in [SpentJobs(s) -> CountsOf(s)] BY JobNames DEF SpentJobs, CountsOf
  <2>3. ASSUME NEW j \in SpentJobs(s), NEW k \in SpentJobs(s), f[j] = f[k] PROVE j = k
    BY <2>3, JobNames DEF SpentJobs
  <2>4. f \in Injection(SpentJobs(s), CountsOf(s)) BY <2>2, <2>3 DEF Injection, IsInjective
  <2>5. Cardinality(SpentJobs(s)) <= Cardinality(CountsOf(s)) BY <2>1, <2>4, FS_Injection
  <2>6. executed[s] <= Cardinality(SpentJobs(s)) /\ executed[s] \in Nat
    BY DEF CountInv, QueueInv, TypeOK
  <2> QED BY <2>1, <2>5, <2>6, SpentIsFinite, FS_CardinalityType
<1> QED BY <1>1, MemoryInvariant, PTL

(* A session whose messages are twice its turns, or fewer than two, is     *)
(* reflected on at most once.                                              *)
THEOREM SessionsReflectedOnce ==
    ASSUME CarefulClients, \A s \in Sessions : HalfMessages[s] \in {0, Turns[s]}
    PROVE  Spec => []ReflectedOnce
<1>1. TypeOK /\ OncePerCount => ReflectedOnce
  <2> SUFFICES ASSUME TypeOK, OncePerCount, budget.faults = 0, NEW s \in Sessions
               PROVE  executed[s] <= 1
    BY DEF ReflectedOnce
  <2>1. executed[s] <= Cardinality(CountsOf(s)) BY DEF OncePerCount
  <2>2. CountsOf(s) = {} \/ CountsOf(s) = {Turns[s]} BY TurnsAssumption DEF CountsOf
  <2>3. Cardinality(CountsOf(s)) \in {0, 1} BY <2>2, FS_EmptySet, FS_Singleton
  <2> QED BY <2>1, <2>3 DEF TypeOK
<1> QED BY <1>1, MemoryTypes, TurnsPerCount, PTL
=============================================================================
