----------------------------- MODULE MemoryJobs -----------------------------
(***************************************************************************)
(* The background jobs that write long-term memory: the durable queue of   *)
(* final reflections (api/reflections.py) with its executor, and the       *)
(* consolidation of memory files that outgrew their watermark              *)
(* (api/memory_consolidation.py).  Both take slots of one limiter and ask  *)
(* Hermes, whose turns write the memory of an owner.                       *)
(*                                                                         *)
(* A job reflects on the end of a session and is named by the session and  *)
(* the number of its turns.  A memory is the set of its entries.  Chats    *)
(* and runs, which share the limiter, are in AgentRuns.                    *)
(*                                                                         *)
(* An operator marked as a mutant is a faulty form of the definition after *)
(* it; no definition uses it.                                              *)
(***************************************************************************)
EXTENDS Integers, FiniteSets

CONSTANTS
  Sessions,
  Turns,          (* the completed turns of each session, as counted        *)
  HalfMessages,   (* half the messages of each session, rounded down        *)
  Scopes,         (* owners                                                 *)
  ScopeOf,        (* the owner of each session                              *)
  Capacity,
  MaxAttempts,    (* of a reflection, and of a consolidation: 3 in the code *)
  Trigger,        (* entries at which a memory is consolidated              *)
  Critical,       (* entries at which Hermes adds no more                   *)
  CarefulClients, (* clients retry only failures that are said retryable    *)
  MaxCrashes,     (* bound on service crashes                               *)
  MaxStoreFaults, (* bound on reads that the state file refuses             *)
  MaxRetries      (* bound on retries by clients                            *)

ASSUME ScopeOfAssumption == ScopeOf \in [Sessions -> Scopes]
ASSUME TurnsAssumption == Turns \in [Sessions -> Nat] /\ HalfMessages \in [Sessions -> Nat]
ASSUME LimitsAssumption ==
  /\ {Capacity, MaxAttempts, Trigger, Critical} \subseteq Nat \ {0}
  /\ Trigger <= Critical
ASSUME CarefulClientsAssumption == CarefulClients \in BOOLEAN
ASSUME JobBoundsAssumption == {MaxCrashes, MaxStoreFaults, MaxRetries} \subseteq Nat

VARIABLES
  jobs,     (* reflections.json                                            *)
  task,     (* the task of each job: where it is, what its executor raised *)
  cons,     (* the consolidation task of each owner                        *)
  cooling,  (* the owners whose consolidation failed a short while ago     *)
  requests, (* closings and deletions done in Hermes, not yet in the queue *)
  up,       (* the service is running                                      *)
  ended,    (* Hermes: the sessions that have ended_at                     *)
  deleted,  (* Hermes: the sessions that were deleted                      *)
  turns,    (* Hermes: the jobs whose turn has not ended yet               *)
  rewrites, (* Hermes: the owners whose consolidation turn has not ended   *)
  memory,   (* the memory file of each owner                               *)
  executed, (* how many turns Hermes accepted to reflect on each session   *)
  budget    (* crashes, store faults and retries so far                    *)

service == <<jobs, task, cons, cooling, requests, up>>
hermes  == <<ended, deleted, turns, rewrites, memory, executed>>
vars    == <<service, hermes, budget>>

-----------------------------------------------------------------------------
(* The queue.                                                              *)

JobOf(s, n) == [session |-> s, turns |-> n]

Jobs == {JobOf(s, Turns[s]) : s \in Sessions} \cup {JobOf(s, HalfMessages[s]) : s \in Sessions}

(* What an executor may raise, as _retry_flags reads it.                   *)
Safe    == [retryable |-> TRUE,  unknown |-> FALSE]
Refused == [retryable |-> FALSE, unknown |-> FALSE]
Lost    == [retryable |-> TRUE,  unknown |-> TRUE]
Quiet   == Refused  (* no error: nobody looks at these flags *)
Error   == {Safe, Refused, Lost}

Job ==
  [status   : {"absent", "pending", "running", "failed", "succeeded"},
   attempts : Nat,
   flags    : [retryable : BOOLEAN, unknown : BOOLEAN]]

NoJob  == [status |-> "absent", attempts |-> 0, flags |-> Quiet]
NewJob == [NoJob EXCEPT !.status = "pending"]

CanAutoRun(job) ==
  /\ job.attempts < MaxAttempts
  /\ \/ job.status = "pending"
     \/ job.status = "failed" /\ job.flags = Safe

Claimed(job)   == [status |-> "running", attempts |-> job.attempts + 1, flags |-> Quiet]
Failed(job, e) == [job EXCEPT !.status = "failed", !.flags = e]
Done(job)      == [job EXCEPT !.status = "succeeded", !.flags = Quiet]

-----------------------------------------------------------------------------
(* Tasks and the limiter.                                                  *)

Task ==
  [at  : {"none", "waiting", "preparing", "asking", "answering", "deleting", "backoff"},
   ok  : BOOLEAN,
   err : Error]

NoTask  == [at |-> "none", ok |-> FALSE, err |-> Refused]
At(loc) == [NoTask EXCEPT !.at = loc]

(* _spawn: a job has one task.                                             *)
Spawned(tasks, j) ==
  IF tasks[j].at = "none" THEN [tasks EXCEPT ![j] = At("waiting")] ELSE tasks

Holding == {"preparing", "asking", "answering", "deleting"}

Consolidation ==
  [at : {"none", "waiting", "working", "rewriting", "sleeping"}, attempt : Nat]

NoConsolidation == [at |-> "none", attempt |-> 0]

SlotsInUse ==
  Cardinality({j \in Jobs : task[j].at \in Holding})
    + Cardinality({s \in Scopes : cons[s].at \in {"working", "rewriting"}})

SlotFree == SlotsInUse < Capacity

AboveTrigger(s) == Cardinality(memory[s]) >= Trigger

NeededAtCritical(s) ==                                                       (* mutant *)
  Cardinality(memory[s]) >= Critical /\ s \notin cooling /\ cons[s].at = "none"

(* schedule_if_needed: one task per owner.                                 *)
Needed(s) == AboveTrigger(s) /\ s \notin cooling /\ cons[s].at = "none"

ConsolidationStarted(s) ==
  IF Needed(s) THEN [cons EXCEPT ![s] = [at |-> "waiting", attempt |-> 1]] ELSE cons

(* _load takes a file it cannot read for an empty one.                     *)
Unreadable ==
  /\ budget.faults < MaxStoreFaults
  /\ budget' = [budget EXCEPT !.faults = @ + 1]

-----------------------------------------------------------------------------
(* Session close, idle sweep, deletion, and the routes of the queue.       *)

Request(op, s) == [op |-> op, session |-> s]

Begins(op, s) ==
  /\ up /\ s \notin deleted /\ Request(op, s) \notin requests
  /\ requests' = requests \cup {Request(op, s)}
  /\ UNCHANGED <<jobs, task, cons, cooling, up, turns, rewrites, memory, executed, budget>>

(* PATCH of the session, unless it had ended already.                      *)
Close(s) == Begins("close", s) /\ ended' = ended \cup {s} /\ UNCHANGED deleted

(* The idle sweep lists the session as open and closes it.                 *)
IdleClose(s) == s \notin ended /\ Begins("idle", s) /\ ended' = ended \cup {s} /\ UNCHANGED deleted

Answers(op, s) ==
  /\ up /\ Request(op, s) \in requests
  /\ requests' = requests \ {Request(op, s)}
  /\ UNCHANGED <<cooling, up, hermes>>

(* Hermes fails to close the session or to show its messages.              *)
CloseFails(s) ==
  /\ \E op \in {"close", "idle"} : Answers(op, s)
  /\ UNCHANGED <<jobs, task, cons, budget>>

(* The close route counts the turns of the session; the sweep has only the *)
(* number of its messages.                                                 *)
TurnEnd(op, s) == IF op = "close" THEN Turns[s] ELSE HalfMessages[s]

Schedule(op, s) ==
  /\ Answers(op, s)
  /\ LET j   == JobOf(s, TurnEnd(op, s))
         job == IF jobs[j].status = "absent" THEN NewJob ELSE jobs[j]
     IN IF TurnEnd(op, s) < 1 THEN UNCHANGED <<jobs, task>>
        ELSE /\ jobs' = [jobs EXCEPT ![j] = job]
             /\ task' = IF CanAutoRun(job) THEN Spawned(task, j) ELSE task
  /\ UNCHANGED <<cons, budget>>

(* The new job is then all that is saved.                                  *)
ScheduleUnread(op, s) ==
  /\ Answers(op, s) /\ TurnEnd(op, s) >= 1 /\ Unreadable
  /\ LET j == JobOf(s, TurnEnd(op, s))
     IN /\ jobs' = [other \in Jobs |-> IF other = j THEN NewJob ELSE NoJob]
        /\ task' = Spawned(task, j)
  /\ UNCHANGED cons

(* delete_session: Hermes first, then the queue.                           *)
DeleteSession(s) == Begins("delete", s) /\ deleted' = deleted \cup {s} /\ UNCHANGED ended

DeleteJobs(s) ==
  /\ Answers("delete", s)
  /\ \/ /\ jobs' = [j \in Jobs |-> IF j.session = s THEN NoJob ELSE jobs[j]]
        /\ budget' = budget
     \/ Unreadable /\ jobs' = jobs
  /\ UNCHANGED <<task, cons>>

Retry(j) ==
  /\ up /\ jobs[j].status \notin {"absent", "succeeded"} /\ ~jobs[j].flags.unknown
  /\ CarefulClients => jobs[j].status = "failed" /\ jobs[j].flags.retryable
  /\ budget.retries < MaxRetries
  /\ budget' = [budget EXCEPT !.retries = @ + 1]
  /\ jobs' = [jobs EXCEPT ![j] = NewJob]
  /\ task' = Spawned(task, j)
  /\ UNCHANGED <<cons, cooling, requests, up, hermes>>

-----------------------------------------------------------------------------
(* The task of a reflection.                                               *)

Move(j, loc) ==
  /\ task' = [task EXCEPT ![j] = At(loc)]
  /\ UNCHANGED <<cons, cooling, requests, up, budget>>

TakeSlot(j) ==
  /\ up /\ task[j].at = "waiting" /\ SlotFree
  /\ LET job == jobs[j]
     IN IF \/ job.status \in {"absent", "succeeded"}
           \/ job.status = "failed" /\ ~CanAutoRun(job)
           \/ job.attempts >= MaxAttempts
        THEN jobs' = jobs /\ Move(j, "none")
        ELSE jobs' = [jobs EXCEPT ![j] = Claimed(job)] /\ Move(j, "preparing")
  /\ UNCHANGED hermes

(* A job that is not found has no more task, whatever its status.          *)
TakeSlotUnread(j) ==
  /\ up /\ task[j].at = "waiting" /\ SlotFree /\ Unreadable
  /\ task' = [task EXCEPT ![j] = NoTask]
  /\ UNCHANGED <<jobs, cons, cooling, requests, up, hermes>>

(* The messages of the session were read and a temporary session opened.   *)
Prepared(j) ==
  /\ up /\ task[j].at = "preparing" /\ j.session \notin deleted
  /\ Move(j, "asking")
  /\ UNCHANGED <<jobs, hermes>>

(* What the task makes of the failure e of its executor.                   *)
GivesUp(j, e) == jobs[j].attempts >= MaxAttempts \/ e # Safe

Fails(j, e) ==
  IF jobs[j].status = "absent" THEN jobs' = jobs /\ Move(j, "none")
  ELSE /\ jobs' = [jobs EXCEPT ![j] = Failed(@, e)]
       /\ Move(j, IF GivesUp(j, e) THEN "none" ELSE "backoff")

PrepareFails(j) ==
  /\ up /\ task[j].at = "preparing"
  /\ \E e \in Error : Fails(j, e)
  /\ UNCHANGED hermes

(* Hermes accepts the turn.                                                *)
Accept(j) ==
  /\ task[j].at = "asking" /\ up
  /\ Move(j, "answering")
  /\ turns' = turns \cup {j}
  /\ executed' = [executed EXCEPT ![j.session] = @ + 1]
  /\ UNCHANGED <<jobs, ended, deleted, rewrites, memory>>

Ended(j, ok, e) ==
  /\ task' = [task EXCEPT ![j] = [at |-> "deleting", ok |-> ok, err |-> e]]
  /\ UNCHANGED <<jobs, cons, cooling, requests, up, hermes, budget>>

(* No connection, an error status, or a response that never came.          *)
AskFails(j) == up /\ task[j].at = "asking" /\ \E e \in Error : Ended(j, FALSE, e)

Answered(j) == up /\ task[j].at = "answering" /\ j \notin turns /\ Ended(j, TRUE, Refused)

(* The time limit or the connection; the turn may go on in Hermes.         *)
AnswerLost(j) == up /\ task[j].at = "answering" /\ Ended(j, FALSE, Lost)

(* An exception after the turn that says nothing about retries.            *)
AnswerUnusable(j) ==
  up /\ task[j].at = "answering" /\ j \notin turns /\ Ended(j, FALSE, Refused)

(* The temporary session is deleted, whatever comes of that; the executor  *)
(* returns, having looked at the memory, or raises.                        *)
Conclude(j) ==
  /\ up /\ task[j].at = "deleting"
  /\ IF task[j].ok
     THEN /\ jobs' = [jobs EXCEPT ![j] = IF @.status = "absent" THEN @ ELSE Done(@)]
          /\ task' = [task EXCEPT ![j] = NoTask]
          /\ cons' = ConsolidationStarted(ScopeOf[j.session])
          /\ UNCHANGED <<cooling, requests, up, budget>>
     ELSE Fails(j, task[j].err)
  /\ UNCHANGED hermes

(* The outcome is not recorded: the job stays running without a task.      *)
ConcludeUnread(j) ==
  /\ up /\ task[j].at = "deleting" /\ Unreadable
  /\ task' = [task EXCEPT ![j] = NoTask]
  /\ cons' = IF task[j].ok THEN ConsolidationStarted(ScopeOf[j.session]) ELSE cons
  /\ UNCHANGED <<jobs, cooling, requests, up, hermes>>

Wake(j) ==
  /\ up /\ task[j].at = "backoff"
  /\ Move(j, "waiting")
  /\ UNCHANGED <<jobs, hermes>>

-----------------------------------------------------------------------------
(* Consolidation.                                                          *)

ConsMove(s, c) ==
  /\ cons' = [cons EXCEPT ![s] = c]
  /\ UNCHANGED <<jobs, task, requests, up, budget>>

(* The sweeper, or a chat or run that ended.                               *)
Sweep(s) ==
  /\ up /\ Needed(s)
  /\ cons' = ConsolidationStarted(s)
  /\ UNCHANGED <<jobs, task, cooling, requests, up, hermes, budget>>

ConsTakesSlot(s) ==
  /\ up /\ cons[s].at = "waiting" /\ SlotFree
  /\ ConsMove(s, [cons[s] EXCEPT !.at = "working"])
  /\ UNCHANGED <<cooling, hermes>>

ConsAccepted(s) ==
  /\ up /\ cons[s].at = "working"
  /\ ConsMove(s, [cons[s] EXCEPT !.at = "rewriting"])
  /\ rewrites' = rewrites \cup {s}
  /\ UNCHANGED <<cooling, ended, deleted, turns, memory, executed>>

(* Any failure but an unknown one is tried again, until none is left.      *)
ConsFailed(s, e) ==
  IF cons[s].attempt >= MaxAttempts \/ e.unknown
  THEN cooling' = cooling \cup {s} /\ ConsMove(s, NoConsolidation)
  ELSE cooling' = cooling /\ ConsMove(s, [cons[s] EXCEPT !.at = "sleeping"])

ConsAskFails(s) ==
  /\ up /\ cons[s].at = "working"
  /\ \E e \in Error : ConsFailed(s, e)
  /\ UNCHANGED hermes

ConsAnswerLost(s) ==
  /\ up /\ cons[s].at = "rewriting"
  /\ ConsFailed(s, Lost)
  /\ UNCHANGED hermes

(* A memory still above the trigger counts as a failure.                   *)
ConsAnswered(s) ==
  /\ up /\ cons[s].at = "rewriting" /\ s \notin rewrites
  /\ IF AboveTrigger(s) THEN ConsFailed(s, Safe)
     ELSE cooling' = cooling \ {s} /\ ConsMove(s, NoConsolidation)
  /\ UNCHANGED hermes

ConsWakes(s) ==
  /\ up /\ cons[s].at = "sleeping"
  /\ ConsMove(s, IF AboveTrigger(s) THEN [at |-> "waiting", attempt |-> cons[s].attempt + 1]
                 ELSE NoConsolidation)
  /\ UNCHANGED <<cooling, hermes>>

CoolsDown(s) ==
  /\ s \in cooling
  /\ cooling' = cooling \ {s}
  /\ UNCHANGED <<jobs, task, cons, requests, up, hermes, budget>>

-----------------------------------------------------------------------------
(* Hermes.                                                                 *)

(* A turn of a reflection ends, having added an entry unless it had        *)
(* nothing to add or the memory was critical.                              *)
HermesReflects(j) ==
  LET s == ScopeOf[j.session]
  IN /\ j \in turns
     /\ turns' = turns \ {j}
     /\ \/ memory' = memory
        \/ /\ Cardinality(memory[s]) < Critical
           /\ memory' = [memory EXCEPT ![s] = @ \cup {[session |-> j.session, turn |-> executed[j.session]]}]
     /\ UNCHANGED <<service, ended, deleted, rewrites, executed, budget>>

(* A turn of a consolidation ends, having kept what it found worth keeping. *)
HermesConsolidates(s) ==
  /\ s \in rewrites
  /\ rewrites' = rewrites \ {s}
  /\ \E kept \in SUBSET memory[s] : memory' = [memory EXCEPT ![s] = kept]
  /\ UNCHANGED <<service, ended, deleted, turns, executed, budget>>

-----------------------------------------------------------------------------
(* Crash and restart.                                                      *)

Crash ==
  /\ up /\ budget.crashes < MaxCrashes
  /\ budget' = [budget EXCEPT !.crashes = @ + 1]
  /\ up' = FALSE
  /\ task' = [j \in Jobs |-> NoTask]
  /\ cons' = [s \in Scopes |-> NoConsolidation]
  /\ cooling' = {} /\ requests' = {}
  /\ UNCHANGED <<jobs, hermes>>

ReplayInterrupted(job) ==                                                    (* mutant *)
  IF job.status = "running" THEN [job EXCEPT !.status = "pending"] ELSE job

LeftRunning(job) == job                                                      (* mutant *)

(* resume_pending: what was running is failed closed.                      *)
Resumed(job) ==
  IF job.status = "running"
  THEN Failed(job, [retryable |-> FALSE, unknown |-> TRUE]) ELSE job

Resumes(job) == CanAutoRun(job)

Restart ==
  /\ ~up
  /\ up' = TRUE
  /\ jobs' = [j \in Jobs |-> Resumed(jobs[j])]
  /\ task' = [j \in Jobs |-> IF Resumes(Resumed(jobs[j])) THEN At("waiting") ELSE NoTask]
  /\ UNCHANGED <<cons, cooling, requests, hermes, budget>>

RestartUnread ==
  /\ ~up /\ Unreadable
  /\ up' = TRUE
  /\ UNCHANGED <<jobs, task, cons, cooling, requests, hermes>>

-----------------------------------------------------------------------------
Init ==
  /\ jobs = [j \in Jobs |-> NoJob]
  /\ task = [j \in Jobs |-> NoTask]
  /\ cons = [s \in Scopes |-> NoConsolidation]
  /\ cooling = {} /\ requests = {} /\ up = TRUE
  /\ ended = {} /\ deleted = {} /\ turns = {} /\ rewrites = {}
  /\ memory = [s \in Scopes |-> {}]
  /\ executed = [s \in Sessions |-> 0]
  /\ budget = [crashes |-> 0, faults |-> 0, retries |-> 0]

RouteStep(s) ==
  \/ Close(s) \/ IdleClose(s) \/ CloseFails(s)
  \/ \E op \in {"close", "idle"} : Schedule(op, s) \/ ScheduleUnread(op, s)
  \/ DeleteSession(s) \/ DeleteJobs(s)

(* What the event loop does for a task that is not waiting for a slot.     *)
TaskStep(j) ==
  \/ Prepared(j) \/ PrepareFails(j) \/ Accept(j) \/ AskFails(j)
  \/ Answered(j) \/ AnswerLost(j) \/ AnswerUnusable(j)
  \/ Conclude(j) \/ ConcludeUnread(j) \/ Wake(j)

ConsStep(s) ==
  \/ ConsAccepted(s) \/ ConsAskFails(s) \/ ConsAnswerLost(s) \/ ConsAnswered(s)
  \/ ConsWakes(s)

Next ==
  \/ \E s \in Sessions : RouteStep(s)
  \/ \E j \in Jobs :
       Retry(j) \/ TakeSlot(j) \/ TakeSlotUnread(j) \/ TaskStep(j) \/ HermesReflects(j)
  \/ \E s \in Scopes :
       Sweep(s) \/ ConsTakesSlot(s) \/ ConsStep(s) \/ CoolsDown(s) \/ HermesConsolidates(s)
  \/ Crash \/ Restart \/ RestartUnread

Spec == Init /\ [][Next]_vars

(* The event loop runs every ready task, every request has a time limit,   *)
(* the limiter serves its waiters in turn, the sweeper and the cool-down   *)
(* are timers, and the service is restarted.                               *)
FairSpec ==
  /\ Spec
  /\ \A j \in Jobs : WF_vars(TaskStep(j)) /\ SF_vars(TakeSlot(j))
  /\ \A s \in Scopes : WF_vars(ConsStep(s)) /\ SF_vars(ConsTakesSlot(s))
  /\ \A s \in Scopes : WF_vars(Sweep(s)) /\ WF_vars(CoolsDown(s))
  /\ WF_vars(Restart)

-----------------------------------------------------------------------------
(* Properties.                                                             *)

TypeOK ==
  /\ jobs \in [Jobs -> Job]
  /\ task \in [Jobs -> Task]
  /\ cons \in [Scopes -> Consolidation]
  /\ cooling \subseteq Scopes
  /\ requests \subseteq [op : {"close", "idle", "delete"}, session : Sessions]
  /\ up \in BOOLEAN
  /\ ended \subseteq Sessions /\ deleted \subseteq Sessions
  /\ turns \subseteq Jobs
  /\ rewrites \subseteq Scopes
  /\ memory \in [Scopes -> SUBSET [session : Sessions, turn : Nat]]
  /\ executed \in [Sessions -> Nat]
  /\ budget \in [crashes : Nat, faults : Nat, retries : Nat]

(* While the state file can be read, a session is reflected on at most     *)
(* once: lost answers, retries, repeated requests and restarts never make  *)
(* Hermes accept a second turn, which could write the same memory twice.   *)
ReflectedOnce == budget.faults = 0 => \A s \in Sessions : executed[s] <= 1

(* Every scheduled reflection comes to an outcome or is deleted, however   *)
(* many attempts, crashes and consolidations it takes.                     *)
JobsSettle ==
  \A j \in Jobs :
    jobs[j].status \in {"pending", "running"} ~>
      (jobs[j].status \in {"absent", "failed", "succeeded"} \/ budget.faults > 0)

(* A memory that outgrew its watermark does not stay so unattended: it     *)
(* shrinks or a consolidation takes a turn at it, again after each failure. *)
MemoryIsTended ==
  \A s \in Scopes : AboveTrigger(s) ~> (~AboveTrigger(s) \/ cons[s].at = "working")
=============================================================================
