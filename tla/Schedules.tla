----------------------------- MODULE Schedules -----------------------------
(***************************************************************************)
(* A scheduled report as a whole: the routes of schedules.py, which keep   *)
(* the schedule file, the callback script and the timer jobs of Hermes in  *)
(* step through calls that may be refused or lose their answer, composed   *)
(* with the runs of module ScheduleRuns.                                   *)
(*                                                                         *)
(* A route is a sequence of steps, one per call to Hermes: what follows a  *)
(* call up to the next one happens at once.  The timer of Hermes is not    *)
(* part of the repository and is modelled from how the service uses it.    *)
(*                                                                         *)
(* An operator marked as a mutant is a faulty form of the definition after *)
(* it; no definition uses it.                                              *)
(***************************************************************************)
EXTENDS ScheduleRuns

CONSTANTS Clients, MaxJobs, MaxRequests, MaxRefusals, MaxLost

ASSUME SchedulesAssumption ==
    MaxJobs \in Nat \ {0} /\ MaxRequests \in Nat /\ MaxRefusals \in Nat /\ MaxLost \in Nat

VARIABLES
    jobs,       \* the timer jobs of this schedule on Hermes
    script,     \* the callback script exists
    route,      \* the request that each client has in flight
    requests, refusals, markers,
    doubts      \* calls whose outcome the service never learned

routeVars == <<jobs, script, route, requests, refusals, doubts, markers>>
vars      == <<runVars, routeVars>>

Jobs    == 1..MaxJobs
NoRoute == [op |-> "none"]
Unused  == [state |-> "unused", frequency |-> "none"]
Job     == [state : {"active", "paused", "done", "deleted"}, frequency : Frequencies]

-----------------------------------------------------------------------------
(* Calls to the timer.  A call is done, refused, or done with its answer   *)
(* lost; one about a job that is gone is refused in any case.              *)

Answers == {"done", "refused", "lost"}

Exists(j) == j \in Jobs /\ jobs[j].state \in {"active", "paused", "done"}

Learned(a) ==
    /\ refusals' = refusals + (IF a = "refused" THEN 1 ELSE 0)
    /\ doubts' = doubts + (IF a = "lost" THEN 1 ELSE 0)
    /\ refusals' <= MaxRefusals /\ doubts' <= MaxLost

Works(j, a) == a = "done" /\ Exists(j)

Put(j, state, a) ==
    jobs' = IF a # "refused" /\ Exists(j) THEN [jobs EXCEPT ![j].state = state] ELSE jobs

FreshJobs == {j \in Jobs : jobs[j] = Unused /\ \A i \in Jobs : i < j => jobs[i] # Unused}

Added(j, frequency, a) ==
    jobs' = IF a = "refused" THEN jobs
            ELSE [jobs EXCEPT ![j] = [state |-> "active", frequency |-> frequency]]

(* What an answer about job j tells the record (_native_job_updates). *)
Told(rec, j, state) ==
    [rec EXCEPT !.job = j, !.enabled = state = "active",
                !.state = CASE state = "active" -> "scheduled"
                            [] state = "paused" -> "paused"
                            [] OTHER -> "completed"]

-----------------------------------------------------------------------------
(* Routes. *)

Ends(c)     == route' = [route EXCEPT ![c] = NoRoute]
Step(c, s) == route' = [route EXCEPT ![c].step = s]
At(c, op, step) == up /\ route[c].op = op /\ route[c].step = step

Keep == UNCHANGED <<runs, gens, task, hermes, period, fresh, up, crashes, deletions>>

Request(op, step, frequency) ==
    [op |-> op, step |-> step, frequency |-> frequency, seen |-> record,
     job |-> 0, state |-> "unused", marker |-> 0]

Asks(c, op, step, frequency) ==
    /\ up /\ route[c] = NoRoute /\ requests < MaxRequests
    /\ requests' = requests + 1
    /\ route' = [route EXCEPT ![c] = Request(op, step, frequency)]

(* POST /schedules: the script, the job, the record. *)
Create(c) ==
    /\ \A j \in Jobs : jobs[j] = Unused
    /\ \E f \in Frequencies : Asks(c, "create", "job", f)
    /\ script' = TRUE
    /\ Keep /\ UNCHANGED <<record, jobs, refusals, doubts, markers>>

NewRecord(frequency, j) ==
    Told([frequency |-> frequency, enabled |-> TRUE, state |-> "scheduled",
          marker |-> 0, job |-> j, last |-> NoKey], j, "active")

CreateJob(c) ==
    /\ At(c, "create", "job")
    /\ \E a \in Answers, j \in FreshJobs :
           /\ Learned(a)
           /\ Added(j, route[c].frequency, a)
           /\ record' = IF a = "done" THEN NewRecord(route[c].frequency, j) ELSE record
           /\ script' = (a = "done")
    /\ Ends(c)
    /\ Keep /\ UNCHANGED <<requests, markers>>

(* PUT /schedules/{id} with another time: the old job is paused, a new one *)
(* made, the record moved, the old job deleted; a failure rolls back.      *)
Update(c) ==
    /\ Live
    /\ \E f \in Frequencies : Asks(c, "update", IF record.enabled THEN "pauseOld" ELSE "job", f)
    /\ Keep /\ UNCHANGED <<record, jobs, script, refusals, doubts, markers>>

Old(c) == route[c].seen.job

UpdatePauseOld(c) ==
    /\ At(c, "update", "pauseOld")
    /\ \E a \in Answers :
           /\ Learned(a)
           /\ Put(Old(c), "paused", a)
           /\ IF Works(Old(c), a) THEN Step(c, "job") ELSE Ends(c)
    /\ Keep /\ UNCHANGED <<record, script, requests, markers>>

Moved(c, j, state) ==
    IF Live THEN Told([record EXCEPT !.frequency = route[c].frequency], j, state) ELSE record

WithoutRollback(a, enabled) ==                      (* mutant *)
    IF a # "done" THEN "end" ELSE IF enabled THEN "deleteOld" ELSE "pauseNew"

AfterJob(a, enabled) ==
    CASE a = "done" /\ enabled  -> "deleteOld"
      [] a = "done" /\ ~enabled -> "pauseNew"
      [] a # "done" /\ enabled  -> "resumeOld"
      [] OTHER -> "end"

UpdateJob(c) ==
    /\ At(c, "update", "job")
    /\ \E a \in Answers, j \in FreshJobs :
           /\ Learned(a)
           /\ Added(j, route[c].frequency, a)
           /\ record' = IF a = "done" /\ route[c].seen.enabled THEN Moved(c, j, "active") ELSE record
           /\ LET next == AfterJob(a, route[c].seen.enabled)
              IN  IF next = "end" THEN Ends(c)
                  ELSE route' = [route EXCEPT ![c].step = next, ![c].job = j]
    /\ Keep /\ UNCHANGED <<script, requests, markers>>

UpdatePauseNew(c) ==
    /\ At(c, "update", "pauseNew")
    /\ \E a \in Answers :
           /\ Learned(a)
           /\ Put(route[c].job, "paused", a)
           /\ record' = IF a = "done" THEN Moved(c, route[c].job, "paused") ELSE record
           /\ Step(c, IF a = "done" THEN "deleteOld" ELSE "deleteNew")
    /\ Keep /\ UNCHANGED <<script, requests, markers>>

(* The calls that clean up: whatever they answer, the route ends. *)
UpdateCleansUp(c) ==
    /\ \E a \in Answers :
           /\ Learned(a)
           /\ \/ At(c, "update", "deleteOld") /\ Put(Old(c), "deleted", a)
              \/ At(c, "update", "deleteNew") /\ Put(route[c].job, "deleted", a)
              \/ At(c, "update", "resumeOld") /\ Put(Old(c), "active", a)
    /\ Ends(c)
    /\ Keep /\ UNCHANGED <<record, script, requests, markers>>

(* POST .../pause and .../resume. *)
SetEnabled(c) ==
    /\ Live
    /\ \E op \in {"pause", "resume"} : Asks(c, op, "call", record.frequency)
    /\ Keep /\ UNCHANGED <<record, jobs, script, refusals, doubts, markers>>

SetEnabledCall(c) ==
    \E op \in {"pause", "resume"}, a \in Answers :
        LET state == IF op = "pause" THEN "paused" ELSE "active"
        IN  /\ At(c, op, "call")
            /\ Learned(a)
            /\ Put(Old(c), state, a)
            /\ record' = IF Live /\ Works(Old(c), a) THEN Told(record, Old(c), state) ELSE record
            /\ Ends(c)
            /\ Keep /\ UNCHANGED <<script, requests, markers>>

(* POST .../run: a marker in the file, then the timer is told.  A request  *)
(* that fails takes the marker back, also when another request shares it.  *)
RunNow(c) ==
    /\ Live /\ record.enabled
    /\ record.marker = 0 => markers < MaxMarkers
    /\ LET m == IF record.marker # 0 THEN record.marker ELSE markers + 1
       IN  /\ record' = [record EXCEPT !.marker = m]
           /\ markers' = IF record.marker # 0 THEN markers ELSE m
           /\ requests < MaxRequests /\ requests' = requests + 1
           /\ up /\ route[c] = NoRoute
           /\ route' = [route EXCEPT ![c] = [Request("run", "call", record.frequency) EXCEPT !.marker = m]]
    /\ Keep /\ UNCHANGED <<jobs, script, refusals, doubts>>

RunNowCall(c) ==
    /\ At(c, "run", "call")
    /\ \E a \in Answers :
           /\ Learned(a)
           /\ record' = IF Live /\ ~Works(Old(c), a) /\ record.marker = route[c].marker
                        THEN [record EXCEPT !.marker = 0] ELSE record
    /\ Ends(c)
    /\ Keep /\ UNCHANGED <<jobs, script, requests, markers>>

(* DELETE /schedules/{id}: the timer job first; one that is gone already   *)
(* does not stop the removal.                                              *)
Delete(c) ==
    /\ Live
    /\ Asks(c, "delete", "call", record.frequency)
    /\ Keep /\ UNCHANGED <<record, jobs, script, refusals, doubts, markers>>

DeleteCall(c) ==
    /\ At(c, "delete", "call")
    /\ \E a \in Answers :
           /\ Learned(a)
           /\ Put(Old(c), "deleted", a)
           /\ IF a = "done" \/ (a = "refused" /\ ~Exists(Old(c)))
              THEN record' = Absent /\ script' = FALSE
              ELSE UNCHANGED <<record, script>>
    /\ Ends(c)
    /\ Keep /\ UNCHANGED <<requests, markers>>

(* GET /schedules refreshes each record from its job: it reads the record, *)
(* asks the timer, and writes what the timer told, whatever happened to    *)
(* the record in between.                                                  *)
Refresh(c) ==
    /\ Live
    /\ Asks(c, "refresh", "get", record.frequency)
    /\ Keep /\ UNCHANGED <<record, jobs, script, refusals, doubts, markers>>

RefreshGet(c) ==
    /\ At(c, "refresh", "get")
    /\ \E a \in {"done", "refused"} :
           /\ Learned(a)
           /\ IF Works(Old(c), a)
              THEN route' = [route EXCEPT ![c].step = "store", ![c].state = jobs[Old(c)].state]
              ELSE Ends(c)
    /\ Keep /\ UNCHANGED <<record, jobs, script, requests, markers>>

RefreshStore(c) ==
    /\ At(c, "refresh", "store")
    /\ LET told == Told(record, Old(c), route[c].state)
           seen == route[c].seen
       IN  record' = IF ~Live THEN record
                     ELSE IF seen.state \in {"completed", "failed"}
                     THEN [told EXCEPT !.state = seen.state, !.enabled = FALSE]
                     ELSE told
    /\ Ends(c)
    /\ Keep /\ UNCHANGED <<jobs, script, requests, refusals, doubts, markers>>

-----------------------------------------------------------------------------
(* The timer fires a job: its script calls back, or fails to.  A one-time  *)
(* job has then done its work.                                             *)

Fired(j) == IF jobs[j].frequency = "once" THEN [jobs EXCEPT ![j].state = "done"] ELSE jobs

Fire(j) ==
    /\ jobs[j].state = "active"
    /\ jobs' = Fired(j)
    /\ \/ script /\ up /\ Claim
       \/ UNCHANGED runVars
    /\ UNCHANGED <<script, route, requests, refusals, doubts, markers>>

(* A crash ends the routes as well, in the middle of whatever they did.    *)
ServiceCrash ==
    /\ Crash
    /\ route' = [c \in Clients |-> NoRoute]
    /\ doubts' = doubts + Cardinality({c \in Clients : route[c] # NoRoute})
    /\ UNCHANGED <<jobs, script, requests, refusals, markers>>

(* The service starts with no schedule, with an active or a paused one.    *)
Init ==
    /\ RunInit
    /\ \/ /\ record = Absent
          /\ jobs = [j \in Jobs |-> Unused]
       \/ \E f \in Frequencies, state \in {"active", "paused"} :
             /\ record = Told(NewRecord(f, 1), 1, state)
             /\ jobs = [j \in Jobs |-> IF j = 1 THEN [state |-> state, frequency |-> f] ELSE Unused]
    /\ script = Live
    /\ route = [c \in Clients |-> NoRoute]
    /\ requests = 0 /\ refusals = 0 /\ doubts = 0 /\ markers = 0

Serve(c) == \/ CreateJob(c) \/ UpdatePauseOld(c) \/ UpdateJob(c) \/ UpdatePauseNew(c)
            \/ UpdateCleansUp(c) \/ SetEnabledCall(c) \/ RunNowCall(c)
            \/ DeleteCall(c) \/ RefreshGet(c) \/ RefreshStore(c)

Ask(c) == Create(c) \/ Update(c) \/ SetEnabled(c) \/ RunNow(c) \/ Delete(c) \/ Refresh(c)

Next == \/ RunStep /\ UNCHANGED routeVars
        \/ \E c \in Clients : Ask(c) \/ Serve(c)
        \/ \E j \in Jobs : Fire(j)
        \/ ServiceCrash

Spec == Init /\ [][Next]_vars

(***************************************************************************)
(* Fairness: the event loop goes on as long as a task can, a service that  *)
(* stopped is started again, and Hermes ends the turns it began (the chat  *)
(* POST has no timeout, so a turn that never ended would hold its slot for *)
(* ever).                                                                  *)
(***************************************************************************)
Fairness ==
    /\ WF_vars((\E k \in Keys : Work(k)) /\ UNCHANGED routeVars)
    /\ WF_vars((\E s \in Sessions : TurnEnds(s)) /\ UNCHANGED routeVars)
    /\ WF_vars(Restart /\ UNCHANGED routeVars)

FairSpec == Spec /\ Fairness

-----------------------------------------------------------------------------
(* Properties. *)

RouteOK == [op : {"create", "update", "pause", "resume", "run", "delete", "refresh"},
            step : {"job", "pauseOld", "pauseNew", "deleteOld", "deleteNew", "resumeOld",
                    "call", "get", "store"},
            frequency : Frequencies, seen : Schedule \cup {Absent}, job : 0..MaxJobs,
            state : {"unused", "active", "paused", "done", "deleted"}, marker : 0..MaxMarkers]

(* The schedule file, the tasks, the sessions and jobs of Hermes and the   *)
(* requests in flight have their types; an attempt is never counted beyond *)
(* the configured maximum (max_attempts).                                  *)
TypeOK ==
    /\ record \in Schedule \cup {Absent}
    /\ runs \in [Keys -> Run \cup {NoRun}]
    /\ gens \in [Keys -> 0..MaxGenerations]
    /\ task \in [Keys -> {Idle} \cup
           [phase : Phases, gen : 0..MaxGenerations, read : 0..MaxAttempts, target : 0..MaxGenerations]]
    /\ hermes \in [Sessions -> [open : BOOLEAN, turns : Nat, busy : BOOLEAN, report : BOOLEAN]]
    /\ period \in 1..MaxPeriods /\ fresh \in BOOLEAN /\ up \in BOOLEAN
    /\ crashes \in 0..MaxCrashes /\ deletions \in 0..MaxDeletions
    /\ jobs \in [Jobs -> Job \cup {Unused}]
    /\ script \in BOOLEAN
    /\ route \in [Clients -> RouteOK \cup {NoRoute}]
    /\ requests \in 0..MaxRequests /\ refusals \in 0..MaxRefusals
    /\ doubts \in Nat /\ markers \in 0..MaxMarkers

(* Repeated callbacks, catch-up firings, retries, crashes and resumption   *)
(* never make Hermes generate one report twice: each session of a run is   *)
(* sent at most one turn ("a repeated ticker or catch-up does not generate *)
(* again", system-overview.md).                                            *)
OneTurnPerSession == \A s \in Sessions : hermes[s].turns <= 1

(* A run is reported as succeeded only when its session holds a report     *)
(* file, not because the model said so (system-overview.md: "success must  *)
(* detect a real artifact").                                               *)
SuccessHasReport ==
    \A k \in Keys : runs[k] # NoRun /\ runs[k].status = "succeeded" =>
        HasReport(<<k, runs[k].gen>>)

(* When no request is in flight, the file and the timer of a recurring     *)
(* schedule agree although a call was refused half way: an enabled         *)
(* schedule has a job that fires, a paused one has none, and no other job  *)
(* is left firing, also when the schedule is gone.  Exempt are a schedule  *)
(* with a call whose outcome the service never learned, and one that was   *)
(* ever one-time: any run that ends while the schedule is one-time         *)
(* disables the record and leaves the job as it is (update_run).  Requests *)
(* that overlap are exempt as well, so it is checked with one client: a    *)
(* refresh writes what it read before another request moved the schedule.  *)
Recurring == \A j \in Jobs : jobs[j].frequency # "once"

JobMatchesRecord ==
    (\A c \in Clients : route[c] = NoRoute) /\ doubts = 0 /\ Recurring =>
        \A j \in Jobs : (jobs[j].state = "active") = (Live /\ record.enabled /\ j = record.job)

(* Every claimed run comes to an end, but for one that a crash interrupted *)
(* in its last attempt: once the callbacks stop, the service gets to a     *)
(* state where no run waits for anything.                                  *)
AtRest(k) == Unfinished(k) => runs[k].attempts >= MaxAttempts /\ task[k] = Idle

RunsSettle == []<>(\A k \in Keys : AtRest(k))
=============================================================================
