---------------------------- MODULE ScheduleRuns ----------------------------
(***************************************************************************)
(* The runs of one scheduled report: how a callback of the timer claims a  *)
(* run in the schedule file (schedule_store.py), and how the runner of the *)
(* service carries a claimed run to its end through capacity, retries,     *)
(* crashes and a restart (ScheduledReportRunner in schedules.py).  The     *)
(* routes that create, move, pause and delete the schedule are added by    *)
(* module Schedules.                                                       *)
(*                                                                         *)
(* A run is identified by its key: the period it reports on (period 0 for  *)
(* a one-time schedule), or the marker of a manual request.  Claiming a    *)
(* key again, after the user deleted the session of its first run, gives   *)
(* the same run id and a new session: sessions are <<key, generation>>.    *)
(*                                                                         *)
(* An operator marked as a mutant is a faulty form of the definition after *)
(* it; no definition uses it.                                              *)
(***************************************************************************)
EXTENDS Integers, FiniteSets

CONSTANTS MaxPeriods, MaxMarkers, MaxGenerations, MaxAttempts, Capacity,
          MaxCrashes, MaxDeletions

ASSUME ScheduleRunsAssumption ==
    /\ MaxPeriods \in Nat \ {0} /\ MaxMarkers \in Nat /\ MaxGenerations \in Nat
    /\ MaxAttempts \in Nat \ {0} /\ Capacity \in Nat \ {0}
    /\ MaxCrashes \in Nat /\ MaxDeletions \in Nat

Frequencies == {"once", "recurring"}
Keys        == ({"scheduled"} \X (0..MaxPeriods)) \cup ({"manual"} \X (1..MaxMarkers))
Generations == 1..MaxGenerations
Sessions    == Keys \X Generations

VARIABLES
    record,     \* the schedule as the file holds it, or Absent
    runs,       \* the run records of the file, by key
    gens,       \* how often each key was claimed
    task,       \* the task of the service that works on a key
    hermes,     \* the sessions on the Hermes node and their report files
    period,     \* the current business day or week
    fresh,      \* the last claim is at most ninety seconds old
    up,         \* the service runs
    crashes, deletions

runVars == <<record, runs, gens, task, hermes, period, fresh, up, crashes, deletions>>

-----------------------------------------------------------------------------
(* The schedule file. *)

Absent  == [frequency |-> "none"]
NoRun   == [status |-> "none"]
NoKey   == <<"none", 0>>
Idle    == [phase |-> "none"]

Schedule == [frequency : Frequencies, enabled : BOOLEAN,
             state : {"scheduled", "paused", "completed", "failed"},
             marker : 0..MaxMarkers, job : Nat, last : Keys \cup {NoKey}]

Run == [status : {"pending", "running", "succeeded", "failed"},
        attempts : 0..MaxAttempts, submitted : BOOLEAN, gen : Generations]

Live == record # Absent

(* claim_run: a marker left by a manual request comes before the period. *)
CallbackKey == IF record.marker # 0 THEN <<"manual", record.marker>>
               ELSE <<"scheduled", IF record.frequency = "once" THEN 0 ELSE period>>

Replayed == fresh /\ record.last # NoKey /\ runs[record.last] # NoRun

NewRun(k) == [status |-> "pending", attempts |-> 0, submitted |-> FALSE, gen |-> gens[k] + 1]

(* A task keeps what it read: the generation of the record, its attempts,  *)
(* and the session that _ensure_session is to open.                        *)
Working(phase, run) ==
    [phase |-> phase, gen |-> run.gen, read |-> run.attempts, target |-> run.gen]

Starting == [phase |-> "start", gen |-> 0, read |-> 0, target |-> 0]

(* spawn does nothing while a task of that name is unfinished. *)
Spawned(ks) == [k \in Keys |->
    IF k \in ks /\ task[k] = Idle THEN Starting ELSE task[k]]

(* One accepted callback.  A callback that finds the schedule missing or   *)
(* disabled, a claim of the last ninety seconds, or the run of its key     *)
(* already there, saves nothing: the marker it cleared in memory stays in  *)
(* the file.                                                               *)
Claim ==
    /\ Live /\ record.enabled
    /\ ~Replayed
    /\ LET k == CallbackKey
       IN  /\ runs[k] = NoRun
           /\ gens[k] < MaxGenerations
           /\ gens' = [gens EXCEPT ![k] = @ + 1]
           /\ runs' = [runs EXCEPT ![k] = NewRun(k)]
           /\ record' = [record EXCEPT !.marker = 0, !.last = k]
           /\ task' = Spawned({k})
    /\ fresh' = TRUE
    /\ UNCHANGED <<hermes, period, up, crashes, deletions>>

(* update_run copies the status into the schedule; a one-time schedule is  *)
(* disabled with its run, and a run whose record is gone changes nothing.  *)
Mirrored(run) ==
    IF Live /\ record.frequency = "once" /\ run.status \in {"succeeded", "failed"}
    THEN [record EXCEPT !.enabled = FALSE,
                        !.state = IF run.status = "succeeded" THEN "completed" ELSE "failed"]
    ELSE record

UpdateRun(k, run) ==
    IF runs[k] = NoRun THEN UNCHANGED <<runs, record>>
    ELSE /\ runs' = [runs EXCEPT ![k] = run]
         /\ record' = Mirrored(run)

Unfinished(k) == runs[k] # NoRun /\ runs[k].status \in {"pending", "running"}

Resumable == {k \in Keys : Unfinished(k) /\ runs[k].attempts < MaxAttempts}

-----------------------------------------------------------------------------
(* The runner.  A task remembers the session of the record it read first.  *)

Phases == {"none", "start", "slot", "session", "post", "chat", "sleep", "closing", "ending"}

Own(k) == <<k, task[k].gen>>

Goes(k, phase) == task' = [task EXCEPT ![k] = IF phase = "none" THEN Idle ELSE [@ EXCEPT !.phase = phase]]

HoldsSlot(k) == task[k].phase \in {"session", "post", "chat"}

FreeSlot == Cardinality({k \in Keys : HoldsSlot(k)}) < Capacity

(* Only a report file in the session counts as a result. *)
HasReport(s) == hermes[s].report

TrustsText(k) == TRUE                               (* mutant *)
Reported(k) == HasReport(Own(k))

(* _run reads the record: a finished one is left alone, one whose turn was *)
(* submitted before a restart is settled by its report file and never sent *)
(* again, any other one waits for a slot of the agent.                     *)
ForgetsSent(run) == FALSE                           (* mutant *)
Sent(run) == run.status = "running" /\ run.submitted

SpentEarly(run) == run.attempts + 1 >= MaxAttempts  (* mutant *)
Spent(run) == run.attempts >= MaxAttempts

Begins(k, phase) == task' = [task EXCEPT ![k] = Working(phase, runs[k])]

Start(k) ==
    /\ up /\ task[k].phase = "start"
    /\ LET run == runs[k]
           known == HasReport(<<k, run.gen>>)
       IN  IF run = NoRun \/ run.status = "succeeded"
           THEN Goes(k, "none") /\ UNCHANGED <<runs, record>>
           ELSE IF Sent(run) /\ ~known
           THEN Goes(k, "none") /\ UpdateRun(k, [run EXCEPT !.status = "failed"])
           ELSE /\ UNCHANGED <<runs, record>>
                /\ IF Sent(run) THEN Begins(k, "closing")
                   ELSE IF Spent(run) THEN Goes(k, "none")
                   ELSE Begins(k, "slot")
    /\ UNCHANGED <<gens, hermes, period, fresh, up, crashes, deletions>>

(* With a slot, the attempt is counted before anything is sent.  The count *)
(* is the one _run read plus one.                                          *)
TakeSlot(k) ==
    /\ up /\ task[k].phase = "slot" /\ FreeSlot
    /\ task' = [task EXCEPT ![k] = IF runs[k] = NoRun THEN Idle
                   ELSE [@ EXCEPT !.phase = "session", !.target = runs[k].gen]]
    /\ UpdateRun(k, [runs[k] EXCEPT !.status = "running", !.attempts = task[k].read + 1])
    /\ UNCHANGED <<gens, hermes, period, fresh, up, crashes, deletions>>

(* An attempt failed.  Only a refusal that certainly left nothing behind   *)
(* is tried again, after a pause.                                          *)
Retries(k, safe) == safe /\ runs[k] # NoRun /\ runs[k].attempts < MaxAttempts

AttemptFails(k, safe) ==
    /\ UpdateRun(k, [runs[k] EXCEPT !.status = "failed"])
    /\ Goes(k, IF Retries(k, safe) THEN "sleep" ELSE "ending")

(* _ensure_session opens the session of the record that update_run just    *)
(* returned; a report left by an earlier attempt makes the turn needless.  *)
EnsureSession(k) ==
    /\ up /\ task[k].phase = "session"
    /\ \/ /\ hermes' = [hermes EXCEPT ![<<k, task[k].target>>].open = TRUE]
          /\ IF Reported(k)
             THEN Goes(k, "closing") /\ UNCHANGED <<runs, record>>
             ELSE Goes(k, "post") /\ UpdateRun(k, [runs[k] EXCEPT !.submitted = TRUE])
       \/ \E safe \in BOOLEAN : AttemptFails(k, safe) /\ UNCHANGED hermes
    /\ UNCHANGED <<gens, period, fresh, up, crashes, deletions>>

(* The chat POST: no connection, a session that is gone, or a turn.        *)
Submit(k) ==
    /\ up /\ task[k].phase = "post"
    /\ \/ AttemptFails(k, TRUE) /\ UNCHANGED hermes
       \/ ~hermes[Own(k)].open /\ AttemptFails(k, FALSE) /\ UNCHANGED hermes
       \/ /\ hermes[Own(k)].open
          /\ hermes' = [hermes EXCEPT ![Own(k)].turns = @ + 1, ![Own(k)].busy = TRUE]
          /\ Goes(k, "chat")
          /\ UNCHANGED <<runs, record>>
    /\ UNCHANGED <<gens, period, fresh, up, crashes, deletions>>

(* Hermes ends a turn, with a report file or without.                      *)
TurnEnds(s) ==
    /\ hermes[s].busy
    /\ \E r \in BOOLEAN :
           hermes' = [hermes EXCEPT ![s].busy = FALSE, ![s].report = @ \/ r]
    /\ UNCHANGED <<record, runs, gens, task, period, fresh, up, crashes, deletions>>

(* The answer of the turn arrives and the report file decides; or the      *)
(* connection is lost while the turn goes on, which is no safe failure.    *)
Answered(k) ==
    /\ up /\ task[k].phase = "chat" /\ ~hermes[Own(k)].busy
    /\ IF Reported(k)
       THEN Goes(k, "closing") /\ UNCHANGED <<runs, record>>
       ELSE AttemptFails(k, FALSE)
    /\ UNCHANGED <<gens, hermes, period, fresh, up, crashes, deletions>>

Disconnected(k) ==
    /\ up /\ task[k].phase = "chat"
    /\ AttemptFails(k, FALSE)
    /\ UNCHANGED <<gens, hermes, period, fresh, up, crashes, deletions>>

(* The pause is over: the record is pending again and _run starts anew.    *)
Retry(k) ==
    /\ up /\ task[k].phase = "sleep"
    /\ UpdateRun(k, [runs[k] EXCEPT !.status = "pending", !.submitted = FALSE])
    /\ IF runs[k] = NoRun THEN Goes(k, "none") ELSE Begins(k, "slot")
    /\ UNCHANGED <<gens, hermes, period, fresh, up, crashes, deletions>>

(* The session is closed, whether that works or not, before the record     *)
(* says that the run succeeded; after a failure nothing else is written.   *)
Succeed(k) ==
    /\ up /\ task[k].phase = "closing"
    /\ UpdateRun(k, [runs[k] EXCEPT !.status = "succeeded"])
    /\ Goes(k, "none")
    /\ UNCHANGED <<gens, hermes, period, fresh, up, crashes, deletions>>

EndFailed(k) ==
    /\ up /\ task[k].phase = "ending"
    /\ Goes(k, "none")
    /\ UNCHANGED <<record, runs, gens, hermes, period, fresh, up, crashes, deletions>>

-----------------------------------------------------------------------------
(* Around the runner. *)

(* The user deletes the session of a run: delete_session does not ask      *)
(* whether a task still works on it.                                       *)
DeleteSession(k) ==
    /\ up /\ deletions < MaxDeletions
    /\ runs[k] # NoRun /\ hermes[<<k, runs[k].gen>>].open
    /\ runs' = [runs EXCEPT ![k] = NoRun]
    /\ hermes' = [hermes EXCEPT ![<<k, runs[k].gen>>].open = FALSE,
                                ![<<k, runs[k].gen>>].report = FALSE]
    /\ deletions' = deletions + 1
    /\ UNCHANGED <<record, gens, task, period, fresh, up, crashes>>

(* More than ninety seconds pass, within the period or into the next one.  *)
TimePasses ==
    /\ fresh' = FALSE
    /\ period' \in {period, period + 1} \cap 1..MaxPeriods
    /\ UNCHANGED <<record, runs, gens, task, hermes, up, crashes, deletions>>

(* A crash, or shutdown, which cancels the tasks where they wait.          *)
Crash ==
    /\ up /\ crashes < MaxCrashes
    /\ up' = FALSE
    /\ task' = [k \in Keys |-> Idle]
    /\ crashes' = crashes + 1
    /\ UNCHANGED <<record, runs, gens, hermes, period, fresh, deletions>>

Restart ==
    /\ ~up
    /\ up' = TRUE
    /\ task' = Spawned(Resumable)
    /\ UNCHANGED <<record, runs, gens, hermes, period, fresh, crashes, deletions>>

RunInit ==
    /\ runs = [k \in Keys |-> NoRun]
    /\ gens = [k \in Keys |-> 0]
    /\ task = [k \in Keys |-> Idle]
    /\ hermes = [s \in Sessions |-> [open |-> FALSE, turns |-> 0, busy |-> FALSE, report |-> FALSE]]
    /\ period = 1
    /\ fresh = FALSE
    /\ up = TRUE
    /\ crashes = 0 /\ deletions = 0

Work(k) == \/ Start(k) \/ TakeSlot(k) \/ EnsureSession(k) \/ Submit(k) \/ Answered(k)
           \/ Disconnected(k) \/ Retry(k) \/ Succeed(k) \/ EndFailed(k)

RunStep ==
    \/ \E k \in Keys : Work(k) \/ DeleteSession(k)
    \/ \E s \in Sessions : TurnEnds(s)
    \/ TimePasses \/ Restart
=============================================================================
