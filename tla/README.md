# A formal model of xpd-report-agent

TLA+ modules, TLC configurations and TLAPS proofs about the control of
xpd-report-agent: what the service does when clients repeat requests, when
responses are lost, when the process dies between two writes, and when several
requests share a session.  Paths below are relative to the repository;
`sessions.py` and the like stand under `src/xpd_report_agent/api/` unless a
longer path is given.

`PROJECT.json` maps every definition to the lines it models and lists the runs,
the mutants (one per property and run: a plausible bug that TLC must find), the
hazards with the properties that watch them, the theorems and the findings.

## 1. The system

One FastAPI process (a single replica, `deploy/kubernetes/workloads.yaml:10-14`,
strategy Recreate) stands between a business middle platform and several Hermes
nodes, which run the language-model agent and its database tools.  The process
is one asyncio event loop; code between two `await`s is atomic with respect to
other tasks, not with respect to a crash.  Everything durable is a JSON document
on a shared volume, replaced atomically under a process lock and a file lock.
What is in memory (tasks, claims, event logs, limiters) is lost in a restart.

| Component | State | Operations | Interacts with | What is hard |
|---|---|---|---|---|
| Durable run store (`agent_runs.py`) | `agent-runs.json`: status, attempts, retry epoch, submission mark, baselines, receipts, clarification, error, result of each run | create_or_get, claim_pending, mark_*, set_upstream_submission_started, resume_with_input, retry, list_resumable, housekeeping | executor, run handlers | each transaction is atomic, a sequence of them is not |
| Run executor (`sessions.py`) | one task per run in `_AGENT_RUN_TASKS`; file claims of the run and of its session; a capacity slot | spawn, wait for the claims, reconcile, attempt, persist, fail or retry, resume at startup | store, Hermes, limiter, event log | a lost response of a non-idempotent POST; a crash between writes; a baseline read before somebody else's messages |
| Run submission and answers (`sessions.py`) | none of its own | POST /runs, POST /runs/{id}/input | store, Hermes, executor | awaits between the reading of a baseline and its use; repeats and races |
| Run event stream (`sessions.py`) | `_RUN_STREAMS`: 512 logs of at most 2000 events, sequence numbers, deduplication keys, a condition per log | publish, read from a cursor, keep-alive, end on a terminal event | executor, readers | attempts, eviction, restarts, a terminal state with no event |
| Private protocol filter (`sessions.py:690-775`) | tail buffer, inside-envelope flag | feed, finish | executor, chat relay | a marker split over chunks |
| Session chat (`sessions.py`) | session claim, slot | POST /chat, /chat/stream | Hermes, limiter | client disconnects |
| Session close, delete, idle sweep (`sessions.py`) | Hermes `ended_at`, artifacts | close, delete, sweep | reflections, artifacts | racing a run |
| Agent capacity (`agent_capacity.py`) | active and waiting counts, limit | acquire, release | chats, runs, reflections | cancellation while waiting |
| Hermes pool and sticky routes (`hermes_pool.py`, `hermes_routing.py`) | node list, health, `routes.json` binding owner scopes and sessions to nodes | choose, bind, rebind, probe | every Hermes call | a stale load snapshot, concurrent first requests, a dead node |
| Reflection queue (`reflections.py`) | durable jobs and their retry flags | enqueue, run, resume, retry, purge | session close, Hermes | crash in a job, retry while running |
| Memory consolidation (`memory_consolidation.py`, `memory_governance.py`) | one task and a cool-down per scope | schedule, consolidate, retry | reflections, memory files | repeated failures, changes while it runs |
| Scheduled reports (`schedule_store.py`, `schedules.py`) | schedules, their runs, manual markers | cron callback, run now, retry, resume | run executor, cron of Hermes | the claim of a period, crash in the last attempt |
| Clarification registry (`runtime/hermes_clarify.py`) | pending questions of waiting threads | ask, answer, expire | Hermes gateway threads | an answer racing a time limit |
| Query results (`hermes_plugin/db_query/query_results.py`) | registry with quotas per session and in bytes | put, get, page, expire | database tools, export | eviction for two quotas |
| Report export and artifacts (`report_export.py`, `report_oss.py`, `artifact_store.py`) | artifact files, storage lock, OSS objects | export, upload, download, delete, quota | tools, API | a crash between file and upload |
| MySQL reads (`db.py`) | connection, schema cache | query, retry, refresh | database | which errors may be retried |
| Launcher (`runtime/launcher.py`) | child processes | start, wait, stop | gateway, API | a child that dies first |
| Discovery, authentication, presets, prompts, metrics, SQL guard, page | none or pure functions | | | |

What makes each component correct, and so what the modules state:

* **Runs**: a question is executed at most once between two answers of its
  user; a result reported is that of the question; the error flag that invites
  a retry is true only when nothing was executed; every run settles.
* **Event stream**: identifiers grow, an event is published once, a reader that
  keeps reading sees the terminal event of the run, a resumed cursor skips
  nothing that is still kept.
* **Relayed text**: private envelopes are never shown and prose never withheld,
  an answer was confirmed, frames are whole, a new report file is told once.
* **Routes**: an owner is served by one node, which has the history of its
  sessions; a binding moves only when that node is gone, and once; a call that may
  have been done is not repeated.
* **Limiter**: the number of active turns never exceeds the limit; a cancelled
  waiter leaves no trace and loses nobody's permit.
* **Reflections, schedules, consolidation**: a job is executed by one task at a
  time, is not lost in a restart, and stops after its attempts; a schedule and its
  timer job agree.
* **Registries and storage**: quotas are never exceeded; an accepted answer is used;
  a reported export can be had; every tool call returns.

## 2. The modules

| Module | What it is |
|---|---|
| `AgentRunStore` | each transaction of `agent_runs.py` as an operator from the old record to the new one |
| `AgentRuns` | the executor, the two HTTP handlers, the interactive chat that competes for sessions and slots, Hermes, crashes and refused writes; all properties of runs |
| `RunLifecycle` | the abstract specification: what a run promises the client that submitted it |
| `MCAgentRuns` | constants for TLC |
| `RunStream` | the bounded event log of each run, what the executor and the handlers publish, and the connections that follow a run |
| `MCRunStream` | constants for TLC |
| `MemoryJobs` | the queue of final reflections with the routes that fill it, its executor, and the consolidation of the memory it writes |
| `MCMemoryJobs` | constants for TLC |
| `ScheduleRuns` | the schedule file, the claim of a run by a callback, and the runner |
| `Schedules` | the routes of schedules with their calls to the timer, composed with `ScheduleRuns` |
| `HermesRoutes` | discovery, the durable bindings, and the resolution and repetition of a call |
| `AgentCapacity` | the limiter: waiting in order, the hand-over of a permit, cancellation |
| `ChatTurns` | the two chat routes, composed of the two modules above |
| `PrivateText` | the filter of private envelopes, and a reference definition of what is public |
| `HermesStream` | the stream of a turn and its two readers, a run and a chat |
| `ToolTurns`, `Clarifications`, `QueryResults`, `ReportFiles` | the turns of one Hermes process; its questions; its queries and their results; its report files |
| `ReportTools` | the composition of these four: tools of concurrent turns, users, time and crashes |
| `MCSchedules`, `MCRouting`, `MCHermesStream`, `MCReportTools` | constants for TLC |
| `AgentRunsProofs` | type correctness of `AgentRuns`, the claims of sessions and the slots in use, the invariant of the record and the task with four safety and two action properties from it, and at most one execution per leg |
| `AgentRunsLegs` | what a leg asks and reports: answers, outcomes, and the refinement of `RunLifecycle` |
| `ChatTurnsProofs` | the invariants of routing, of calls, and of the claims and permits of chats |
| `SchedulesProofs` | the invariants of scheduled runs and of schedules with their timer jobs |
| `MemoryJobsProofs` | the invariant of reflections, and that a session is reflected on once |
| `ReportToolsProofs` | the invariants of questions, results and files, and all four safety properties of tools |
| `RunStreamProofs` | the invariants of event logs and connections, and all five safety properties of streams |
| `HermesStreamProofs` | the filter against its reference, frames that are cut anywhere, and all four safety properties of the two readers |

A definition marked `(* mutant *)` is a faulty form of the one after it, kept next to it
so that both are read together; no specification uses it.

### How AgentRuns corresponds to the code

`runs[r]` is the record in `agent-runs.json`.  A *leg* is the part of a run
between two answers of its user; `epoch` is the attempt count at its start
(`retry_epoch_attempt`), `RetryAttempts` the attempts of the current leg.
`pc[r]` is where the task of the run is:

| `pc` | code |
|---|---|
| `queued` | the polling loop of `_execute_agent_run` for the run and session file claims |
| `reconcile` | `_inspect_agent_run` before a retry or after a restart |
| `slot` | waiting for the capacity limiter, then `claim_pending` |
| `prepare`, `open` | reading the session, setting its title, writing the submission mark |
| `submit`, `stream` | the POST of the turn and the draining of its response |
| `result` | reading the messages and persisting the outcome |
| `except` | the handler that inspects Hermes once more, with the error in `exc[r]` |
| `clearing`, `requeueing` | between the durable writes of `_fail_or_retry_agent_run` |
| `backoff` | the sleep before the next attempt |

An action is the code between two awaits.  Where such a stretch makes more than
one durable write, each write is an action of its own, so that a crash or a
refused write can fall between them, and `InSync` keeps every other task of the
event loop out.  `posting[r]` and `answering[q]` are HTTP requests in flight, with
what they read before an await and use after it.

Errors are the two flags the control reads: `retryable` and `outcome_unknown`
(`MayRetry` is retryable and not unknown).  `Transient`, `Rejected`, `Internal`
and `LostPost` are the combinations the code builds.

Hermes is external and modelled from how it is used: it accepts a POST as a
turn, records messages for it, and ends it with an answer or a question, or
drops it; the loss of the connection changes none of this.  The executor
recognises a turn only by counting messages (`baseline`) and by the files that
are new, as the code does.  `accepted` is a history variable: the attempts whose
POST Hermes accepted; no guard reads it.

Left out of the record are timestamps, the request text (a run id is the digest
of owner, session and key, so a repeated request is the same run or a 409) and
the wording of errors.  A clarification is named by the attempt and the turn it
came from, the data of its digest.

`SerialClients` says whether clients follow the rule of
`docs/api/middle-platform-agent-api.md:304` (one analysis of a session at a time).
It restricts only when a new run or a different answer may be submitted; repeats
of the same request are always possible.

### How RunStream corresponds to the code

`log[r]` is the list of events of one entry of `_RUN_STREAMS`, `kept` the order in
which the entries were made (the code evicts the oldest), `nextId` the process-wide
counter.  `Publish` is `_publish_agent_run_event` with its deduplication key, its
trimming to `EventLimit` and its eviction at `RunLimit`; it takes all that one
stretch between two awaits publishes, because nothing can see the log in between.
An event carries what the control looks at: its kind, its attempt, the piece of
text or the outcome it tells, and its key.

`run[r]` is the part of the record that the stream shows.  It moves as `AgentRuns`
lets it move; a settled run publishes nothing, and the connection that reads it
projects it into the log (`Poll`, `_materialize_agent_run_stream_events`).  A
failure may leave retries to the client (`retryable`); whether a run that its client
retried may fail before its next attempt starts is the constant `EarlyFailures`:
in the code it may, with the consequence described under Findings.

`conn[c]` is one connection: `Connect` computes its cursor from `Last-Event-ID` and
decides whether deltas are replayed, `Poll` is one round of `events()` up to its
first `yield`, `Send` is one `yield`, `EndRound` the decision to return or sleep,
`PollFails` the notice of an unreadable state file, `Disconnect` the end of the
request.  `last`, `text` and `told` are what a client received; a client that
reconnects sends `last` as its `Last-Event-ID`.  `Crash` is a crash and a restart:
logs and connections are lost, records are kept, and ids stay above all earlier
ones because the counter starts from the clock.

Events of tools, artifacts and the progress of a result are left out: they are
published and sent like the pieces of an answer, and no property tells them apart.

### How MemoryJobs corresponds to the code

`jobs[j]` is the record of a job in `reflections.json`, named by its session and its
turn count (`idempotency_key`).  `task[j].at` is where `ReflectionQueue._run` is:
`waiting` for a slot, `preparing` (the messages are read and a temporary session
opened), `asking` and `answering` (the POST of the turn before and after Hermes accepted
it), `deleting` (the temporary session), `backoff`.  The slot is held from
`preparing` to `deleting`.  What an executor raises is the pair of flags that
`_retry_flags` reads.  Each access to the file is one action with what follows up to the
next await; its form ending in `Unread` is what the code does when `_load` returns an
empty document because the file cannot be read.

`requests` holds the closings and deletions of sessions between what Hermes did and
what the queue does; a crash loses them.  `Close` is the route, `IdleClose` the
sweeper; `TurnEnd` is where they differ.  `cons[s]` is the consolidation task of
an owner, `cooling` the owners whose `_retry_after` lies ahead.  `memory[s]` is the set of
entries: a reflection turn adds at most one, unless the memory is critical, and a
consolidation turn keeps any part.  Turns go on in Hermes when the response is lost or
the service stops.  `executed` is a history variable.

The backups of memory files, the two files of one owner, and the deletion of the
temporary session of a consolidation are left out.  Chats and runs start
consolidations too (`Sweep` stands for all such starts); the slots they take are in
`AgentRuns`.

### How Schedules corresponds to the code

`record` is the schedule in `schedules.json` and `runs` the runs by *key*, the period they
report on or the marker of a manual request.  Claiming a key again after its session was
deleted makes the same run id with a new session, hence generations.  `task[k].phase` is
where `ScheduledReportRunner._run` is; the session it works in is that of the record it read
first, the one it opens that of the record it read last.  The three updates of an attempt
that may be retried (failed, the pause of two seconds, pending) are separate, so that a
crash can fall between them.  A route is the sequence of its calls to Hermes
(`route[c].step`); each call is done, refused, or done with its answer lost, and what the
code does after each of the three, rollback included, is in the action of that call.
`doubts` counts the calls of unknown outcome.  The timer is external: a job that is
active may fire at any moment, a one-time job once.  `fresh` stands for the ninety
seconds in which a callback is taken for a repetition.

### How routing corresponds to the code

A request awaits only while the nodes are fetched and probed, so `HermesRoutes`
has a step for the code before, between and after these: `Discover`, `Fetch`, `Probe`.
`fetching` is the lock of the discovery cache.  `Route` follows `resolve_hermes_node`:
configuration, scheduler calls, pools with one node, bound and unbound owners.
`scopes` and `sessions` are the two maps of `routes.json`; each change of both is one transaction
under the lock of the store.  `Sent` and `Refused` are the outcomes of a call: no
connection, an answer, or an error after which nobody knows whether it was done (`done` counts
how often it was).  `mode` is the deployment: static nodes, discovery, or discovery
with rebinding, and `floor` the number of nodes that are ready at any time.  `reached` is
history: the nodes that owners who are not moved were sent to.

`AgentCapacity` has a place for each turn: out, waiting in the order of arrival, woken, or in.
A permit handed to a waiter that is cancelled goes to the next one.  In
`ChatTurns`, `turn[r].stage` is where a handler awaits.  Every way out of a handler,
the failing ones and the client that leaves included, is an action or a disjunct of one.

### How HermesStream corresponds to the code

The stream is a sequence of frames of three parts (event, data, blank line), which arrive
in chunks of any size and may end anywhere.  A frame carries the number of parts that were sent before it
(`before`; `sent` is their number so far), which no handler looks at: it is what `FramesPassedOn` reads order and loss from.  `Split` is `_split_complete_sse_events`.  For a
run, `answer` and `filter` are the locals of the reader; `Settles` is what it does at
the end of the stream.  For a chat, `PassesOn` is one `yield` and `LooksForFiles` one call of
`_new_artifact_ready_events`, which may fail; the files that one call finds are told in any order.

In `PrivateText`, `sift` is the loop of `feed` as a recursive function: `Pass` is a turn that finds
a marker, opening or closing, and `Rest` the last one, which keeps what may become a marker.  A text is any
sequence of `Characters` and a marker any text that is not empty.  `BlocksAssumption` is all that is assumed
of them: an opening marker does not hold another one, as `<XPD_ANALYSIS_JSON>` and
`<XPD_CLARIFICATION_REQUEST>` do not (`structured_analysis.py:8-11`); `_longest_private_marker_prefix`
and the search for the first marker would otherwise depend on how the text is cut.  In the runs a marker is one `<`
and a letter, as what matters is that they begin alike and may be split.  `Public` is the
reference: the text outside the envelopes, read character by character (`reading`).

### How ReportTools corresponds to the code

`agent[t]` is the thread of an agent, which uses one tool at a time.
`Clarifications`: every operation of the registry is one step under its lock; between the
end of `Event.wait` and the lock (`awake`) an answer may still win.  `time` is the clock against
`expires_at`, with the moment at which both are due.
`QueryResults`: a result is stamped before the lock is taken, so stamps may come out of order;
`MakeRoom` and `Prune` are the loops that drop the oldest.  `ReportFiles`: writing under the
storage lock (clean up, check the limits, write) is one step, the upload and the record of it
two more, each of which may fail with or without its effect; the deletion by the service
takes no lock and falls between any of them.  A crash clears the registries and
cuts off exports.

## 3. The runs

| Run | Question | Instance |
|---|---|---|
| `SerialRuns` | what does a record promise wherever the service stops, does a run report only what it was answered itself, and does the whole implement `RunLifecycle`? | two runs of one session used for one thing at a time, one answer, 2 attempts, 1 crash, 1 refused write, 1 close |
| `RacingAnswers` | what if answers race and repeat, and a chat competes for session and slot? | one run, two keys, three requests, 1 attempt per leg, 1 crash, 1 chat, two sessions, one slot |
| `TwoRuns` | do runs of one session take turns, and do both come to rest? | two runs, one session, 2 attempts, 1 crash, fairness |
| `RepeatedExecution` | the documented promise of one execution, with chats | violated: finding 1 |
| `Stream` | is a client that reconnects told every outcome once, and no text twice, and does its stream end? | one client, 3 connections, 2 attempts, 2 outcomes, answers of 2 pieces, fairness |
| `StreamLoss` | do logs and ids stay in order when logs are trimmed, evicted or lost? | two runs, logs of 2 events and of 1 run, 1 crash, 1 unreadable state file |
| `StreamText` | is just the public text shown, an answer confirmed, every frame whole and every file told, wherever the stream is cut? | two envelopes, texts of 6 characters in pieces of at most 2, 3 frames, 2 files, 1 failed lookup |
| `MemoryWrites` | is a session reflected on once, does every job settle, is a full memory attended to? | one session, one owner, one slot, 2 attempts, 2 crashes, 1 unreadable file, 1 retry by a client, fairness |
| `Schedules` | is a report generated once, does success mean a file, do file and timer agree, does every run settle? | one schedule, one client with 1 request, 1 period and 1 manual marker, 2 attempts, 2 timer jobs, 1 refused call, 1 lost answer, 1 crash, 1 deletion, fairness |
| `Routing` | do races, failures and cancellation keep owners at home, calls honest and slots accounted for? | three nodes in three deployments, one owner with two sessions, two handlers, 1 slot, 2 changes of the nodes |
| `RoutedAway` | the documented promise that an owner is not sent elsewhere | violated: finding 2 |
| `ReportTools` | is an accepted answer used, do limits hold, is an export whole, does every call return? | two turns of one session and one of another, files of a third, eight workloads of up to 4 queries, 2 questions, 2 exports, 2 ticks and 1 crash, uploads, fairness |

The bounds of `AgentRuns` are `MaxAttempts` (the code allows 1 to 3: `SerialRuns` and
`TwoRuns` take 2, the smallest with a retry, `RacingAnswers` 1, because each leg gets
its own attempts and the races are between legs), and the numbers of crashes,
refused writes, chats and closed sessions.  They are enough for what the hazards
need: the longest counterexamples of the mutants use one crash or one refused
write between two writes, followed by one repeated request or one restart.
The invariants that `SerialRuns` checks with one crash are proved for any number of them
(section 4).  One session suffices where runs compete, two where the slot is shared.

In `SerialRuns` the clients do what the documents ask for (`SerialClients`): a run is submitted,
answered or repeated when nobody else is at work in its session (`FreeFor`), and a
failed run is repeated as long as it is the last thing the session was used for (`Undisturbed`).
A session goes on with new keys: the second run may follow the first whatever
became of it, and the first may be repeated before.  `AtMostOncePerLeg` and the rest of the run need
neither condition where there is no chat; `OutcomeOfOwnLeg` needs both, as the table in section 5 shows.
The run has no chat, a chat after or before a run being left to the theorems.

The bounds of `RunStream` are the pieces of an answer, attempts, outcomes,
connections, crashes and unreadable reads.  Two pieces and a corrected text reach
every case of the comparison with the streamed prefix; two outcomes reach a
question and an error after it, or a failure, its retry and a result; three
connections a client that resumes twice.  In `StreamLoss` the limits of 2000
events and 512 logs are 2 and 1, so that trimming and eviction happen in every
behaviour of interest.  `Stream` keeps the log (no crash, limits that are not
reached) and takes `EarlyFailures` as false: with a loss or with such a failure its
properties are false, as described under Findings.

In `StreamText`, six characters hold an envelope with text on one side of it, or an
opening marker cut in two with prose that begins like one on both sides.

In `MemoryWrites` the trigger is one entry and the critical level two, so that one
reflection makes a consolidation necessary and the two compete for the only slot;
turns and half messages agree, and clients retry only what is said to be retryable
(`CarefulClients`).  Without either the first property is false.

In `Schedules` two timer jobs are enough for one move of a schedule; one request,
refusal and lost answer put each failure at each call of each route.  `MaxGenerations`
is 1: a key that is claimed again is left to Findings.

In `Routing`, two requests suffice for a race of bindings, and three nodes so that one of them
may vanish between discovery and probe while two remain.  `Sticky` keeps two nodes
ready; finding 2 is what happens with one.  Requests, sessions and the nodes other than
the leader are interchangeable (`Alike`), and the run has no liveness property.

In `ReportTools` each of the limits is reached.  The registry keeps 3 results and 4 bytes, and 2 results
of a session, of which none is larger than 2 bytes: two results in each of two sessions meet the limit on
all results, three in one session that of a session, two large ones and a small one that on bytes, and a
result of 3 bytes is refused.  The storage keeps 2 files, 1 of a session:
two files of other sessions that were kept from before (`Earlier`), one of them of a session without a turn, put the third
over the limit on all files, and a second file of one session is over that of a session.  Without any one of
the limits on a session or on the whole `WithinLimits` is violated.  `Workloads` bounds what
happens together: not every mix of calls, ticks and a crash, but each kind with those it
shares state with, as listed in `MCReportTools`.

`CHECK_DEADLOCK` is off where a settled system with no crash, request or connection
left has nothing to do.  `Routing` can always go on.

The deepest properties:

* `AtMostOncePerLeg`: retries, crashes, lost responses and repeats never make
  Hermes accept two POSTs of one leg.
* `ExecutionIsRecorded`: once a turn was accepted the record says so wherever
  the service stops, so that no later step takes it for unsent.
* `ImplementsLifecycle`: in every state the client may trust the error flag.
* `OutcomeOfOwnLeg`: the answer, files or question reported come from the leg just
  executed, and not from another run of the session.
* `OneAnswerPerQuestion`, `WaitingIsDormant`: a question is answered once,
  and nothing but an answer wakes a waiting run.
* `SessionExclusive`: a session has one turn, and the slots in use are those of running turns.
* `EveryRunSettles`: the tasks of runs always finish, and no run is left without one.
* `EndsTold`, `OutcomeIsCurrent`: across reconnections a client misses no outcome
  at which its stream was ended and is told none that was superseded while the
  server was sending.
* `NoPieceTwice`: what was streamed live and what the projection of the settled
  record adds make up the answer, in order, for a client that joins anywhere.
* `IdsIncrease`: the last id a client received is always the place to resume from.
* `ShownIsPublic`: the incremental filter shows what the reference definition calls public,
  and holds back no more than may become a marker.
* `FramesPassedOn`: wherever the stream is cut, a chat passes on what Hermes sent, in order and
  complete: each part of a frame after just the parts sent before it, no event inside a frame, and
  nothing missing when it ends without a notice.
* `AnswerIsConfirmed`, `FilesAreTold`: what a stream that is cut anywhere leaves with its two readers.
* `ReflectedOnce`: lost answers, retries, repeated closings, deletions and restarts
  never make Hermes reflect on a session twice, as long as the queue can read its file.
* `JobsSettle`: every scheduled reflection comes to an outcome.
* `OneTurnPerSession`, `SuccessHasReport`: callbacks, catch-up, retries and restarts never
  generate a report twice, and a success has its file.
* `JobMatchesRecord`: a call refused half way through a route leaves no timer job that fires
  for nobody and no enabled schedule without one.
* `OneHomePerOwner`, `SessionsFollowScope`, `MovesOnlyFromMissing`: racing first requests,
  vanishing nodes and deletions keep the sessions of an owner together and at home.
* `CallsAreHonest`: a change is done once at most, and an error that invites a repetition
  with a known outcome repeats nothing.
* `NothingLeaks`: a claim or a slot never survives its handler, however that ended.
* `AnswersAreUsed`, `CallsReturn`: answers race time limits, closing streams and new turns.
* `WithinLimits`, `OldestLeaveFirst`, `ExportsAreWhole`: quotas, eviction, and what
  failures between file, bucket and record leave behind.

Each module also defines a type invariant; the run `SerialRuns` checks that of `AgentRuns`, which a
theorem states, and those of the other modules hold in the same instances and are not repeated.

### Fairness

In `TwoRuns` (`FairSpec` of `AgentRuns`) a task that can run does
(asyncio schedules every ready task, and polling loops and time limits bound
every wait), a client's request that began its two writes finishes them, a chat
ends (its HTTP request has an end, by completion, error or disconnect), and a
crashed service is restarted by Kubernetes.  These are weak fairness.
`SF_vars(Reconciles(r))` is strong: a read of Hermes may fail again and again,
but a run that keeps reaching its reconciliation is at some time able to read.
It is needed: a failed reconciliation read requeues the run without counting an
attempt, so a Hermes that never answers reads keeps a run unfinished for ever.
Nothing is assumed of Hermes finishing a turn: the stream has a time limit.

In `Stream` (`FairSpec` of `RunStream`) each connection that can go on does: the event
loop resumes the generator of every open response.  Clients, Hermes and runs are
under no fairness; `StreamsEnd` is about a run that stays settled.

In `MemoryWrites` tasks and timers are weakly fair, and taking a slot is strongly fair:
`asyncio.Semaphore` serves its waiters in order, so nobody is passed over for ever.
The sweeper, the cool-down and the restart are timers; Hermes, clients and deletions
are under no fairness.  The sweeper finds owners only where identities are user ids.

In `Schedules` a task that can go on does, the service is restarted, and Hermes ends the
turns it began: the chat POST of the runner has no time limit, so a turn that never ended
would hold its slot for ever.  The timer, clients and deletions are under no fairness.
In `ReportTools` the threads of agents run, databases and buckets answer or time out, and the
clock of a question goes on; users do nothing they must.  `Routing`
and `StreamText` check safety only.

## 4. The proofs

All theorems hold for every value of the constants: sets of runs, sessions, keys,
requests, nodes, owners and turns, the maps between them, and every bound.  The named
`ASSUME`s of the modules are the only assumptions (limits are positive, model values that
stand for nothing are distinct, the maps are functions), but where a theorem says more.

* `TypeCorrect` (`AgentRunsProofs`): `Spec => []TypeOK`, with one lemma per group of
  transactions that says what it makes of a record.
* `AttemptBudget`, `PendingNotSubmitted`, `WorkerOwnsRun`,
  `RetriesAreClean` (`AgentRunsProofs`).  None of them is inductive by itself.  The invariant `AllGood`
  is a conjunction over runs of `Good`, which relates a record to its task
  and its POST /runs request: a task in a location may rely on the status
  of its record because no handler moves a record that a task owns, and the
  two writers of a retry exclude each other.  Most actions touch one run, so the
  step lemma is proved for one run and extended to all.
  From the same invariant follows which records a step may change at all (`Allowed`): those a
  task works on, those that may be retried, those not there yet and, by an accepted answer, those
  that wait; `TerminalIsFinal` and `WaitingIsDormant` are two readings of it.
* `SessionExclusive` (`AgentRunsProofs`).  The invariant `ExclusiveInv` says of any two runs, and
  of a run and a chat, that they do not claim one session, and that the places with a slot are finitely
  many and within `Capacity`, whatever the number of runs.  Every step of a task is one of three
  moves (`Moves`): it gives its session up, it keeps it and takes a slot only if one is free, or
  it takes a session that nobody has.
* `AtMostOncePerLeg` and `ExecutionIsRecorded` (`AgentRunsProofs`), until a chat
  claims a session (`budget.chats = 0 => ...`).  The invariant `Once` says that a
  spent leg (one with an accepted POST) is recorded as such (`Recorded`) at every
  location: running, marked and with a task that can only reconcile, or settled
  with no failure that may be retried.  Accepting a POST starts from location
  `submit`, which is reached only through `ClaimRun` and `MarkSubmission` from a
  pending record, and a pending record is never `Recorded`; so no leg is spent
  twice.  Chats are excluded because of finding 1: with one beside a run, the property is false.
* `AgentRunsLegs`, properties that compare what a record says with what Hermes was asked and
  answered, each under a hypothesis that section 5 or the comment of the theorem shows to be needed:
  * `OneAnswerPerQuestion`, until a write of the state file is refused.  A question that is open was asked in an
    attempt of the present leg, and every answer that was accepted belongs to a question of an
    earlier one (`AllAsked`); so a question that was answered is not asked again, whatever is repeated.
  * `AtMostOncePerLeg` and `ExecutionIsRecorded`, with chats, where clients use a session for one thing at a time
    (`SerialClients`; `SerialClientsExecuteOnce`).  The invariant `Serial` says that
    an engaged run has its session for itself, so that none meets the claim of a chat as in finding 1.
  * `OutcomeOfOwnLeg`, for the same clients, with any number of runs and chats of a session one after
    another.  The messages and files that a task counts
    from are those of earlier legs, runs and chats, and all that are above are of the accepted turn of this one
    (`AllOwn`); this holds because nobody else adds to the session until the run is settled, and what is
    left behind by a run that failed is below the baseline of the next.
  * `ImplementsLifecycle`, for the same clients.  Each action is shown to be a step of
    `RunLifecycle` or to leave its variables as they are: a run starts to execute when Hermes accepts
    its first POST of a leg (`AtMostOncePerLeg`), an outcome is published by the one write that settles
    it (`ExecutionIsRecorded`), and a leg begins with an accepted answer.
* `ChatTurnsProofs`: `SessionsFollowScope`, and `OneHomePerOwner` under `ManyNodes` (more
  than one node configured, or ready at any time, where owners are not moved), which is what
  finding 2 violates.  The invariant `RouteInv` adds what is remembered across
  awaits: the nodes that discovery remembers are as many as were ready (`NodesInv`), so that
  bindings are read; where owners are not moved, a request that is routed holds the
  node its owner is bound to, and one that probes saw its owner unbound, so that it is bound by
  what the file says when the probe is over (`AtHome`); and the nodes that an owner's requests
  reached are the one it is bound to (`ReachedInv`).
  `CallsAreHonest` rests on an invariant of its own (`CallsInv`): a request that may be repeated
  was done in none of its attempts, and one that changes something and has an unknown outcome ends.
  `MovesOnlyFromMissing` compares what a request saw with the file in the step that moves an owner.
* `NothingLeaks` (`ChatTurnsProofs`).  A permit is handed from handler to handler by a
  release, a timeout, a cancellation and a disconnection, and a session's claim outlives the handler
  that made it.  `SlotInv` says that the free permits and the handlers that hold one make the limit,
  counting the waiter that was handed one and has not woken, and that the queue lists each waiter
  once.  `ClaimInv` says which claims exist: those of handlers between their claim and
  their end, one handler a session.  Every step moves at most two handlers, so the lemmas on
  counting say what a set gains and loses; the number of handlers need not be finite.
* `SchedulesProofs`: `OneTurnPerSession`, and `SuccessHasReport` under `ClaimedOnce` (no key is
  claimed again after its record was deleted), which the last row of the table in section 5 shows
  to be needed.  The invariant `RunsInv` says which sessions were certainly sent nothing: those of claims
  to come (`ClaimsInv`), that of a record which does not say its turn was submitted (`RecordInv`),
  that of a task which has not posted yet (`TaskInv`), and that of a record whose key was claimed
  again under a task (`PairInv`).  For reports it is enough to add that a run which has succeeded, or
  whose task closes the session, has its file.
  `JobMatchesRecord` is proved for one client, under either of two conditions on what Hermes refuses:
  no call of a roll-back (`RollbackHeeded`), or one call in all.  With one more refusal it is false, as
  the code tries a roll-back once and only logs its failure.  `JobsInv` says for each step of each route which
  jobs of the timer fire for the record as it was and which for the record as it will be.
* `MemoryJobsProofs`: `ReflectedOnce`, for clients that retry only what is said to be retryable, and
  sessions whose two counts of turns agree, or of which only one is counted (section 5 has the
  counterexamples without either).  The invariant `MemoryInv` says that a job whose turn Hermes accepted is past asking, in
  its record or in its task, and `CountInv` that the turns accepted for a session are no more than its jobs
  that are past asking (`TurnsPerCount`).
* `ReportToolsProofs`: `AnswersAreUsed`.  The invariant `ClarifyInv` relates the thread of an
  agent to its question: only a thread that waits or wakes has a listed question, an answer is
  recorded while it is listed, and nothing but the thread itself, or a crash, takes
  it from the list; expiring a session leaves answered questions alone.
* `WithinLimits`, `OldestLeaveFirst`, `ExportsAreWhole` (`ReportToolsProofs`).  `QueryInv` says that
  results are named in the order in which they are stored and stamped no later than now, and that
  a result waiting to be stored fits into an empty registry.  The limit on bytes is about a sum over
  a set, defined by a fold.  The induction that its laws need is done without an operator as
  parameter: of the sets for which a law fails there is a smallest (`SmallestMember`), and without
  one of its elements it would not fail.  `FilesInv` says
  that an export under way is about one file whose agent was told nothing, and that no other export is about it;
  what was told last then decides what a download finds, whichever of upload, record and deletion failed.

* `RunStreamProofs`: `LogsAreOrdered`, `IdsIncrease` and `OutcomeIsCurrent` follow from one
  inductive invariant (`IInv`), whatever is trimmed, evicted, unreadable or lost.  A log is only
  read together with the record of its run, and both move under a connection, so the
  invariant first says what an event may be about (`Sound`): a piece of an attempt that was begun, an
  outcome that was reached, and a key that is its own.  A record that moves on keeps all of its events
  sound (`MoveIsSound`); hence what a projection adds is new to the log or suppressed by
  its key (`Fresh`), and the log stays ordered (`LogInv`).  `ConnInv` says of a connection that what its
  cursor has not passed is above what its client received, and that what it has queued lies in
  between; this is why a client may resume from the last id.
  * `NoPieceTwice` is proved as long as no log lost an event (`Lossless`: no crash, and fewer events and
    logs than their limits).  `ReadInv` says that what a client has of an answer is in the log, in its
    order; the pieces of one attempt are in order in the log, so the next piece to come is above
    all it has.
  * `EndsTold` is proved under `Lossless`, while the state file is read (`Quiet`), and without
    `EarlyFailures`.  `ToldInv` says that every outcome that the cursor has passed was told, is
    queued, or is one the run has come past (`Stage` counts outcomes and the legs after them), which
    `_stream_event_matches_current_run` then hides.  An outcome that the last round saw is not
    of the past, so that with an empty queue it was told.
  * The hypotheses are needed: the first three rows of the table in section 5 show what a client
    is told after a failure before the next attempt, after a lost log and after an unreadable state file.
  * What `Picked` returns for every log (`PickedLists`) is induction over data.  It is done for the
    one function at hand: the smallest place at which it would go wrong is not the first, and
    from the place before it does not go wrong (`UpFromZero`).

* `HermesStreamProofs`: all four properties of `HermesStream`, for any characters, envelopes and texts,
  however a text is cut into pieces and a stream into what arrives at once.
  * `ShownIsPublic`.  The invariant says that the filter of a run is always the one that was fed, in one
    piece, all that was streamed (`RunFollows`).  It is inductive because feeding is confluent
    (`FeedsJoin`): a filter that is fed a text and then another ends up as one that is fed both at
    once.  That is where a marker that is split could go wrong, and what it rests on is that a
    marker found in a text that goes on is found at the same place and first (`LeadsOn`), and that what
    is held back is the same if the shown part is cut off (`UndecidedOn`).  Both need `BlocksAssumption`.
    It then remains to compare one run of the loop with the reference (`SiftReads`): each
    turn passes over what the reference reads up to the next marker (`ReadsOn`), and the marker.
  * `ShownStaysPublic` (`RunNeverShowsEarly`) is what that does not say: what was shown is the beginning
    of what is public of any text that goes on from here, so no character of a marker, nor of what it hides, is
    shown before the filter knows.  No run checks it, as it speaks of all continuations; it follows from
    confluence, and from the filter only adding to what it shows (`ShownStays`).
  * `AnswerIsConfirmed` follows from the same invariant: what is accepted is decided by the last frame
    that is read, and what the client was shown is what `Visible` makes of the whole text.
  * `FramesPassedOn`.  What is at hand, with what has not arrived, is whole (`RestIsWhole`), and what is split
    from it are whole frames and a rest that starts after the end of one (`SplitCuts`), wherever
    the cut is.  `InPlace` adds which parts these are: the parts that were sent are numbered, and what was passed on, the frames
    to be passed on, the buffer and what has not arrived cover one interval each, the next beginning where the
    one before ends (`Placed`, `Spans`).  A step moves a border between two of them (`SpansParted`,
    `SpansJoined`, `SplitMarks`), so nothing is dropped, repeated or reordered; and an event is added only
    where a frame ended (`InOrderTold`).
  * `FilesAreTold`.  A chat remembers just the files that it told, and told each once (`ToldOnce`).
  * Loops are recursive functions, and that these exist is proved (`LoopEnds`, `StepsUpTo`): the loop of
    `feed` makes what is held smaller with every turn.  Induction over texts is done for a
    given set of filters, those of which a statement holds, by the length of what they hold (`ByMeasure`).

Only model-checked are the six liveness properties (`EveryRunSettles`, `StreamsEnd`, `JobsSettle`,
`MemoryIsTended`, `RunsSettle`, `CallsReturn`): fairness and ENABLED are outside what the
prover handles.  Every invariant and every other action property of the passing runs, and the refinement of
`RunLifecycle`, is the subject of a theorem above, some under the hypotheses given there.

## 5. Findings

1. **A chat can make a run execute twice** (`RepeatedExecution`).  A run that
   was submitted and interrupted by a restart is resumed; a chat holds its
   session; the executor fails the run with `SESSION_BUSY`, retryable and with a
   known outcome, although its record carries the submission mark
   (`sessions.py:1587-1603`).  The client repeats POST /runs, as the API
   documentation tells it, and the question is executed again.
2. **An owner is sent to another node** (`RoutedAway`).  A pool with one node and no rebinding
   is not `persistent_routing` (`hermes_pool.py:290`), so bindings are not read.  When discovery
   finds only the leader ready, an owner bound to another Pod is sent to the leader, which
   has no history of its sessions, instead of being refused as
   `docs/archs/system-overview.md:47` says.

The following were met on the way and have no run of their own; each is reached by
changing constants of a run, or a condition on its clients:

| What happens | Where | How to see it |
|---|---|---|
| A second failure is silent: its event is deduplicated by the attempt count, so when a run that its client retried fails again before its next attempt, the stream ends without telling it | `sessions.py:2616` | `Stream` with `EarlyFailures = TRUE`, `Pieces = 1`, `MaxConnects = 2` violates `EndsTold` |
| A restart repeats the answer: the first connection finds an empty log and skips the old text, as documented, but fills the log; the next one takes it for the log it knew and is sent the answer again | `sessions.py:2758` | `Stream` with `MaxCrashes = 1` violates `NoPieceTwice` |
| The notice of an unreadable state file carries an id above events that were not sent yet, so a client that resumes from it skips them | `sessions.py:2781` | `Stream` with `MaxStoreFaults = 1` violates `EndsTold` |
| A run reports another run's answer: it counts its baseline while the turn of a run that failed with an unknown outcome is still under way | `sessions.py:2439` | `SerialRuns` with `SerialClients = FALSE` violates `OutcomeOfOwnLeg` |
| A run reports another run's answer, although its clients submit the runs of a session one after another: a run that failed before it was submitted is repeated after the session went on, and keeps its old baseline | `sessions.py:2499` | `SerialRuns` without the condition `Undisturbed` in `RepostRun` violates `OutcomeOfOwnLeg` |
| A question is answered twice: three answers race, one of them leaves an old baseline behind, and a refused write in front of the claim sends the error handler to look at Hermes before an attempt of the new leg was counted; it finds the old question and asks it again under the old attempt | `sessions.py:1780` | `RacingAnswers` with `MaxStoreFaults = 1` and a key of its own for each request violates `OneAnswerPerQuestion` |
| A session is reflected on twice: the sweep names a reflection by half the messages, the close route by completed turns, and after a turn with a tool call they differ | `sessions.py:2114`, `session_service.py:159` | `MemoryWrites` with `HalfMessages <- TwoPairs` violates `ReflectedOnce` |
| A reflection that a client retries while it is executed is executed again after a crash | `reflections.py:256` | `MemoryWrites` with `CarefulClients = FALSE` violates `ReflectedOnce` |
| A scheduled run succeeds with another run's file: when its session is deleted while it runs and the key is claimed again, the old task works on the record of the new run | `schedules.py:483-557` | `Schedules` with `MaxGenerations = 2`, `MaxAttempts = 1`, `MaxJobs = 1`, `MaxRequests = 0`, `MaxMarkers = 0`, `MaxCrashes = 0` violates `SuccessHasReport` |

Others follow from what the models leave to the code as it is, and are visible in an
action rather than in a property:

* An unreadable `reflections.json` or `schedules.json` is taken for an empty one, and the next
  save drops everything else (`reflections.py:77`, `schedule_store.py:65`).
* A scheduled run that a crash interrupts in its last attempt is neither resumed nor finished
  (`schedule_store.py:349`; `RunsSettle` exempts it), and one that is interrupted in the two seconds
  before its retry stays failed although a retry was due.
* A manual request accepted within ninety seconds of a run is answered with success, but its
  callback is taken for a repetition: the marker waits for the next callback of the
  timer and takes its place (`schedule_store.py:236`).
* A one-time schedule that is moved to a new date while a run of it ends is disabled
  by that run (`schedule_store.py:336-343`).
* Listing schedules refreshes each record from a timer job read before: a record that was moved or
  paused in between gets its old state back (`RefreshStore`).
* A task that ends while the key it works on is claimed again keeps the new record from
  getting a task (`Spawned`).
* The end of one stream of a session expires the question asked in a newer one (`Closes`), and a
  question asked after its stream was closed can only time out.
* A file is visible between its writing and its upload, and stays if Hermes stops there
  (`report_export.py:3522`); an object stays in the bucket when its record cannot be written; the
  deletion of a session's files takes no storage lock.
* A stream that ends in the middle of a frame has an artifact event glued to it
  (`sessions.py:1210`; `FramesPassedOn` allows it after the last part that was sent, and nowhere else); one that ends in the data of `run.completed` counts as completed; an answer
  that ends in the beginning of a marker loses it (`PrivateText`, `Visible`).

## 6. Not modelled

The content of messages, reports, SQL, workbooks and PDFs; authentication and the
mapping of errors to HTTP codes, which keep no state; housekeeping of run
records past their retention (a removed record is an absent one, and the
retention is far longer than a run); the parsing of EndpointSlices and origins; the tie-breaking
hash of routing; backups of memory files; the guard that restricts the file tools of Hermes to the report files of the session;
patches of Hermes internals whose other half is not in this repository (cron ticker, memory,
reasoning stream); the SQL guard and the join graph, pure functions over SQL text; the launcher, a
sequential parent of child processes; the browser page.

The modules are not composed into one: `AgentRuns`, `MemoryJobs`, `ScheduleRuns` and `ChatTurns`
share the limiter and Hermes sessions, and each models what the others do to it (a chat in
`AgentRuns`, the only slot in `MemoryJobs`, other handlers in `ChatTurns`).

## 7. Plan

What is worth adding next:

1. Abstract specifications: an atomic map from owners to nodes that `HermesRoutes` implements, and
   a period that is reported on at most once for `Schedules`.
2. Larger instances: two clients of `Schedules`, two owners in `Routing`, a restart of the
   service in `ChatTurns`.
