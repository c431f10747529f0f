----------------------------- MODULE RunStream -----------------------------
(***************************************************************************)
(* The event stream of durable Agent runs (api/sessions.py): the bounded   *)
(* in-memory log of each run, the executor and the handlers that publish   *)
(* to it, and the connections of GET /v1/agent/runs/{id}/stream.           *)
(*                                                                         *)
(* The record of a run is reduced to what the stream shows of it, and      *)
(* moves as AgentRuns lets it move.  A settled run publishes nothing: the  *)
(* connection that reads it projects it into the log.  An outcome is a     *)
(* result, an error or a question, numbered in the order in which the run  *)
(* reaches them; an answer is a sequence of numbered pieces of text.       *)
(* Steps of tools, artifacts and the progress of a result are events like  *)
(* the pieces of an answer and are left out.                               *)
(*                                                                         *)
(* An operator marked as a mutant is a faulty form of the definition after *)
(* it; no definition uses it.                                              *)
(***************************************************************************)
EXTENDS Integers, Sequences, FiniteSets, SequencesExt

CONSTANTS
  Runs,
  Clients,
  RunOf,         (* the run each client follows                             *)
  EventLimit,    (* events kept of a run: 2000 in the code                  *)
  RunLimit,      (* runs whose events are kept: 512 in the code             *)
  EarlyFailures, (* a run that its client retried may fail before its next  *)
                 (* attempt starts                                          *)
  Pieces,        (* bound on the pieces of an answer                        *)
  MaxAttempts,   (* bound on the attempts of a run                          *)
  MaxOutcomes,   (* bound on the outcomes of a run                          *)
  MaxConnects,   (* bound on the connections of all clients                 *)
  MaxCrashes,    (* bound on service crashes                                *)
  MaxStoreFaults (* bound on reads that the state file refuses              *)

ASSUME RunOfAssumption == RunOf \in [Clients -> Runs]
ASSUME LimitsAssumption == {EventLimit, RunLimit} \subseteq Nat \ {0}
ASSUME EarlyFailuresAssumption == EarlyFailures \in BOOLEAN
ASSUME StreamBoundsAssumption ==
  {Pieces, MaxAttempts, MaxOutcomes, MaxConnects, MaxCrashes, MaxStoreFaults} \subseteq Nat

VARIABLES
  run,    (* the durable record of each run                               *)
  log,    (* the events kept of each run; <<>> when there is no log       *)
  kept,   (* the runs that have a log, the oldest log first               *)
  nextId, (* the next event id of the process                             *)
  conn,   (* the connection of each client, as the server holds it        *)
  last,   (* the last event id each client received                       *)
  text,   (* the pieces each client received of the answer of each attempt *)
  told,   (* the outcomes each client was told                            *)
  budget  (* connections, crashes and store faults so far                 *)

buffer  == <<log, kept, nextId>>
clients == <<last, text, told>>
vars    == <<run, buffer, conn, clients, budget>>

-----------------------------------------------------------------------------
(* The record of a run.                                                    *)

Unfinished == {"pending", "running"}
Settled    == {"waiting_input", "failed", "succeeded"}

Record ==
  [status    : {"absent"} \cup Unfinished \cup Settled,
   attempt   : Nat,
   epoch     : Nat,      (* attempts before the last answer of the user     *)
   streamed  : Nat,      (* pieces Hermes streamed in this attempt          *)
   retryable : BOOLEAN,  (* failed, and a repeated request retries it       *)
   retried   : BOOLEAN,  (* retried by its client, next attempt not started *)
   outcome   : Nat,
   content   : Seq(Nat)]

Absent == [status |-> "absent", attempt |-> 0, epoch |-> 0, streamed |-> 0,
           retryable |-> FALSE, retried |-> FALSE, outcome |-> 0, content |-> <<>>]

(* The authoritative text may be longer than what was streamed, or another. *)
Corrected == <<0>>
Answers   == {[i \in 1 .. n |-> i] : n \in 1 .. Pieces} \cup {Corrected}

-----------------------------------------------------------------------------
(* Events.  Of the events with one key only the first is kept.             *)

Key   == [of : {"none", "final-answer", "unavailable"} \cup Unfinished \cup Settled,
          attempt : Nat, item : Nat]
Draft == [event   : {"progress", "answer.delta", "clarification.required", "error",
                     "run.completed"},
          attempt : Nat, item : Nat, key : Key]
Event == [id : Nat, what : Draft]

NoKey == [of |-> "none", attempt |-> 0, item |-> 0]

Progress(attempt, status) ==
  [event |-> "progress", attempt |-> attempt, item |-> 0,
   key   |-> [of |-> status, attempt |-> attempt, item |-> 0]]

LiveDelta(attempt, piece) ==
  [event |-> "answer.delta", attempt |-> attempt, item |-> piece, key |-> NoKey]

FinalDelta(attempt, piece, offset) ==
  [event |-> "answer.delta", attempt |-> attempt, item |-> piece,
   key   |-> [of |-> "final-answer", attempt |-> attempt, item |-> offset]]

TerminalEvent(status) ==
  CASE status = "waiting_input" -> "clarification.required"
    [] status = "failed"        -> "error"
    [] status = "succeeded"     -> "run.completed"

KeyWithoutAttempt(rec) == [of |-> rec.status, attempt |-> 0, item |-> 0]      (* mutant *)

(* Only a question has an identity of its own in its key.                  *)
TerminalKey(rec) ==
  [of      |-> rec.status,
   attempt |-> rec.attempt,
   item    |-> IF rec.status = "waiting_input" THEN rec.outcome ELSE 0]

TerminalDraft(rec) ==
  [event |-> TerminalEvent(rec.status), attempt |-> rec.attempt, item |-> rec.outcome,
   key   |-> TerminalKey(rec)]

Unavailable ==
  [event |-> "error", attempt |-> 0, item |-> 0,
   key   |-> [of |-> "unavailable", attempt |-> 0, item |-> 0]]

-----------------------------------------------------------------------------
(* _publish_agent_run_event, for what one stretch of code publishes: text  *)
(* after all the text that is kept, whose keys are new, then one event.    *)

NeverKept(entries, draft) == FALSE                                           (* mutant *)

IsKept(entries, draft) ==
  draft.key # NoKey /\ \E i \in DOMAIN entries : entries[i].what.key = draft.key

Numbered(drafts) ==
  [i \in 1 .. Len(drafts) |-> [id |-> nextId + i - 1, what |-> drafts[i]]]

Trimmed(entries) ==
  SubSeq(entries, IF Len(entries) > EventLimit THEN Len(entries) - EventLimit + 1 ELSE 1,
         Len(entries))

Evicts(r) == log[r] = <<>> /\ Len(kept) >= RunLimit

Publish(r, deltas, draft) ==
  LET new == IF IsKept(log[r], draft) THEN deltas ELSE Append(deltas, draft)
      left == IF Evicts(r) THEN [log EXCEPT ![Head(kept)] = <<>>] ELSE log
  IN /\ log' = [left EXCEPT ![r] = Trimmed(log[r] \o Numbered(new))]
     /\ kept' = IF log[r] # <<>> THEN kept
                ELSE Append(IF Evicts(r) THEN Tail(kept) ELSE kept, r)
     /\ nextId' = nextId + Len(new)

(* The entries at some places, in order.  This is SelectSeq as a recursive  *)
(* function, which can be reasoned about.                                   *)
Picked(entries, places) ==
  LET upTo[n \in 0 .. Len(entries)] ==
        IF n = 0 THEN <<>>
        ELSE IF n \in places THEN Append(upTo[n - 1], entries[n]) ELSE upTo[n - 1]
  IN upTo[Len(entries)]

(* The places of the events that come after a cursor.                      *)
After(entries, cursor) == {i \in DOMAIN entries : entries[i].id > cursor}

-----------------------------------------------------------------------------
(* The run moves.                                                          *)

Move(r, rec) == run' = [run EXCEPT ![r] = rec]

Create(r) ==
  /\ run[r].status = "absent"
  /\ Move(r, [Absent EXCEPT !.status = "pending"])
  /\ Publish(r, <<>>, Progress(0, "pending"))
  /\ UNCHANGED <<conn, clients, budget>>

Claim(r) ==
  /\ run[r].status = "pending" /\ run[r].attempt < MaxAttempts
  /\ Move(r, [run[r] EXCEPT !.status = "running", !.attempt = @ + 1,
                            !.streamed = 0, !.retried = FALSE])
  /\ Publish(r, <<>>, Progress(run[r].attempt + 1, "running"))
  /\ UNCHANGED <<conn, clients, budget>>

StreamPiece(r) ==
  /\ run[r].status = "running" /\ run[r].streamed < Pieces
  /\ Move(r, [run[r] EXCEPT !.streamed = @ + 1])
  /\ Publish(r, <<>>, LiveDelta(run[r].attempt, run[r].streamed + 1))
  /\ UNCHANGED <<conn, clients, budget>>

(* The service retries an attempt that Hermes did not accept; nobody sees  *)
(* the failed state that the code writes in between.                       *)
RequeueRun(r) ==
  /\ run[r].status = "running" /\ run[r].streamed = 0 /\ run[r].attempt < MaxAttempts
  /\ Move(r, [run[r] EXCEPT !.status = "pending"])
  /\ UNCHANGED <<buffer, conn, clients, budget>>

(* From the attempt, or from a reconciliation with Hermes before the next. *)
Finish(r) ==
  /\ \/ run[r].status = "running"
     \/ run[r].status = "pending" /\ run[r].attempt > run[r].epoch
  /\ run[r].outcome < MaxOutcomes
  /\ \/ \E content \in Answers :
          Move(r, [run[r] EXCEPT !.status = "succeeded", !.outcome = @ + 1,
                                 !.content = content])
     \/ Move(r, [run[r] EXCEPT !.status = "waiting_input", !.outcome = @ + 1])
  /\ UNCHANGED <<buffer, conn, clients, budget>>

(* A turn that streamed is called safe to retry only when a chat held its  *)
(* session after a restart.                                                *)
Fail(r) ==
  /\ run[r].status \in Unfinished
  /\ run[r].retried => EarlyFailures
  /\ run[r].outcome < MaxOutcomes
  /\ \E retryable \in BOOLEAN :
       /\ retryable => run[r].streamed = 0 \/ budget.crashes > 0
       /\ Move(r, [run[r] EXCEPT !.status = "failed", !.outcome = @ + 1,
                                 !.retryable = retryable])
  /\ UNCHANGED <<buffer, conn, clients, budget>>

RetryByClient(r) ==
  /\ run[r].status = "failed" /\ run[r].retryable /\ run[r].attempt < MaxAttempts
  /\ Move(r, [run[r] EXCEPT !.status = "pending", !.retryable = FALSE, !.retried = TRUE])
  /\ UNCHANGED <<buffer, conn, clients, budget>>

Answer(r) ==
  /\ run[r].status = "waiting_input"
  /\ Move(r, [run[r] EXCEPT !.status = "pending", !.epoch = run[r].attempt])
  /\ Publish(r, <<>>, Progress(run[r].attempt, "pending"))
  /\ UNCHANGED <<conn, clients, budget>>

-----------------------------------------------------------------------------
(* _materialize_agent_run_stream_events: what a read of the record adds.   *)

Buffered(r) ==
  LET deltas == Picked(log[r], {i \in DOMAIN log[r] :
                  /\ log[r][i].what.event = "answer.delta"
                  /\ log[r][i].what.attempt = run[r].attempt})
  IN [i \in DOMAIN deltas |-> deltas[i].what.item]

AllDeltas(r, replayDeltas) ==                                                (* mutant *)
  LET rec == run[r]
  IN IF rec.status = "succeeded" /\ replayDeltas
     THEN [i \in 1 .. Len(rec.content) |-> FinalDelta(rec.attempt, rec.content[i], i)]
     ELSE <<>>

MissingDeltas(r, replayDeltas) ==
  LET rec      == run[r]
      streamed == Buffered(r)
  IN IF rec.status = "succeeded" /\ replayDeltas /\ IsPrefix(streamed, rec.content)
     THEN [i \in 1 .. Len(rec.content) - Len(streamed) |->
             FinalDelta(rec.attempt, rec.content[Len(streamed) + i], Len(streamed) + i)]
     ELSE <<>>

Projection(rec) ==
  IF rec.status \in Unfinished THEN Progress(rec.attempt, rec.status) ELSE TerminalDraft(rec)

MatchesStatus(draft, rec) ==                                                 (* mutant *)
  /\ draft.event \in {"progress", "answer.delta"} => draft.attempt = rec.attempt
  /\ draft.event \notin {"progress", "answer.delta"} =>
       rec.status \in Settled /\ draft.event = TerminalEvent(rec.status)

(* _stream_event_matches_current_run: hide what belongs to a superseded    *)
(* attempt or question.                                                    *)
Matches(draft, rec) ==
  /\ draft.attempt = rec.attempt
  /\ draft.event \notin {"progress", "answer.delta"} =>
       rec.status \in Settled /\ draft.event = TerminalEvent(rec.status)
  /\ draft.event = "clarification.required" => draft.item = rec.outcome

-----------------------------------------------------------------------------
(* A connection.  events() reads the record and the log in one stretch and *)
(* then yields what it found, so the run moves on while it sends; after a  *)
(* round it returns or sleeps for half a second.                           *)

NoConnection ==
  [step |-> "off", replay |-> TRUE, cursor |-> 0, queue |-> <<>>, seen |-> Absent,
   emitted |-> FALSE]

Connection ==
  [step    : {"off", "opened", "sending", "ended"},
   replay  : BOOLEAN,     (* not buffer_was_reset                           *)
   cursor  : Nat,
   queue   : Seq(Event),  (* events of this round not sent yet              *)
   seen    : Record,      (* the record this round read                     *)
   emitted : BOOLEAN]     (* this round sent a terminal event               *)

ResumeAfter(c) == last[c]

Connect(c) ==
  LET reset == last[c] > 0 /\ log[RunOf[c]] = <<>>
  IN /\ conn[c].step \in {"off", "ended"}
     /\ run[RunOf[c]].status # "absent"
     /\ budget.connects < MaxConnects
     /\ budget' = [budget EXCEPT !.connects = @ + 1]
     /\ conn' = [conn EXCEPT ![c] = [NoConnection EXCEPT
                   !.step   = "opened",
                   !.replay = ~reset,
                   !.cursor = IF reset THEN 0 ELSE ResumeAfter(c)]]
     /\ UNCHANGED <<run, buffer, clients>>

(* The cursor passes the events of the round that are hidden as well.      *)
CursorAfter(entries, cursor) ==
  IF After(entries, cursor) = {} THEN cursor ELSE entries[Len(entries)].id

Poll(c) ==
  LET r        == RunOf[c]
      matching == {i \in After(log'[r], conn[c].cursor) : Matches(log'[r][i].what, run[r])}
  IN /\ conn[c].step = "opened"
     /\ Publish(r, MissingDeltas(r, conn[c].replay), Projection(run[r]))
     /\ conn' = [conn EXCEPT
          ![c].step    = "sending",
          ![c].seen    = run[r],
          ![c].emitted = FALSE,
          ![c].queue   = Picked(log'[r], matching),
          ![c].cursor  = CursorAfter(log'[r], @)]
     /\ UNCHANGED <<run, clients, budget>>

(* The state file cannot be read: one error event ends the connection.     *)
PollFails(c) ==
  LET r     == RunOf[c]
      event == CHOOSE i \in DOMAIN log'[r] : log'[r][i].what = Unavailable
  IN /\ conn[c].step = "opened"
     /\ budget.faults < MaxStoreFaults
     /\ budget' = [budget EXCEPT !.faults = @ + 1]
     /\ Publish(r, <<>>, Unavailable)
     /\ last' = IF log'[r][event].id > conn[c].cursor
                THEN [last EXCEPT ![c] = log'[r][event].id] ELSE last
     /\ conn' = [conn EXCEPT ![c] = NoConnection]
     /\ UNCHANGED <<run, text, told>>

Send(c) ==
  LET entry == Head(conn[c].queue)
      draft == entry.what
  IN /\ conn[c].step = "sending" /\ conn[c].queue # <<>>
     /\ last' = [last EXCEPT ![c] = entry.id]
     /\ text' = IF draft.event = "answer.delta"
                THEN [text EXCEPT ![c][draft.attempt] = Append(@, draft.item)] ELSE text
     /\ told' = IF draft.event \notin {"progress", "answer.delta"}
                THEN [told EXCEPT ![c] = @ \cup {draft.item}] ELSE told
     /\ conn' = [conn EXCEPT
          ![c].queue   = Tail(@),
          ![c].emitted = @ \/ draft.event \notin {"progress", "answer.delta"}]
     /\ UNCHANGED <<run, buffer, budget>>

EndsWhenEmitted(c) ==                                                        (* mutant *)
  /\ conn[c].step = "sending" /\ conn[c].queue = <<>>
  /\ conn' = [conn EXCEPT ![c].step =
       IF conn[c].seen.status \in Settled /\ conn[c].emitted THEN "ended" ELSE "opened"]
  /\ UNCHANGED <<run, buffer, clients, budget>>

(* A round of a settled run that found nothing to send ends the stream,    *)
(* for a client that was told the outcome before it reconnected.           *)
EndRound(c) ==
  /\ conn[c].step = "sending" /\ conn[c].queue = <<>>
  /\ conn' = [conn EXCEPT ![c].step =
       IF /\ conn[c].seen.status \in Settled
          /\ conn[c].emitted \/ After(log[RunOf[c]], conn[c].cursor) = {}
       THEN "ended" ELSE "opened"]
  /\ UNCHANGED <<run, buffer, clients, budget>>

(* The client or the network gives up.                                     *)
Disconnect(c) ==
  /\ conn[c].step \in {"opened", "sending"}
  /\ conn' = [conn EXCEPT ![c] = NoConnection]
  /\ UNCHANGED <<run, buffer, clients, budget>>

CrashForgetsIds ==                                                           (* mutant *)
  /\ budget.crashes < MaxCrashes
  /\ budget' = [budget EXCEPT !.crashes = @ + 1]
  /\ log' = [r \in Runs |-> <<>>]
  /\ kept' = <<>>
  /\ nextId' = 1
  /\ conn' = [c \in Clients |-> NoConnection]
  /\ UNCHANGED <<run, clients>>

(* Ids start from the clock in microseconds: above all earlier ones.       *)
Crash ==
  /\ budget.crashes < MaxCrashes
  /\ budget' = [budget EXCEPT !.crashes = @ + 1]
  /\ log' = [r \in Runs |-> <<>>]
  /\ kept' = <<>>
  /\ conn' = [c \in Clients |-> NoConnection]
  /\ UNCHANGED <<run, nextId, clients>>

-----------------------------------------------------------------------------
Init ==
  /\ run = [r \in Runs |-> Absent]
  /\ log = [r \in Runs |-> <<>>]
  /\ kept = <<>>
  /\ nextId = 1
  /\ conn = [c \in Clients |-> NoConnection]
  /\ last = [c \in Clients |-> 0]
  /\ text = [c \in Clients |-> [attempt \in 0 .. MaxAttempts |-> <<>>]]
  /\ told = [c \in Clients |-> {}]
  /\ budget = [connects |-> 0, crashes |-> 0, faults |-> 0]

RunStep(r) ==
  \/ Create(r) \/ Claim(r) \/ StreamPiece(r) \/ RequeueRun(r)
  \/ Finish(r) \/ Fail(r) \/ RetryByClient(r) \/ Answer(r)

Serve(c) == Poll(c) \/ PollFails(c) \/ Send(c) \/ EndRound(c)

Next ==
  \/ \E r \in Runs : RunStep(r)
  \/ \E c \in Clients : Connect(c) \/ Serve(c) \/ Disconnect(c)
  \/ Crash

Spec == Init /\ [][Next]_vars

(* The event loop resumes the generator of every open connection.          *)
FairSpec == Spec /\ \A c \in Clients : WF_vars(Serve(c))

-----------------------------------------------------------------------------
(* Properties.                                                             *)

TypeOK ==
  /\ run \in [Runs -> Record]
  /\ log \in [Runs -> Seq(Event)]
  /\ kept \in Seq(Runs)
  /\ nextId \in Nat \ {0}
  /\ conn \in [Clients -> Connection]
  /\ last \in [Clients -> Nat]
  /\ text \in [Clients -> [0 .. MaxAttempts -> Seq(Nat)]]
  /\ told \in [Clients -> SUBSET Nat]
  /\ budget \in [connects : Nat, crashes : Nat, faults : Nat]

(* The log of a run is ordered by id below the next one, holds one event   *)
(* per key and never more than the limit, whatever was trimmed, evicted or *)
(* published again; the process keeps the logs of a bounded number of      *)
(* runs, each once, and knows the age of exactly those it keeps.           *)
LogsAreOrdered ==
  /\ \A r \in Runs :
       /\ Len(log[r]) <= EventLimit
       /\ \A i, j \in DOMAIN log[r] : i < j =>
            /\ log[r][i].id < log[r][j].id
            /\ log[r][i].what.key = log[r][j].what.key => log[r][i].what.key = NoKey
       /\ \A i \in DOMAIN log[r] : log[r][i].id < nextId
  /\ Len(kept) <= RunLimit
  /\ \A i, j \in DOMAIN kept : kept[i] = kept[j] => i = j
  /\ \A r \in Runs : log[r] # <<>> <=> \E i \in DOMAIN kept : kept[i] = r

(* A client never receives an id that is not above all it received before, *)
(* through reconnections, evictions and restarts, so that the last one it  *)
(* received is always the right place to resume from.                      *)
IdsIncrease == [][\A c \in Clients : last'[c] # last[c] => last'[c] > last[c]]_vars

(* A terminal event that is sent tells the outcome that the record had     *)
(* when the round began, never that of a superseded attempt or question.   *)
(* The notice of an unreadable state file has no outcome.                  *)
OutcomeIsCurrent ==
  [][\A c \in Clients : told'[c] \ told[c] \subseteq {conn[c].seen.outcome, 0}]_vars

(* When the service ends a stream by itself, it told this client how the   *)
(* run came out, in this connection or in an earlier one.                  *)
EndsTold ==
  \A c \in Clients : conn[c].step = "ended" => conn[c].seen.outcome \in told[c]

(* A client that appends what it receives and resumes from the last id     *)
(* never appends a piece of the answer twice or out of order.              *)
NoPieceTwice ==
  \A c \in Clients : \A a \in 0 .. MaxAttempts :
    \A i, j \in DOMAIN text[c][a] : i < j => text[c][a][i] < text[c][a][j]

Open(c) == conn[c].step \in {"opened", "sending"}

(* The stream of a run that stays settled ends.                            *)
StreamsEnd ==
  \A c \in Clients :
    run[RunOf[c]].status \in Settled /\ Open(c) ~>
      (~Open(c) \/ run[RunOf[c]].status \notin Settled)
=============================================================================
