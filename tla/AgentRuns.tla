----------------------------- MODULE AgentRuns -----------------------------
(***************************************************************************)
(* Durable Agent runs: the executor of api/sessions.py, the store it       *)
(* writes, the HTTP handlers that create runs and answer clarifications,   *)
(* the interactive chat that shares their sessions, and Hermes.            *)
(*                                                                         *)
(* The service is one asyncio loop, so an action is the code between two   *)
(* awaits.  Where such a stretch makes several durable writes, each write  *)
(* is an action and InSync keeps everything but a crash out in between.    *)
(* Hermes is external: it accepts turns and records their messages; a turn *)
(* it accepted goes on whatever becomes of the connection or the service.  *)
(***************************************************************************)
EXTENDS AgentRunStore, Sequences, SequencesExt

CONSTANTS
  Sessions,
  SessionOf,      (* the session each run was submitted to                *)
  Requests,       (* POST /input requests that may be in flight           *)
  KeyOf,          (* the idempotency key each of them carries             *)
  SerialClients,  (* clients use a session for one thing at a time: see   *)
                  (* FreeFor                                              *)
  Capacity,       (* slots of the process-wide Agent limiter              *)
  MaxCrashes,     (* bound on service crashes                             *)
  MaxStoreFaults, (* bound on writes the state file system refuses        *)
  MaxChats,       (* bound on interactive chat requests                   *)
  MaxCloses       (* bound on sessions closed by their owner              *)

ASSUME SessionOfAssumption == SessionOf \in [Runs -> Sessions]
ASSUME KeyOfAssumption == KeyOf \in [Requests -> Keys]
ASSUME SerialClientsAssumption == SerialClients \in BOOLEAN
ASSUME CapacityAssumption == Capacity \in Nat \ {0}
ASSUME BoundsAssumption ==
  {MaxCrashes, MaxStoreFaults, MaxChats, MaxCloses} \subseteq Nat

VARIABLES
  runs,      (* agent-runs.json: the durable record of each run           *)
  pc,        (* where the task of each run is; "none" when there is none  *)
  exc,       (* the error a task is handling                              *)
  posting,   (* POST /runs in flight for each run: its step, what it read *)
  answering, (* POST /input requests in flight: their step, what they read *)
  chat,      (* the interactive chat of each session                      *)
  up,        (* the service is running                                    *)
  messages,  (* Hermes: the messages of each session                      *)
  turns,     (* Hermes: the turns of each session it has not ended yet    *)
  closed,    (* Hermes: the sessions that have ended_at                   *)
  accepted,  (* history: the attempts whose POST Hermes accepted          *)
  budget     (* how many crashes, store faults, chats and closes happened *)

Budget == [crashes : Nat, faults : Nat, chats : Nat, closes : Nat]

hermes  == <<messages, turns, closed>>
offTask == <<posting, answering, chat, up, hermes, accepted, budget>>
service == <<runs, pc, exc, posting, answering, chat, up, accepted>>
vars    == <<runs, pc, exc, offTask>>

-----------------------------------------------------------------------------
(* Hermes messages. *)

Kind    == {"work", "final", "clarify"}
Message == [turn : Turn, kind : Kind]

MessageCount(s) == Len(messages[s])

EveryNewMessage(s, baseline) == (baseline + 1) .. Len(messages[s])           (* mutant *)

EveryFinalMessage(s, baseline) ==                                            (* mutant *)
  {i \in 1 .. Len(messages[s]) : messages[s][i].kind # "work"}

FinalMessages(s, baseline) ==
  {i \in (baseline + 1) .. Len(messages[s]) : messages[s][i].kind # "work"}

(* The last of them: at most one. *)
LastFinal(s, baseline) ==
  {messages[s][i] : i \in {j \in FinalMessages(s, baseline) :
                             \A k \in FinalMessages(s, baseline) : k <= j}}

(* _artifact_ids: every turn that did some work left its files behind. *)
ArtifactTurns(s) == {m.turn : m \in ToSet(messages[s])}

NewArtifacts(run, s) == ArtifactTurns(s) \ run.artifacts

OutcomeOf(run, s, message) ==
  [kind      |-> message.kind,
   answer    |-> message.turn,
   artifacts |-> IF message.kind = "final" THEN NewArtifacts(run, s) ELSE {}]

(* What _inspect_agent_run concludes from one successful read. *)
Recovers(r)   == FinalMessages(SessionOf[r], runs[r].baseline) # {}
Recovered(r)  == {OutcomeOf(runs[r], SessionOf[r], message) :
                    message \in LastFinal(SessionOf[r], runs[r].baseline)}
Progressed(r) == \/ MessageCount(SessionOf[r]) > runs[r].baseline
                 \/ NewArtifacts(runs[r], SessionOf[r]) # {}

-----------------------------------------------------------------------------
(* Errors, as the two flags the control flow reads. *)

SafelyLost == [retryable |-> TRUE,  unknown |-> FALSE]  (* mutant of LostPost *)

Transient   == [retryable |-> TRUE,  unknown |-> FALSE]  (* GET 429/5xx/timeout *)
Rejected    == [retryable |-> FALSE, unknown |-> FALSE]  (* 4xx, closed session *)
Internal    == [retryable |-> FALSE, unknown |-> TRUE]   (* not an HTTPException *)
LostPost    == [retryable |-> TRUE,  unknown |-> TRUE]   (* POST timeout, 5xx   *)
ReadErrors  == {Transient, Rejected, Internal}
PostErrors  == {Rejected, Internal, LostPost}

Invited(err) == err.retryable                                                (* mutant *)

MayRetry(err) == err.retryable /\ ~err.unknown

-----------------------------------------------------------------------------
(* The tasks. *)

Waiting   == {"queued"}
Sync      == {"clearing", "requeueing"}
Slotted   == {"prepare", "open", "submit", "stream"}
Exclusive == {"reconcile", "slot", "result", "except", "backoff"} \cup Slotted \cup Sync
Location  == {"none"} \cup Waiting \cup Exclusive

(* A client's retry of a failed run also makes two writes in one stretch. *)
Posting       == [step : {"idle", "reading", "requeueing"}, baseline : Nat]
NotPosting    == [step |-> "idle", baseline |-> 0]
Requeueing(r) == posting[r].step = "requeueing"

InSync == \E r \in Runs : pc[r] \in Sync \/ Requeueing(r)

Spawned(r) == [pc EXCEPT ![r] = IF @ = "none" THEN "queued" ELSE @]

SlotsInUse == Cardinality({r \in Runs : pc[r] \in Slotted})
                + Cardinality({s \in Sessions : chat[s] = "posted"})

(* The head of the executor's loop: return, reconcile first, or go on. *)
LoopHead(run) ==
  IF run.status \notin Resumable THEN "none"
  ELSE IF RetryAttempts(run) > 0 \/ run.submitted THEN "reconcile" ELSE "slot"

Serving == up /\ ~InSync

At(r, location) == Serving /\ pc[r] = location

Goto(r, location) == pc' = [pc EXCEPT ![r] = location]

Store(r, run) == runs' = [runs EXCEPT ![r] = run]

-----------------------------------------------------------------------------
(* What both failure paths share.  _fail_or_retry_agent_run makes up to    *)
(* three writes; the first is here and the others are ClearSubmission and  *)
(* Requeue.                                                                *)

FailOrRetry(r, err) ==
  LET exhausted == RetryAttempts(runs[r]) >= MaxAttempts
      final     == IF MayRetry(err) /\ exhausted THEN Rejected ELSE err
  IN /\ Store(r, MarkFailed(runs[r], final))
     /\ Goto(r, IF MayRetry(final) THEN "clearing" ELSE "none")

Fail(r, err) == Store(r, MarkFailed(runs[r], err)) /\ Goto(r, "none")

Raise(r, err) == Goto(r, "except") /\ exc' = [exc EXCEPT ![r] = err]

ClearSubmission(r) ==
  /\ up /\ pc[r] = "clearing"
  /\ Store(r, SetSubmitted(runs[r], FALSE))
  /\ Goto(r, "requeueing")
  /\ UNCHANGED <<exc, offTask>>

Requeue(r) ==
  /\ up /\ pc[r] = "requeueing"
  /\ IF RetryAllowed(runs[r])
     THEN Store(r, Retry(runs[r])) /\ Goto(r, "backoff")
     ELSE Goto(r, "none") /\ UNCHANGED runs
  /\ UNCHANGED <<exc, offTask>>

BackoffEnds(r) ==
  /\ At(r, "backoff")
  /\ Goto(r, LoopHead(runs[r]))
  /\ UNCHANGED <<runs, exc, offTask>>

-----------------------------------------------------------------------------
(* _execute_agent_run polls until it holds the run and session claims;     *)
(* _execute_agent_run_exclusive then claims the session against chats.     *)

AlwaysFree(r) == TRUE                                                        (* mutant *)

FreeOfQueued(r) ==                                                           (* mutant *)
  \A other \in Runs \ {r} : SessionOf[other] = SessionOf[r] => pc[other] = "none"

SessionFree(r) ==
  \A other \in Runs \ {r} :
    SessionOf[other] = SessionOf[r] => pc[other] \notin Exclusive

StartRun(r) ==
  /\ At(r, "queued")
  /\ SessionFree(r)
  /\ chat[SessionOf[r]] = "idle"
  /\ Goto(r, LoopHead(runs[r]))
  /\ UNCHANGED <<runs, exc, offTask>>

SessionBusy(r) ==
  /\ At(r, "queued")
  /\ SessionFree(r)
  /\ chat[SessionOf[r]] # "idle"
  /\ IF runs[r].status \in Resumable THEN Fail(r, Transient)
                                     ELSE Goto(r, "none") /\ UNCHANGED runs
  /\ UNCHANGED <<exc, offTask>>

-----------------------------------------------------------------------------
(* Reconcile with Hermes before a retry, or after a restart.               *)

ReconcileReadFailsPlainly(r) ==                                              (* mutant *)
  /\ At(r, "reconcile")
  /\ \E err \in ReadErrors : FailOrRetry(r, err)
  /\ UNCHANGED <<exc, offTask>>

ReconcileReadFails(r) ==
  /\ At(r, "reconcile")
  /\ \E err \in ReadErrors :
       FailOrRetry(r, IF runs[r].submitted THEN Internal ELSE err)
  /\ UNCHANGED <<exc, offTask>>

ReconcileRecovers(r) ==
  /\ At(r, "reconcile")
  /\ \E outcome \in Recovered(r) : Store(r, PersistOutcome(runs[r], outcome))
  /\ Goto(r, "none")
  /\ UNCHANGED <<exc, offTask>>

ReconcileGivesUp(r) ==
  /\ At(r, "reconcile")
  /\ ~Recovers(r)
  /\ \/ (runs[r].submitted \/ Progressed(r)) /\ Fail(r, Internal)
     \/ /\ ~runs[r].submitted /\ ~Progressed(r)
        /\ RetryAttempts(runs[r]) >= MaxAttempts
        /\ Fail(r, Rejected)
  /\ UNCHANGED <<exc, offTask>>

ReconcileContinues(r) ==
  /\ At(r, "reconcile")
  /\ ~Recovers(r) /\ ~runs[r].submitted /\ ~Progressed(r)
  /\ RetryAttempts(runs[r]) < MaxAttempts
  /\ IF runs[r].status = "running"
     THEN FailOrRetry(r, Transient)
     ELSE Goto(r, "slot") /\ UNCHANGED runs
  /\ UNCHANGED <<exc, offTask>>

-----------------------------------------------------------------------------
(* One attempt: take a slot, claim the record, read the session, mark the  *)
(* submission, POST, drain the stream, read the result.                    *)

ClaimRun(r) ==
  /\ At(r, "slot")
  /\ SlotsInUse < Capacity
  /\ IF runs[r].status = "pending"
     THEN Store(r, ClaimPending(runs[r])) /\ Goto(r, "prepare")
     ELSE Goto(r, "none") /\ UNCHANGED runs
  /\ UNCHANGED <<exc, offTask>>

ReadSession(r) ==
  /\ At(r, "prepare")
  /\ IF SessionOf[r] \in closed THEN Raise(r, Rejected)
                               ELSE Goto(r, "open") /\ UNCHANGED exc
  /\ UNCHANGED <<runs, offTask>>

ReadSessionFails(r) ==
  /\ At(r, "prepare")
  /\ \E err \in ReadErrors : Raise(r, err)
  /\ UNCHANGED <<runs, offTask>>

(* Setting the title never fails the turn; then the checkpoint is written. *)
MarkSubmission(r) ==
  /\ At(r, "open")
  /\ Store(r, SetSubmitted(runs[r], TRUE))
  /\ Goto(r, "submit")
  /\ UNCHANGED <<exc, offTask>>

(* The node lookup before the POST fails, or Hermes never takes the POST. *)
SubmitFails(r) ==
  /\ At(r, "submit")
  /\ \E err \in {Transient} \cup PostErrors : Raise(r, err)
  /\ UNCHANGED <<runs, offTask>>

SubmitAccepted(r) ==
  /\ At(r, "submit")
  /\ Goto(r, "stream")
  /\ turns' = [turns EXCEPT ![SessionOf[r]] =
                  @ \cup {[by |-> r, attempt |-> runs[r].attempts]}]
  /\ accepted' = [accepted EXCEPT ![r] = @ \cup {runs[r].attempts}]
  /\ UNCHANGED <<runs, exc, posting, answering, chat, up, messages, closed, budget>>

(* The message that ended this attempt's turn, once Hermes recorded it. *)
OwnFinals(r) ==
  {m \in ToSet(messages[SessionOf[r]]) :
     m.turn = [by |-> r, attempt |-> runs[r].attempts] /\ m.kind # "work"}

StreamCompletes(r) ==
  /\ At(r, "stream")
  /\ OwnFinals(r) # {}
  /\ Goto(r, "result")
  /\ UNCHANGED <<runs, exc, offTask>>

StreamBreaks(r) ==
  /\ At(r, "stream")
  /\ \E err \in {Internal, LostPost} : Raise(r, err)
  /\ UNCHANGED <<runs, offTask>>

(* _result_from_hermes_payload prefers the recorded turn, and falls back   *)
(* to the streamed content when the read fails with an HTTP error.         *)
PersistResult(r) ==
  /\ At(r, "result")
  /\ \E outcome \in Recovered(r) \cup
                    {OutcomeOf(runs[r], SessionOf[r], m) : m \in OwnFinals(r)} :
       Store(r, PersistOutcome(runs[r], outcome))
  /\ Goto(r, "none")
  /\ UNCHANGED <<exc, offTask>>

ResultReadFails(r) ==
  /\ At(r, "result")
  /\ Raise(r, Internal)
  /\ UNCHANGED <<runs, offTask>>

(* The handler of every exception above inspects Hermes once more. *)
HandleError(r) ==
  /\ At(r, "except")
  /\ \/ /\ \E outcome \in Recovered(r) : Store(r, PersistOutcome(runs[r], outcome))
        /\ Goto(r, "none")
     \/ ~Recovers(r) /\ FailOrRetry(r, IF Progressed(r) THEN Internal ELSE exc[r])
     \/ FailOrRetry(r, exc[r])          (* the inspection failed as well *)
  /\ exc' = [exc EXCEPT ![r] = NoError]
  /\ UNCHANGED offTask

-----------------------------------------------------------------------------
(* What careful clients wait for: the documents ask them to submit the     *)
(* runs of a session one after another and not to chat in it               *)
(* (docs/api/middle-platform-agent-api.md:304, 308;                        *)
(* docs/archs/system-overview.md:115; docs/api/internal-test-api.md:147).  *)
(* The service does not see to it: it accepts a run, an answer or a repeat *)
(* at any time, and its claims only keep two tasks of one session from     *)
(* running at once.                                                        *)

NotAnswering == [step |-> "idle", run |-> Nil, baseline |-> 0]
Answering    == [step : {"checked", "read"}, run : Runs, baseline : Nat] \cup {NotAnswering}

AnswersTo(r) == {q \in Requests : answering[q].run = r}

InUse(r) ==
  runs[r].status \in Resumable \/ posting[r] # NotPosting \/ AnswersTo(r) # {}

(* Nobody else is at work in the session of a run: no chat, no other run,  *)
(* no request for one, and no turn that Hermes has not ended.              *)
FreeFor(r) ==
  /\ chat[SessionOf[r]] = "idle"
  /\ \A turn \in turns[SessionOf[r]] : turn.by = r
  /\ \A other \in Runs \ {r} : SessionOf[other] = SessionOf[r] => ~InUse(other)

(* Nobody else has left anything in the session since the leg began: the   *)
(* run that is repeated is the last thing the session was used for.        *)
Undisturbed(r) ==
  LET log == messages[SessionOf[r]]
  IN \A i \in 1 .. Len(log) :
       i > runs[r].baseline \/ log[i].turn \notin runs[r].artifacts => log[i].turn.by = r

-----------------------------------------------------------------------------
(* POST /runs.  The message count is read one await before create_or_get.  *)
(* A submission that names no session gets the one that its key determines *)
(* (_ensure_middle_platform_session), so that the session of a run is the  *)
(* same in every repeat of it: SessionOf.                                  *)

PostRun(r) ==
  /\ Serving
  /\ runs[r].status = "absent" /\ posting[r] = NotPosting
  /\ SessionOf[r] \notin closed
  /\ SerialClients => FreeFor(r)
  /\ posting' = [posting EXCEPT ![r] = [step     |-> "reading",
                                        baseline |-> MessageCount(SessionOf[r])]]
  /\ UNCHANGED <<runs, pc, exc, answering, chat, up, hermes, accepted, budget>>

CreateRun(r) ==
  /\ Serving
  /\ posting[r].step = "reading" /\ runs[r].status = "absent"
  /\ Store(r, NewRun(posting[r].baseline, ArtifactTurns(SessionOf[r])))
  /\ pc' = Spawned(r)
  /\ posting' = [posting EXCEPT ![r] = NotPosting]
  /\ UNCHANGED <<exc, answering, chat, up, hermes, accepted, budget>>

(* The same request again: respawn an unfinished run, or retry a failed    *)
(* one whose error says that is safe.                                      *)
RepostRun(r) ==
  /\ Serving
  /\ SessionOf[r] \notin closed
  /\ \/ /\ runs[r].status \in Resumable
        /\ pc' = Spawned(r)
        /\ UNCHANGED <<runs, posting>>
     \/ /\ runs[r].status = "failed"
        /\ MayRetry(runs[r].error) /\ RetryAttempts(runs[r]) < MaxAttempts
        /\ SerialClients => FreeFor(r) /\ Undisturbed(r)
        /\ Store(r, SetSubmitted(runs[r], FALSE))
        /\ posting' = [posting EXCEPT ![r].step = "requeueing"]
        /\ UNCHANGED pc
  /\ UNCHANGED <<exc, answering, chat, up, hermes, accepted, budget>>

RequeueByClient(r) ==
  /\ up /\ Requeueing(r)
  /\ IF RetryAllowed(runs[r])
     THEN Store(r, Retry(runs[r])) /\ pc' = Spawned(r)
     ELSE UNCHANGED <<runs, pc>>
  /\ posting' = [posting EXCEPT ![r] = NotPosting]
  /\ UNCHANGED <<exc, answering, chat, up, hermes, accepted, budget>>

-----------------------------------------------------------------------------
(* POST /input.  The waiting record is checked first, then the session and *)
(* its messages are read, and only then does resume_with_input run.        *)

PostAnswer(q, r) ==
  /\ Serving
  /\ answering[q] = NotAnswering
  /\ SerialClients => FreeFor(r) /\ \A other \in AnswersTo(r) : KeyOf[other] = KeyOf[q]
  /\ ~HasReceipt(runs[r], KeyOf[q])
  /\ runs[r].status = "waiting_input"
  /\ answering' = [answering EXCEPT ![q] = [step |-> "checked", run |-> r, baseline |-> 0]]
  /\ UNCHANGED <<runs, pc, exc, posting, chat, up, hermes, accepted, budget>>

(* A closed session or a failed read ends the request with an error. *)
ReadForAnswer(q) ==
  /\ Serving
  /\ answering[q].step = "checked"
  /\ LET r == answering[q].run
         s == SessionOf[r]
     IN \/ /\ s \notin closed
           /\ answering' = [answering EXCEPT ![q] =
                               [step |-> "read", run |-> r, baseline |-> MessageCount(s)]]
        \/ answering' = [answering EXCEPT ![q] = NotAnswering]
  /\ UNCHANGED <<runs, pc, exc, posting, chat, up, hermes, accepted, budget>>

AcceptAnswer(q) ==
  /\ Serving
  /\ answering[q].step = "read"
  /\ LET r == answering[q].run
         k == KeyOf[q]
     IN \/ /\ HasReceipt(runs[r], k)
           /\ pc' = IF runs[r].status \in Resumable THEN Spawned(r) ELSE pc
           /\ UNCHANGED runs
        \/ /\ ~HasReceipt(runs[r], k) /\ runs[r].status = "waiting_input"
           /\ Store(r, ResumeWithInput(runs[r], k, answering[q].baseline,
                                       ArtifactTurns(SessionOf[r])))
           /\ pc' = Spawned(r)
        \/ /\ ~HasReceipt(runs[r], k) /\ runs[r].status # "waiting_input"
           /\ UNCHANGED <<runs, pc>>                          (* 409 *)
  /\ answering' = [answering EXCEPT ![q] = NotAnswering]
  /\ UNCHANGED <<exc, posting, chat, up, hermes, accepted, budget>>

(* The same answer again: the receipt is found and the run respawned. *)
ReplayAnswer(r) ==
  /\ Serving
  /\ runs[r].receipts # {} /\ runs[r].status \in Resumable
  /\ pc' = Spawned(r)
  /\ UNCHANGED <<runs, exc, offTask>>

-----------------------------------------------------------------------------
(* The interactive chat routes claim the same sessions.                    *)

ChatStartsBeside(s) ==                                                       (* mutant *)
  /\ Serving
  /\ s \notin closed
  /\ chat[s] = "idle"
  /\ budget.chats < MaxChats
  /\ budget' = [budget EXCEPT !.chats = @ + 1]
  /\ chat' = [chat EXCEPT ![s] = "claimed"]
  /\ UNCHANGED <<runs, pc, exc, posting, answering, up, hermes, accepted>>

ChatStarts(s) ==
  /\ Serving
  /\ s \notin closed
  /\ chat[s] = "idle"
  /\ \A r \in Runs : SessionOf[r] = s => pc[r] \notin Exclusive
  /\ SerialClients => \A r \in Runs : SessionOf[r] = s => ~InUse(r)
  /\ budget.chats < MaxChats
  /\ budget' = [budget EXCEPT !.chats = @ + 1]
  /\ chat' = [chat EXCEPT ![s] = "claimed"]
  /\ UNCHANGED <<runs, pc, exc, posting, answering, up, hermes, accepted>>

ChatPosts(s) ==
  /\ Serving
  /\ chat[s] = "claimed"
  /\ SlotsInUse < Capacity
  /\ chat' = [chat EXCEPT ![s] = "posted"]
  /\ turns' = [turns EXCEPT ![s] = @ \cup {[by |-> Chat, attempt |-> budget.chats]}]
  /\ UNCHANGED <<runs, pc, exc, posting, answering, up, messages, closed, accepted, budget>>

(* Completion, an upstream error or a closed browser tab release the claim. *)
ChatEnds(s) ==
  /\ Serving
  /\ chat[s] # "idle"
  /\ chat' = [chat EXCEPT ![s] = "idle"]
  /\ UNCHANGED <<runs, pc, exc, posting, answering, up, hermes, accepted, budget>>

-----------------------------------------------------------------------------
(* Faults of the service.                                                  *)

(* A refused read or write of the state file.  Inside the attempt's try    *)
(* block it becomes an exception to handle; elsewhere it ends the task.    *)
StoreFails(r) ==
  /\ up
  /\ pc[r] \in Sync \/ (~InSync /\ pc[r] \notin {"none", "prepare", "submit", "stream"})
  /\ pc[r] = "slot" => SlotsInUse < Capacity
  /\ budget.faults < MaxStoreFaults
  /\ budget' = [budget EXCEPT !.faults = @ + 1]
  /\ IF pc[r] \in {"slot", "open", "result"}
     THEN Raise(r, Internal)
     ELSE Goto(r, "none") /\ exc' = [exc EXCEPT ![r] = NoError]
  /\ UNCHANGED <<runs, posting, answering, chat, up, hermes, accepted>>

StoreFailsForClient(r) ==
  /\ up /\ posting[r] # NotPosting
  /\ InSync => Requeueing(r)
  /\ budget.faults < MaxStoreFaults
  /\ budget' = [budget EXCEPT !.faults = @ + 1]
  /\ posting' = [posting EXCEPT ![r] = NotPosting]
  /\ UNCHANGED <<runs, pc, exc, answering, chat, up, hermes, accepted>>

(* Tasks, requests and chat claims live in memory; the records do not.     *)
Crash ==
  /\ up
  /\ budget.crashes < MaxCrashes
  /\ budget' = [budget EXCEPT !.crashes = @ + 1]
  /\ up' = FALSE
  /\ pc' = [r \in Runs |-> "none"]
  /\ exc' = [r \in Runs |-> NoError]
  /\ posting' = [r \in Runs |-> NotPosting]
  /\ answering' = [q \in Requests |-> NotAnswering]
  /\ chat' = [s \in Sessions |-> "idle"]
  /\ UNCHANGED <<runs, hermes, accepted>>

(* resume_agent_runs, at the start of the application's lifespan. *)
Restart ==
  /\ ~up
  /\ up' = TRUE
  /\ pc' = [r \in Runs |-> IF r \in ListResumable(runs) THEN "queued" ELSE "none"]
  /\ UNCHANGED <<runs, exc, posting, answering, chat, hermes, accepted, budget>>

-----------------------------------------------------------------------------
(* Hermes.                                                                 *)

HasMessage(s, turn) == turn \in ArtifactTurns(s)

Record(s, turn, kind) ==
  messages' = [messages EXCEPT ![s] = Append(@, [turn |-> turn, kind |-> kind])]

HermesWorks(s) ==
  /\ \E turn \in turns[s] : ~HasMessage(s, turn) /\ Record(s, turn, "work")
  /\ UNCHANGED <<service, turns, closed, budget>>

HermesEnds(s, kind) ==
  /\ \E turn \in turns[s] :
       /\ HasMessage(s, turn)
       /\ kind = "clarify" => turn.by # Chat
       /\ Record(s, turn, kind)
       /\ turns' = [turns EXCEPT ![s] = @ \ {turn}]
  /\ UNCHANGED <<service, closed, budget>>

(* A turn can die without an answer, even before its first message. *)
HermesDrops(s) ==
  /\ \E turn \in turns[s] : turns' = [turns EXCEPT ![s] = @ \ {turn}]
  /\ UNCHANGED <<service, messages, closed, budget>>

CloseSession(s) ==
  /\ s \notin closed
  /\ budget.closes < MaxCloses
  /\ budget' = [budget EXCEPT !.closes = @ + 1]
  /\ closed' = closed \cup {s}
  /\ UNCHANGED <<service, messages, turns>>

-----------------------------------------------------------------------------
Init ==
  /\ runs = [r \in Runs |-> Absent]
  /\ pc = [r \in Runs |-> "none"]
  /\ exc = [r \in Runs |-> NoError]
  /\ posting = [r \in Runs |-> NotPosting]
  /\ answering = [q \in Requests |-> NotAnswering]
  /\ chat = [s \in Sessions |-> "idle"]
  /\ up = TRUE
  /\ messages = [s \in Sessions |-> <<>>]
  /\ turns = [s \in Sessions |-> {}]
  /\ closed = {}
  /\ accepted = [r \in Runs |-> {}]
  /\ budget = [crashes |-> 0, faults |-> 0, chats |-> 0, closes |-> 0]

Reconciles(r) == ReconcileRecovers(r) \/ ReconcileGivesUp(r) \/ ReconcileContinues(r)

Attempts(r) ==
  \/ ClaimRun(r) \/ ReadSession(r) \/ ReadSessionFails(r) \/ MarkSubmission(r)
  \/ SubmitFails(r) \/ SubmitAccepted(r)
  \/ StreamCompletes(r) \/ StreamBreaks(r)
  \/ PersistResult(r) \/ ResultReadFails(r)

TaskStep(r) ==
  \/ StartRun(r) \/ SessionBusy(r)
  \/ ReconcileReadFails(r) \/ Reconciles(r)
  \/ Attempts(r)
  \/ HandleError(r) \/ ClearSubmission(r) \/ Requeue(r) \/ BackoffEnds(r)

ClientStep(r) ==
  \/ PostRun(r) \/ CreateRun(r) \/ RepostRun(r) \/ RequeueByClient(r)
  \/ \E q \in Requests : PostAnswer(q, r)
  \/ ReplayAnswer(r)

ChatStep(s) == ChatStarts(s) \/ ChatPosts(s) \/ ChatEnds(s)

HermesStep(s) ==
  \/ HermesWorks(s) \/ HermesDrops(s) \/ CloseSession(s)
  \/ \E kind \in {"final", "clarify"} : HermesEnds(s, kind)

Next ==
  \/ \E r \in Runs : TaskStep(r) \/ ClientStep(r) \/ StoreFails(r) \/ StoreFailsForClient(r)
  \/ \E q \in Requests : ReadForAnswer(q) \/ AcceptAnswer(q)
  \/ \E s \in Sessions : ChatStep(s) \/ HermesStep(s)
  \/ Crash \/ Restart

Spec == Init /\ [][Next]_vars

(* Every task is scheduled again, a crashed service is restarted, a chat   *)
(* ends, and a client's request that began its two writes finishes them.   *)
(* Hermes reads fail again and again but not for ever: a run that keeps    *)
(* reaching its reconciliation is once able to read.                       *)
Fairness ==
  /\ \A r \in Runs : WF_vars(TaskStep(r)) /\ WF_vars(RequeueByClient(r))
  /\ \A r \in Runs : SF_vars(Reconciles(r))
  /\ \A s \in Sessions : WF_vars(ChatEnds(s))
  /\ WF_vars(Restart)

FairSpec == Spec /\ Fairness

-----------------------------------------------------------------------------
(* Properties.                                                             *)

TypeOK ==
  /\ runs \in [Runs -> Run]
  /\ pc \in [Runs -> Location]
  /\ exc \in [Runs -> Error]
  /\ posting \in [Runs -> Posting]
  /\ answering \in [Requests -> Answering]
  /\ chat \in [Sessions -> {"idle", "claimed", "posted"}]
  /\ up \in BOOLEAN
  /\ messages \in [Sessions -> Seq(Message)]
  /\ turns \in [Sessions -> SUBSET Turn]
  /\ closed \subseteq Sessions
  /\ accepted \in [Runs -> SUBSET Nat]
  /\ budget \in Budget

(* The attempts of a leg never exceed the limit, and a pending run always  *)
(* has one left: list_resumable skips exhausted pending runs, so one would *)
(* be pending for ever.                                                    *)
AttemptBudget ==
  \A r \in Runs : /\ RetryAttempts(runs[r]) <= MaxAttempts
                  /\ runs[r].status = "pending" => RetryAttempts(runs[r]) < MaxAttempts

(* A pending run carries no submission mark, wherever a crash or a refused *)
(* write interrupts the three writes of a retry: marked, the next worker   *)
(* would take it for an unknown submission and never execute it.           *)
PendingNotSubmitted ==
  \A r \in Runs : runs[r].status = "pending" => ~runs[r].submitted

(* A task that works on a run finds it in the state it expects, so that no *)
(* store transition is refused: it owns the record from the claim of its   *)
(* session until it stops, whatever clients and other tasks do meanwhile.  *)
WorkerOwnsRun ==
  \A r \in Runs :
    /\ pc[r] \in Exclusive \ Sync => runs[r].status \in Resumable
    /\ pc[r] \in Slotted \cup {"result"} => runs[r].status = "running"

(* Whoever is between the writes of a retry works on a failed record that  *)
(* may be retried, and clears the submission mark before it requeues it.   *)
RetriesAreClean ==
  \A r \in Runs :
    /\ pc[r] \in Sync \/ Requeueing(r) => /\ runs[r].status = "failed"
                                         /\ MayRetry(runs[r].error)
    /\ pc[r] = "requeueing" \/ Requeueing(r) => ~runs[r].submitted
    /\ Requeueing(r) => pc[r] \notin Sync

(* One session is driven by one run or one chat at a time, and the process *)
(* never has more turns under way than the limiter has slots.              *)
SessionExclusive ==
  /\ \A s \in Sessions :
       LET workers == {r \in Runs : SessionOf[r] = s /\ pc[r] \in Exclusive}
       IN Cardinality(workers) + (IF chat[s] = "idle" THEN 0 ELSE 1) <= 1
  /\ SlotsInUse <= Capacity

(* Between two answers of the user, Hermes accepts the POST of at most one *)
(* attempt: retries, crashes, lost responses and repeated requests never   *)
(* make it execute the same question twice.                                *)
AtMostOncePerLeg ==
  \A r \in Runs : \A m, n \in accepted[r] :
    m > runs[r].epoch /\ n > runs[r].epoch => m = n

Executed(r) == \E n \in accepted[r] : n > runs[r].epoch

(* Once Hermes accepted a turn of the current leg, the record says so      *)
(* wherever the service stops: it is running and marked as submitted, or   *)
(* it is settled with no failure that may be retried.                      *)
ExecutionIsRecorded ==
  \A r \in Runs :
    /\ \A n \in accepted[r] : n <= runs[r].attempts
    /\ Executed(r) =>
         \/ /\ runs[r].status = "running" /\ runs[r].submitted
            /\ pc[r] \in {"none", "queued", "reconcile", "stream", "result", "except"}
            /\ pc[r] = "except" => ~MayRetry(exc[r])
         \/ runs[r].status \in {"waiting_input", "succeeded"}
         \/ runs[r].status = "failed" /\ ~MayRetry(runs[r].error)

(* The answer a finished run reports, the files listed with it, and what a *)
(* waiting run asks its user come from the turn of its current leg: not    *)
(* from an earlier leg, nor, where clients use the session for one thing   *)
(* at a time (SerialClients), from another run of the session.  With       *)
(* SerialClients = FALSE the service does report another run's answer.     *)
OutcomeOfOwnLeg ==
  \A r \in Runs :
    LET own == {[by |-> r, attempt |-> n] : n \in {m \in accepted[r] : m > runs[r].epoch}}
    IN /\ runs[r].status = "succeeded" =>
            /\ runs[r].result.answer \in own
            /\ runs[r].result.artifacts \subseteq own
       /\ runs[r].status = "waiting_input" => runs[r].clarification.question \in own

(* A question is answered once and an answer given once: whatever requests *)
(* were repeated or raced, every accepted answer answered an open question *)
(* of its own, and no repeat of it answers the next one.  A write that the *)
(* state file refuses may undo this; see the README.                       *)
OneAnswerPerQuestion ==
  \A r \in Runs : \A one, two \in runs[r].receipts :
    /\ one.clarification # Nil
    /\ one.clarification = two.clarification \/ one.key = two.key => one = two

Decided(run) ==
  run.status = "succeeded" \/ (run.status = "failed" /\ run.error.unknown)

(* A result, once reported, is never withdrawn; and a failure whose        *)
(* outcome is unknown is never retried by the service or by a repeated     *)
(* request.                                                                *)
TerminalIsFinal ==
  [][\A r \in Runs :
       Decided(runs[r]) => runs'[r] = runs[r]]_vars

(* A run waiting for input stays dormant: only an accepted answer moves    *)
(* it, never a restart or a repeated POST /runs.                           *)
WaitingIsDormant ==
  [][\A r \in Runs :
       runs[r].status = "waiting_input" /\ runs'[r] # runs[r] =>
         /\ runs'[r].status = "pending"
         /\ \E receipt \in runs'[r].receipts \ runs[r].receipts :
              receipt.clarification = runs[r].clarification]_vars

(* Every submitted run comes to rest: it succeeded, failed, or asks its    *)
(* user, and no task works on it any more.                                 *)
EveryRunSettles ==
  \A r \in Runs :
    runs[r].status \in Resumable ~> (runs[r].status \notin Resumable /\ pc[r] = "none")

-----------------------------------------------------------------------------
(* The durable runs implement RunLifecycle.                                *)

ClientView(run) ==
  CASE run.status \in Resumable      -> "working"
    [] run.status = "waiting_input"  -> "waiting"
    [] run.status = "succeeded"      -> "done"
    [] run.status = "failed"         -> IF MayRetry(run.error) THEN "retryable" ELSE "failed"
    [] OTHER                         -> "absent"

Lifecycle == INSTANCE RunLifecycle WITH
  state    <- [r \in Runs |-> ClientView(runs[r])],
  legs     <- [r \in Runs |-> Cardinality(runs[r].receipts)],
  executed <- [r \in Runs |-> Cardinality(accepted[r])]

(* The client is kept the promises of RunLifecycle, through crashes,       *)
(* refused writes, lost responses and repeated requests.                   *)
ImplementsLifecycle == Lifecycle!Spec
=============================================================================
