--------------------------- MODULE AgentRunStore ---------------------------
(***************************************************************************)
(* The transactions of the durable Agent run store (api/agent_runs.py).    *)
(*                                                                         *)
(* Every method of AgentRunStore loads the JSON document under a process   *)
(* lock and a file lock, changes one record and replaces the file, so a    *)
(* transaction is a function from the old record to the new one.  Each     *)
(* operator below is one such function; a caller composes them.            *)
(*                                                                         *)
(* A record keeps the fields the control flow reads.  Timestamps, the      *)
(* request text, the request id and the answer text are left out; a        *)
(* clarification is named by the attempt that persisted it and the turn    *)
(* that asked it, which is what its digest is computed from.               *)
(*                                                                         *)
(* An operator marked as a mutant is a faulty form of the definition after *)
(* it; no definition uses it.                                              *)
(***************************************************************************)
EXTENDS Integers, FiniteSets

CONSTANTS
  Runs,         (* run ids: digests of owner, session and idempotency key *)
  Chat,         (* who a turn of the interactive chat route belongs to    *)
  Keys,         (* idempotency keys of clarification answers              *)
  MaxAttempts,  (* XPD_AGENT_RUN_MAX_ATTEMPTS, 1 to 3                     *)
  Nil

ASSUME ChatAssumption == Chat \notin Runs
ASSUME MaxAttemptsAssumption == MaxAttempts \in Nat \ {0}

ResumableOrWaiting == {"pending", "running", "waiting_input"}                (* mutant *)

Resumable == {"pending", "running"}
Statuses  == {"absent", "pending", "running", "waiting_input", "succeeded", "failed"}

(* One Hermes turn: the POST that a run's attempt, or a chat, had accepted. *)
Turn == [by : Runs \cup {Chat}, attempt : Nat]

Error == [retryable : BOOLEAN, unknown : BOOLEAN]

Clarification == [question : Turn, attempt : Nat]
Receipt       == [key : Keys, clarification : Clarification \cup {Nil}]
Outcome       == [kind : {"final", "clarify"}, answer : Turn, artifacts : SUBSET Turn]

ASSUME NilAssumption == Nil \notin Runs /\ Nil \notin Clarification

Run == [status        : Statuses,
        attempts      : Nat,
        epoch         : Nat,
        submitted     : BOOLEAN,
        baseline      : Nat,
        artifacts     : SUBSET Turn,
        receipts      : SUBSET Receipt,
        clarification : Clarification \cup {Nil},
        error         : Error,
        result        : Outcome \cup {Nil}]

(* The error field of a record that is not failed; nothing reads it then. *)
NoError == [retryable |-> FALSE, unknown |-> FALSE]

-----------------------------------------------------------------------------
NewRun(baseline, artifacts) ==
  [status        |-> "pending",
   attempts      |-> 0,
   epoch         |-> 0,
   submitted     |-> FALSE,
   baseline      |-> baseline,
   artifacts     |-> artifacts,
   receipts      |-> {},
   clarification |-> Nil,
   error         |-> NoError,
   result        |-> Nil]

Absent == [NewRun(0, {}) EXCEPT !.status = "absent"]

AllAttempts(run) == run.attempts                                             (* mutant *)

(* run_retry_attempt_count: attempts of the current leg only. *)
RetryAttempts(run) ==
  IF run.epoch <= run.attempts THEN run.attempts - run.epoch ELSE 0

ClaimPending(run) ==
  [run EXCEPT !.status = "running", !.attempts = @ + 1, !.error = NoError]

NeverCleared(run, started) == [run EXCEPT !.submitted = @ \/ started]        (* mutant *)

SetSubmitted(run, started) == [run EXCEPT !.submitted = started]

(* A record that is already failed keeps its first error. *)
MarkFailed(run, err) ==
  IF run.status = "failed"
  THEN run
  ELSE [run EXCEPT !.status = "failed", !.error = err, !.result = Nil,
                   !.clarification = Nil]

RetryAllowed(run) == run.status = "failed" /\ RetryAttempts(run) < MaxAttempts

Retry(run) ==
  [run EXCEPT !.status = "pending", !.error = NoError, !.result = Nil,
              !.clarification = Nil]

MarkSucceeded(run, outcome) ==
  [run EXCEPT !.status = "succeeded", !.result = outcome, !.error = NoError,
              !.clarification = Nil]

MarkWaitingInput(run, outcome) ==
  [run EXCEPT !.status = "waiting_input",
              !.submitted = FALSE,
              !.clarification = [question |-> outcome.answer, attempt |-> run.attempts],
              !.error = NoError,
              !.result = Nil]

PersistOutcome(run, outcome) ==
  IF outcome.kind = "clarify" THEN MarkWaitingInput(run, outcome)
                              ELSE MarkSucceeded(run, outcome)

NoReceipts(run, key) == FALSE                                                (* mutant *)

HasReceipt(run, key) == \E receipt \in run.receipts : receipt.key = key

ResumeWithInput(run, key, baseline, artifacts) ==
  [run EXCEPT !.status = "pending",
              !.receipts = @ \cup {[key |-> key, clarification |-> run.clarification]},
              !.baseline = baseline,
              !.artifacts = artifacts,
              !.submitted = FALSE,
              !.epoch = run.attempts,
              !.clarification = Nil,
              !.error = NoError,
              !.result = Nil]

(* list_resumable(max_attempts=...): what a restarted service spawns. *)
ListResumable(runs) ==
  {r \in Runs : \/ runs[r].status = "running"
                \/ /\ runs[r].status = "pending"
                   /\ RetryAttempts(runs[r]) < MaxAttempts}
=============================================================================
