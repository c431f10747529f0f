--------------------------- MODULE Clarifications ---------------------------
(***************************************************************************)
(* The questions an agent asks its user in the middle of a turn            *)
(* (runtime/hermes_clarify.py): the registry that the threads of the       *)
(* agents and the handlers of the answers share, the handler of a chat     *)
(* stream, which expires the questions of its session when it starts an    *)
(* agent and when it ends, and the callback through which an agent asks    *)
(* and waits.                                                              *)
(*                                                                         *)
(* An agent waits for each question before it asks another, so the         *)
(* registry holds at most one question of each turn.  Registry operations  *)
(* hold its lock and are one step each.                                    *)
(*                                                                         *)
(* An operator marked as a mutant is a faulty form of the definition after *)
(* it; no definition uses it.                                              *)
(***************************************************************************)
EXTENDS ToolTurns

VARIABLES
    stream,   \* the handler of each turn
    agent,    \* the thread of each agent
    question  \* the question that each agent asked last

clarifyVars == <<stream, agent, question>>

NoQuestion == [status |-> "none"]

Question == [status : {"pending", "answered", "expired"},
             listed : BOOLEAN,  \* in the registry
             ready : BOOLEAN,   \* its event is set
             time : {"before", "edge", "after"}, \* against expires_at
             told : BOOLEAN,    \* the client was told that its answer counts
             used : BOOLEAN]    \* the agent went on with the answer

Asked == [status |-> "pending", listed |-> TRUE, ready |-> FALSE, time |-> "before",
          told |-> FALSE, used |-> FALSE]

Listed(t) == question[t] # NoQuestion /\ question[t].listed

(* expire_session leaves answered questions alone.                         *)
(* The code compares the owner as well, which a session determines.        *)
PendingOf(s) == {t \in Turns : Listed(t) /\ SessionOf[t] = s /\ question[t].status = "pending"}

ExpiresAll(s) == question' = [t \in Turns |->                    (* mutant *)
    IF Listed(t) /\ SessionOf[t] = s THEN [question[t] EXCEPT !.status = "expired", !.ready = TRUE]
    ELSE question[t]]

Expires(s) == question' = [t \in Turns |->
    IF t \in PendingOf(s) THEN [question[t] EXCEPT !.status = "expired", !.ready = TRUE]
    ELSE question[t]]

-----------------------------------------------------------------------------
(* The handler of the stream.  It may end, because its client left, while  *)
(* the thread of its agent goes on, and at any time after the next stream  *)
(* of the session has begun.                                               *)

Opens(t) ==
    /\ stream[t] = "new"
    /\ stream' = [stream EXCEPT ![t] = "open"]
    /\ agent' = [agent EXCEPT ![t] = "idle"]
    /\ Expires(SessionOf[t])

Closes(t) ==
    /\ stream[t] = "open"
    /\ stream' = [stream EXCEPT ![t] = "closed"]
    /\ Expires(SessionOf[t])
    /\ UNCHANGED agent

-----------------------------------------------------------------------------
(* The thread of the agent. *)

Ask(t) ==
    /\ agent[t] = "idle"
    /\ agent' = [agent EXCEPT ![t] = "asking"]
    /\ question' = [question EXCEPT ![t] = Asked]
    /\ UNCHANGED stream

(* A question that cannot be delivered is discarded and stops the agent. *)
Deliver(t) ==
    /\ agent[t] = "asking"
    /\ \/ agent' = [agent EXCEPT ![t] = "waiting"] /\ UNCHANGED question
       \/ /\ agent' = [agent EXCEPT ![t] = "stopped"]
          /\ question' = [question EXCEPT ![t] =
                 [@ EXCEPT !.status = "expired", !.listed = FALSE, !.ready = TRUE]]
    /\ UNCHANGED stream

Later(t) ==
    /\ Listed(t) /\ question[t].time # "after"
    /\ question' = [question EXCEPT ![t].time = IF @ = "before" THEN "edge" ELSE "after"]
    /\ UNCHANGED <<stream, agent>>

(* The event was set or the timeout ran out; the lock is still to be taken.*)
IfSet(t) == question[t].ready                                    (* mutant *)
Over(t)  == question[t].ready \/ question[t].time # "before"

Wakes(t) ==
    /\ agent[t] = "waiting" /\ Over(t)
    /\ agent' = [agent EXCEPT ![t] = "awake"]
    /\ UNCHANGED <<stream, question>>

(* An answer that won the lock at the boundary remains valid. *)
Valid(t) == question[t].status = "answered"

Settles(t) ==
    /\ agent[t] = "awake"
    /\ question' = [question EXCEPT ![t] =
           [@ EXCEPT !.listed = FALSE, !.used = Valid(t),
                     !.status = IF Valid(t) THEN "answered" ELSE "expired"]]
    /\ agent' = [agent EXCEPT ![t] = IF Valid(t) THEN "idle" ELSE "stopped"]
    /\ UNCHANGED stream

-----------------------------------------------------------------------------
(* The handler of an answer, for a question that the client was shown; a   *)
(* question that is settled, expired or answered is refused.               *)
Answer(t) ==
    /\ agent[t] \in {"waiting", "awake"} /\ Listed(t)
    /\ question[t].status = "pending"
    /\ question' = [question EXCEPT ![t] =
           IF @.time = "after" THEN [@ EXCEPT !.status = "expired", !.ready = TRUE]
           ELSE [@ EXCEPT !.status = "answered", !.ready = TRUE, !.told = TRUE]]
    /\ UNCHANGED <<stream, agent>>

ClarifyInit ==
    /\ stream = [t \in Turns |-> "new"]
    /\ agent = [t \in Turns |-> "none"]
    /\ question = [t \in Turns |-> NoQuestion]

Clarifies(t) ==
    Opens(t) \/ Closes(t) \/ Deliver(t) \/ Later(t) \/ Wakes(t) \/ Settles(t) \/ Answer(t)

-----------------------------------------------------------------------------
ClarifyOK ==
    /\ stream \in [Turns -> {"new", "open", "closed"}]
    /\ agent \in [Turns -> {"none", "idle", "asking", "waiting", "awake", "stopped", "lost"}]
    /\ question \in [Turns -> Question \cup {NoQuestion}]

(* An answer that the client was told is taken is the one the agent goes   *)
(* on with, and an agent never goes on without one: whatever the order of  *)
(* answers, timeouts, the end of the stream and the start of the next.     *)
(* Only a crash of Hermes ("lost") is excepted.                            *)
AnswersAreUsed ==
    \A t \in Turns : question[t] # NoQuestion =>
        /\ question[t].used => question[t].told
        /\ agent[t] \in {"idle", "stopped"} => question[t].used = question[t].told
        /\ agent[t] = "idle" => question[t].used
=============================================================================
