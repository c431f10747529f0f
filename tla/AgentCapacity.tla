--------------------------- MODULE AgentCapacity ---------------------------
(***************************************************************************)
(* The process-wide limiter of agent turns (agent_capacity.py): an asyncio *)
(* semaphore, whose waiters are served in order, and the counters that the *)
(* health route reports.  The semaphore belongs to the Python library: a   *)
(* permit that is released goes to the first waiter, which takes it when   *)
(* it runs next, and one cancelled in between hands it on.                 *)
(*                                                                         *)
(* An operator marked as a mutant is a faulty form of the definition after *)
(* it; no definition uses it.                                              *)
(***************************************************************************)
EXTENDS Integers, Sequences, FiniteSets, SequencesExt

CONSTANTS Turns, Limit

ASSUME AgentCapacityAssumption == Limit \in Nat \ {0}

VARIABLES
    slot,       \* where each turn stands with the limiter
    queue,      \* the waiters of the semaphore, in order
    free,       \* its permits
    active, waiting  \* what health() reports

capacityVars == <<slot, queue, free, active, waiting>>

Places == {"out", "queued", "granted", "in"}

At(place) == {t \in Turns : slot[t] = place}

(* A released permit wakes the first waiter or becomes free again. *)
LosesWakeup(s, q) == slot' = s /\ queue' = q /\ free' = free       (* mutant *)

HandOn(s, q) ==
    IF q = <<>> THEN slot' = s /\ queue' = q /\ free' = free + 1
    ELSE slot' = [s EXCEPT ![Head(q)] = "granted"] /\ queue' = Tail(q) /\ free' = free

(* Entering counts the turn as waiting before it asks for a permit. *)
Enter(t) ==
    /\ slot[t] = "out"
    /\ IF free > 0 /\ queue = <<>>
       THEN /\ slot' = [slot EXCEPT ![t] = "in"]
            /\ free' = free - 1
            /\ active' = active + 1
            /\ UNCHANGED <<queue, waiting>>
       ELSE /\ slot' = [slot EXCEPT ![t] = "queued"]
            /\ queue' = Append(queue, t)
            /\ waiting' = waiting + 1
            /\ UNCHANGED <<free, active>>

Resume(t) ==
    /\ slot[t] = "granted"
    /\ slot' = [slot EXCEPT ![t] = "in"]
    /\ waiting' = waiting - 1
    /\ active' = active + 1
    /\ UNCHANGED <<queue, free>>

(* A turn cancelled while it waits is no longer counted; a permit it was   *)
(* granted but has not taken goes to the next waiter.                      *)
CancelWait(t) ==
    /\ slot[t] \in {"queued", "granted"}
    /\ waiting' = waiting - 1
    /\ IF slot[t] = "granted"
       THEN HandOn([slot EXCEPT ![t] = "out"], queue)
       ELSE /\ slot' = [slot EXCEPT ![t] = "out"]
            /\ \E i \in DOMAIN queue : queue[i] = t /\ queue' = RemoveAt(queue, i)
            /\ free' = free
    /\ active' = active

Leave(t) ==
    /\ slot[t] = "in"
    /\ active' = active - 1
    /\ HandOn([slot EXCEPT ![t] = "out"], queue)
    /\ waiting' = waiting

CapacityInit ==
    /\ slot = [t \in Turns |-> "out"]
    /\ queue = <<>>
    /\ free = Limit
    /\ active = 0 /\ waiting = 0

-----------------------------------------------------------------------------
(* The health route tells the truth and no permit is lost or made, however *)
(* turns enter, wait, are cancelled and leave.                             *)
SlotsAccounted ==
    /\ active = Cardinality(At("in"))
    /\ waiting = Cardinality(At("queued") \cup At("granted"))
    /\ free + Cardinality(At("in") \cup At("granted")) = Limit
    /\ ToSet(queue) = At("queued") /\ IsInjective(queue)
=============================================================================
