---------------------------- MODULE RunLifecycle ----------------------------
(***************************************************************************)
(* What a durable Agent run promises the client that submitted it.         *)
(*                                                                         *)
(* A run works until it has an answer, a question for its user or an       *)
(* error.  Each answer of the user starts a new leg.  In a leg Hermes      *)
(* executes at most one turn, a run finishes or asks only after executing  *)
(* one, and an error that invites the client to retry means none was.      *)
(***************************************************************************)
EXTENDS Integers

CONSTANT Runs

VARIABLES
  state,    (* what GET /runs/{id} tells the client          *)
  legs,     (* how many answers of the user were accepted    *)
  executed  (* how many turns Hermes accepted for the run    *)

lifecycle == <<state, legs, executed>>

States == {"absent", "working", "waiting", "done", "retryable", "failed"}

Move(r, from, to) == state[r] = from /\ state' = [state EXCEPT ![r] = to]

Executing(r) == executed[r] = legs[r] + 1

Submit(r) == Move(r, "absent", "working") /\ UNCHANGED <<legs, executed>>

Execute(r) ==
  /\ state[r] = "working" /\ ~Executing(r)
  /\ executed' = [executed EXCEPT ![r] = @ + 1]
  /\ UNCHANGED <<state, legs>>

Finish(r) == Executing(r) /\ Move(r, "working", "done") /\ UNCHANGED <<legs, executed>>

Ask(r) == Executing(r) /\ Move(r, "working", "waiting") /\ UNCHANGED <<legs, executed>>

Answer(r) ==
  /\ Move(r, "waiting", "working")
  /\ legs' = [legs EXCEPT ![r] = @ + 1]
  /\ UNCHANGED executed

FailSafely(r) ==
  /\ ~Executing(r)
  /\ Move(r, "working", "retryable")
  /\ UNCHANGED <<legs, executed>>

Retry(r) == Move(r, "retryable", "working") /\ UNCHANGED <<legs, executed>>

FailForGood(r) == Move(r, "working", "failed") /\ UNCHANGED <<legs, executed>>

Init ==
  /\ state = [r \in Runs |-> "absent"]
  /\ legs = [r \in Runs |-> 0]
  /\ executed = [r \in Runs |-> 0]

Next ==
  \E r \in Runs :
    \/ Submit(r) \/ Execute(r) \/ Finish(r) \/ Ask(r)
    \/ Answer(r) \/ FailSafely(r) \/ Retry(r) \/ FailForGood(r)

Spec == Init /\ [][Next]_lifecycle
=============================================================================
