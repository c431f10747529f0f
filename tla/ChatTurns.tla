----------------------------- MODULE ChatTurns -----------------------------
(***************************************************************************)
(* Interactive turns (api/sessions.py): the two chat routes of a session,  *)
(* which claim the session, wait for a slot of the limiter and send the    *)
(* turn to the node of the session, next to any other calls to Hermes.     *)
(* The routes differ in order: chat takes its slot and then finds the      *)
(* node; the stream finds the node first, answers its client, and waits    *)
(* for its slot inside the response, where the client may leave.           *)
(***************************************************************************)
EXTENDS HermesRoutes, AgentCapacity

ASSUME TurnsAssumption == Turns = Requests

VARIABLES
    turn,     \* what each handler is doing
    chatting  \* _active_chat_sessions

vars == <<routeVars, capacityVars, turn, chatting>>

NoTurn == [stage |-> "none"]

Turn == [kind : {"chat", "stream"}, session : Sessions,
         stage : {"prepare", "route", "wait", "turn", "read"}]

StageIs(r, kind, stage) == turn[r] # NoTurn /\ turn[r].kind = kind /\ turn[r].stage = stage

Stage(r, stage) == turn' = [turn EXCEPT ![r].stage = stage]

(* The handler ends and gives the session back: the finally clauses. *)
Ends(r) ==
    /\ turn' = [turn EXCEPT ![r] = NoTurn]
    /\ chatting' = chatting \ {turn[r].session}

RestOfRoutes == UNCHANGED <<mode, ready, cache, fetching, scopes, sessions, reached, changes>>

-----------------------------------------------------------------------------
(* Handlers. *)

(* A session with a turn in progress is refused. *)
Claimable(s) == s \notin chatting

Begin(r) ==
    /\ turn[r] = NoTurn /\ req[r] = Idle
    /\ \E k \in {"chat", "stream"}, s \in Sessions :
          /\ Claimable(s)
          /\ turn' = [turn EXCEPT ![r] = [kind |-> k, session |-> s, stage |-> "prepare"]]
          /\ chatting' = chatting \cup {s}
    /\ UNCHANGED <<routeVars, capacityVars>>

Asks(r) == req' = [req EXCEPT ![r] =
    Asked(turn[r].session, OwnerOf[turn[r].session], TRUE)]

(* _prepare_session_turn may fail and ends the turn. *)
Prepared(r) ==
    \/ /\ StageIs(r, "chat", "prepare")
       /\ Stage(r, "wait") /\ Enter(r)
       /\ UNCHANGED <<routeVars, chatting>>
    \/ /\ StageIs(r, "stream", "prepare")
       /\ Stage(r, "route") /\ Asks(r)
       /\ UNCHANGED <<capacityVars, chatting>> /\ RestOfRoutes
    \/ /\ turn[r] # NoTurn /\ turn[r].stage = "prepare"
       /\ Ends(r)
       /\ UNCHANGED <<routeVars, capacityVars>>

(* The stream answers its client and asks for a slot, or has no node. *)
Opens(r) ==
    /\ StageIs(r, "stream", "route")
    /\ \/ /\ req[r].phase = "routed"
          /\ Stage(r, "wait") /\ Enter(r)
          /\ UNCHANGED <<routeVars, chatting>>
       \/ /\ req[r].phase = "failed"
          /\ Ends(r) /\ req' = [req EXCEPT ![r] = Idle]
          /\ UNCHANGED capacityVars /\ RestOfRoutes

(* With its slot a chat submits the turn. *)
Submits(r) ==
    /\ StageIs(r, "chat", "wait") /\ slot[r] = "in"
    /\ Stage(r, "turn") /\ Asks(r)
    /\ UNCHANGED <<capacityVars, chatting>> /\ RestOfRoutes

(* An answered chat reads the messages of the turn without a slot. *)
Submitted(r) ==
    /\ StageIs(r, "chat", "turn")
    /\ req[r].phase \in {"answered", "failed"}
    /\ Leave(r)
    /\ req' = [req EXCEPT ![r] = Idle]
    /\ IF req[r].phase = "failed" THEN Ends(r) ELSE Stage(r, "read") /\ UNCHANGED chatting
    /\ RestOfRoutes

Reads(r) ==
    /\ StageIs(r, "chat", "read")
    /\ Ends(r)
    /\ UNCHANGED <<routeVars, capacityVars>>

(* With its slot a stream sends the turn to the node it has found, once.   *)
Streams(r) ==
    /\ StageIs(r, "stream", "wait") /\ slot[r] = "in"
    /\ Stage(r, "turn")
    /\ req' = [req EXCEPT ![r].phase = "answered"]
    /\ \/ Reaches(r) \/ UNCHANGED reached
    /\ UNCHANGED <<mode, ready, cache, fetching, scopes, sessions, changes, capacityVars, chatting>>

StreamEnds(r) ==
    /\ StageIs(r, "stream", "turn")
    /\ Leave(r) /\ Ends(r)
    /\ req' = [req EXCEPT ![r] = Idle]
    /\ RestOfRoutes

(* The client of a stream leaves: the response is cancelled where it waits.*)
Disconnect(r) ==
    /\ StageIs(r, "stream", "wait") \/ StageIs(r, "stream", "turn")
    /\ \/ Leave(r) \/ CancelWait(r)
    /\ Ends(r)
    /\ req' = [req EXCEPT ![r] = Idle]
    /\ RestOfRoutes

-----------------------------------------------------------------------------
(* A stream that holds a node keeps it until it has its slot. *)
Calling(r) == turn[r] = NoTurn \/ StageIs(r, "chat", "turn") \/ StageIs(r, "stream", "route")

Routing(r) == Discover(r) \/ Fetch(r) \/ Probe(r)
Calls(r)   == ~StageIs(r, "stream", "route") /\ (Refused(r) \/ Sent(r))

CallStep(r) ==
    /\ Calling(r)
    /\ \/ Routing(r) \/ Calls(r)
       \/ /\ turn[r] = NoTurn
          /\ Ask(r) \/ Told(r)
    /\ UNCHANGED <<capacityVars, turn, chatting>>

HandlerStep(r) ==
    \/ Begin(r) \/ Prepared(r) \/ Opens(r) \/ Submits(r) \/ Submitted(r)
    \/ Reads(r) \/ Streams(r) \/ StreamEnds(r) \/ Disconnect(r)
    \/ Resume(r) /\ UNCHANGED <<routeVars, turn, chatting>>

Environment ==
    /\ CacheExpires \/ NodesChange \/ \E s \in Sessions : Forget(s)
    /\ UNCHANGED <<capacityVars, turn, chatting>>

Init == RouteInit /\ CapacityInit /\ turn = [r \in Requests |-> NoTurn] /\ chatting = {}

Next == Environment \/ \E r \in Requests : CallStep(r) \/ HandlerStep(r)

Spec == Init /\ [][Next]_vars

-----------------------------------------------------------------------------
(* Properties. *)

(* The type of the whole state: bindings are nodes or none, and requests  *)
(* count no more attempts than configured.                                 *)
TypeOK ==
    /\ RoutesOK
    /\ slot \in [Turns -> Places]
    /\ turn \in [Requests -> Turn \cup {NoTurn}]
    /\ chatting \subseteq Sessions

(* A session is claimed exactly while one handler works on it, and only    *)
(* such a handler holds or awaits a slot: on every path out, failing and   *)
(* abandoned ones included, both are given back.                           *)
ClaimsAccounted ==
    LET busy == {r \in Requests : turn[r] # NoTurn}
    IN  /\ chatting = {turn[r].session : r \in busy}
        /\ \A q, r \in busy : turn[q].session = turn[r].session => q = r
        /\ \A r \in Requests : slot[r] # "out" => r \in busy /\ turn[r].stage \in {"wait", "turn"}
        /\ \A r \in busy : turn[r].stage = "turn" => slot[r] = "in"

(* No slot and no claim is leaked and the health route counts right,       *)
(* whichever way a turn ends: answered, failed, cancelled while it waits   *)
(* (agent_capacity.py) or left by its client (the finally clauses of       *)
(* session_chat_stream).                                                   *)
NothingLeaks == SlotsAccounted /\ ClaimsAccounted
=============================================================================
