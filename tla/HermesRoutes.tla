---------------------------- MODULE HermesRoutes ----------------------------
(***************************************************************************)
(* Which Hermes node serves a request: discovery of the nodes with its     *)
(* cache (kubernetes_discovery.py), the durable bindings of owners and     *)
(* sessions (HermesRouteStore and HermesPool in hermes_pool.py), and the   *)
(* resolution of one request (resolve_hermes_node in hermes_routing.py).   *)
(*                                                                         *)
(* A request awaits twice at most, when the nodes are fetched and when     *)
(* they are probed; everything between is one step.  Node and owner names  *)
(* are model values; the hash that breaks ties between nodes is an         *)
(* arbitrary choice.                                                       *)
(*                                                                         *)
(* An operator marked as a mutant is a faulty form of the definition after *)
(* it; no definition uses it.                                              *)
(***************************************************************************)
EXTENDS Integers, FiniteSets

CONSTANTS Nodes,      \* configured nodes, or Pods that may exist
          Leader,     \* the node of the scheduler, XPD_HERMES_SCHEDULER_NODE
          Scopes,     \* owners
          Sessions,
          OwnerOf,    \* the owner in a session id
          Requests,
          Modes,      \* the deployments considered: records of type Mode
          MaxAttempts, \* XPD_HERMES_CONNECT_MAX_ATTEMPTS, 3 unless set
          MaxChanges, \* bound on the changes of the nodes
          None, Cron  \* no node or session; the target of scheduler calls

(* Static or discovered nodes, XPD_HERMES_ROUTE_REBINDING_ENABLED (which   *)
(* only discovery obeys), and how many nodes are ready at any time.        *)
Mode == [kubernetes : BOOLEAN, rebinding : BOOLEAN, floor : 0..Cardinality(Nodes)]

ASSUME HermesRoutesAssumption ==
    /\ IsFiniteSet(Nodes)
    /\ Leader \in Nodes /\ None \notin Nodes \cup Sessions /\ Cron \notin Scopes
    /\ OwnerOf \in [Sessions -> Scopes]
    /\ Modes \subseteq Mode
    /\ \A m \in Modes : m.rebinding => m.kubernetes
    /\ MaxAttempts \in Nat \ {0} /\ MaxChanges \in Nat

VARIABLES
    mode,       \* how the service is deployed
    ready,      \* the nodes that answer
    cache,      \* the nodes that discovery remembers, or {}
    fetching,   \* the request that holds the discovery lock
    scopes, sessions,  \* the durable bindings
    req,        \* the requests and how far they are routed
    changes,    \* bound: changes of the nodes so far
    reached     \* history: the nodes that got a request of each owner, if
                \* owners are not moved

routeVars == <<mode, ready, cache, fetching, scopes, sessions, req, changes, reached>>

-----------------------------------------------------------------------------
(* Requests. *)

Idle == [phase |-> "idle"]

Request == [phase : {"discover", "fetch", "probe", "routed", "answered", "failed"},
            session : Sessions \cup {None}, scope : Scopes \cup {Cron},
            write : BOOLEAN, attempt : 1..MaxAttempts, done : 0..MaxAttempts,
            retryable : BOOLEAN, unknown : BOOLEAN,
            pool : SUBSET Nodes, bound : Nodes \cup {None}, node : Nodes \cup {None}]

Asked(s, o, w) == [phase |-> "discover", session |-> s, scope |-> o, write |-> w,
                   attempt |-> 1, done |-> 0, retryable |-> FALSE, unknown |-> FALSE,
                   pool |-> {}, bound |-> None, node |-> None]

(* Calls besides the turns: to keep the instance small, a retrieval that   *)
(* names a session, or a change that names an owner or the scheduler.      *)
Ask(r) ==
    /\ req[r] = Idle
    /\ \/ \E s \in Sessions : req' = [req EXCEPT ![r] = Asked(s, OwnerOf[s], FALSE)]
       \/ \E o \in Scopes \cup {Cron} : req' = [req EXCEPT ![r] = Asked(None, o, TRUE)]
    /\ UNCHANGED <<mode, ready, cache, fetching, scopes, sessions, reached, changes>>

-----------------------------------------------------------------------------
(* The bindings. *)

Bound(q) == IF q.session # None /\ sessions[q.session] # None THEN sessions[q.session]
            ELSE IF q.scope = Cron THEN None ELSE scopes[q.scope]

(* bind_session refuses to contradict a binding. *)
Conflicts(q, n) ==
    \/ scopes[q.scope] \notin {None, n}
    \/ q.session # None /\ sessions[q.session] \notin {None, n}

Binds(q, n) ==
    /\ scopes' = [scopes EXCEPT ![q.scope] = n]
    /\ sessions' = IF q.session = None THEN sessions ELSE [sessions EXCEPT ![q.session] = n]

MovesOwnerOnly(q, n) ==                                          (* mutant *)
    scopes' = [scopes EXCEPT ![q.scope] = n] /\ sessions' = sessions

(* rebind_scope_if_matches moves an owner with all its sessions, and       *)
(* bind_session adds the one at hand.                                      *)
Rebinds(q, n) ==
    /\ scopes' = [scopes EXCEPT ![q.scope] = n]
    /\ sessions' = [s \in Sessions |->
           IF OwnerOf[s] = q.scope /\ (sessions[s] # None \/ s = q.session) THEN n ELSE sessions[s]]

(* A new owner goes to an available node with the fewest owners. *)
Owners(n) == Cardinality({o \in Scopes : scopes[o] = n})
Lightest(available) == {n \in available : \A m \in available : Owners(n) <= Owners(m)}

-----------------------------------------------------------------------------
(* Resolution. *)

KeepBindings == UNCHANGED <<scopes, sessions>>

Routed(r, q, n) == req' = [req EXCEPT ![r] =
    [q EXCEPT !.phase = "routed", !.node = n, !.pool = {}, !.bound = None]]

(* Every failure to find a node is reported as retryable. *)
Fails(r) == req' = [req EXCEPT ![r] =
    [@ EXCEPT !.phase = "failed", !.retryable = TRUE, !.pool = {}, !.bound = None]]

(* Without rebinding a pool without the leader is a configuration error.   *)
Misconfigured(pool) == Leader \notin pool /\ ~mode.rebinding

OnlyIfMoved(pool) == mode.rebinding                              (* mutant *)

(* One node in the pool and no rebinding: bindings are not even read. *)
Persistent(pool) == Cardinality(pool) > 1 \/ mode.rebinding

(* A bound node serves the session as well, from now on. *)
Serves(r, q, n) ==
    Routed(r, q, n) /\ (IF q.session # None THEN Binds(q, n) ELSE KeepBindings)

(* With the pool at hand. *)
Route(r, pool) ==
    LET q == [req[r] EXCEPT !.pool = pool]
        n == Bound(q)
    IN  IF Misconfigured(pool) THEN Fails(r) /\ KeepBindings
        ELSE IF q.scope = Cron
        THEN (IF Leader \in pool THEN Routed(r, q, Leader) ELSE Fails(r)) /\ KeepBindings
        ELSE IF ~Persistent(pool)
        THEN (\E m \in pool : Routed(r, q, m)) /\ KeepBindings
        ELSE IF n \in pool
        THEN IF Conflicts(q, n) /\ q.session # None THEN Fails(r) /\ KeepBindings
             ELSE Serves(r, q, n)
        ELSE IF n # None /\ ~mode.rebinding THEN Fails(r) /\ KeepBindings
        ELSE req' = [req EXCEPT ![r] = [q EXCEPT !.phase = "probe", !.bound = n]] /\ KeepBindings

(* resolved_hermes_pool: configured nodes, remembered ones, or a fetch     *)
(* under the lock, which is retried by those that waited for it.           *)
Discover(r) ==
    /\ req[r].phase = "discover"
    /\ IF mode.kubernetes /\ cache = {}
       THEN /\ fetching = None
            /\ fetching' = r
            /\ req' = [req EXCEPT ![r].phase = "fetch"]
            /\ KeepBindings
       ELSE /\ Route(r, IF mode.kubernetes THEN cache ELSE Nodes)
            /\ fetching' = fetching
    /\ UNCHANGED <<mode, ready, cache, reached, changes>>

(* Only ready Pods are discovered; none, or no answer, is an error.        *)
Fetch(r) ==
    /\ req[r].phase = "fetch"
    /\ fetching' = None
    /\ \/ ready # {} /\ cache' = ready /\ Route(r, ready)
       \/ Fails(r) /\ cache' = cache /\ KeepBindings
    /\ UNCHANGED <<mode, ready, reached, changes>>

CacheExpires ==
    /\ cache # {}
    /\ cache' = {}
    /\ UNCHANGED <<mode, ready, fetching, scopes, sessions, req, reached, changes>>

NotChecked(q) == TRUE                                            (* mutant *)

StillBound(q) == scopes[q.scope] = q.bound

Moves(r, q, available)   == \E n \in Lightest(available) : Routed(r, q, n) /\ Rebinds(q, n)
Assigns(r, q, available) == \E n \in Lightest(available) : Routed(r, q, n) /\ Binds(q, n)

(* The probes are answered.  An owner whose node left the pool is moved if *)
(* its binding is still the one that was read; a new owner is bound unless *)
(* another request was first.                                              *)
Probe(r) ==
    /\ req[r].phase = "probe"
    /\ LET q == req[r]
           available == q.pool \cap ready
           now == scopes[q.scope]
       IN  IF available = {} THEN Fails(r) /\ KeepBindings
           ELSE IF q.bound # None /\ StillBound(q)
           THEN Moves(r, q, available)
           ELSE IF now # None
           THEN IF now \in q.pool /\ ~(q.session # None /\ Conflicts(q, now))
                THEN Serves(r, q, now)
                ELSE Fails(r) /\ KeepBindings
           ELSE IF q.bound # None THEN Fails(r) /\ KeepBindings
           ELSE Assigns(r, q, available)
    /\ UNCHANGED <<mode, ready, cache, fetching, reached, changes>>

-----------------------------------------------------------------------------
(* The call itself (_hermes_json): the node it was routed to, however long *)
(* ago, is tried again only while no connection was made, or for a         *)
(* retrieval.                                                              *)

RepeatsWrites(q) == q.attempt < MaxAttempts                      (* mutant *)

Replayable(q) == ~q.write /\ q.attempt < MaxAttempts

Again(r, done) == req' = [req EXCEPT ![r] =
    [req[r] EXCEPT !.attempt = @ + 1, !.done = @ + done]]

Answered(r) == req' = [req EXCEPT ![r] = [req[r] EXCEPT !.phase = "answered", !.done = @ + 1]]

GivesUp(r, done, retryable, unknown) == req' = [req EXCEPT ![r] =
    [req[r] EXCEPT !.phase = "failed", !.done = @ + done,
                   !.retryable = retryable, !.unknown = unknown]]

Reaches(r) ==
    reached' = IF req[r].scope = Cron \/ mode.rebinding THEN reached
               ELSE [reached EXCEPT ![req[r].scope] = @ \cup {req[r].node}]

(* No connection. *)
Refused(r) ==
    /\ req[r].phase = "routed"
    /\ IF req[r].attempt < MaxAttempts THEN Again(r, 0) ELSE GivesUp(r, 0, TRUE, FALSE)
    /\ UNCHANGED <<mode, ready, cache, fetching, scopes, sessions, reached, changes>>

(* Connected: Hermes may or may not have done it when the answer is lost,  *)
(* late or a server error.  Only some errors are worth another attempt.    *)
Sent(r) ==
    /\ req[r].phase = "routed"
    /\ Reaches(r)
    /\ \/ Answered(r)
       \/ \E done \in {0, 1} :
             IF Replayable(req[r]) THEN Again(r, done) ELSE GivesUp(r, done, TRUE, req[r].write)
       \/ \E done \in {0, 1} : GivesUp(r, done, TRUE, req[r].write)
       \/ GivesUp(r, 0, FALSE, FALSE)
    /\ UNCHANGED <<mode, ready, cache, fetching, scopes, sessions, changes>>

(* The handler is done with the call. *)
Told(r) ==
    /\ req[r] # Idle /\ req[r].phase \in {"answered", "failed"}
    /\ req' = [req EXCEPT ![r] = Idle]
    /\ UNCHANGED <<mode, ready, cache, fetching, scopes, sessions, reached, changes>>

-----------------------------------------------------------------------------
(* delete_session forgets the binding of the session, not of its owner. *)
Forget(s) ==
    /\ sessions[s] # None
    /\ sessions' = [sessions EXCEPT ![s] = None]
    /\ UNCHANGED <<mode, ready, cache, fetching, scopes, req, reached, changes>>

(* Nodes come and go. *)
NodesChange ==
    /\ \E n \in Nodes : ready' \in {ready \cup {n}, ready \ {n}}
    /\ ready' # ready /\ Cardinality(ready') >= mode.floor
    /\ changes < MaxChanges /\ changes' = changes + 1
    /\ UNCHANGED <<mode, cache, fetching, scopes, sessions, req, reached>>

RouteInit ==
    /\ mode \in Modes
    /\ ready = Nodes
    /\ cache = {}
    /\ fetching = None
    /\ scopes = [o \in Scopes |-> None]
    /\ sessions = [s \in Sessions |-> None]
    /\ req = [r \in Requests |-> Idle]
    /\ changes = 0
    /\ reached = [o \in Scopes |-> {}]

-----------------------------------------------------------------------------
(* Properties. *)

RoutesOK ==
    /\ mode \in Modes
    /\ ready \subseteq Nodes /\ cache \subseteq Nodes
    /\ fetching \in Requests \cup {None}
    /\ scopes \in [Scopes -> Nodes \cup {None}]
    /\ sessions \in [Sessions -> Nodes \cup {None}]
    /\ req \in [Requests -> Request \cup {Idle}]
    /\ reached \in [Scopes -> SUBSET Nodes]

(* A session is bound where its owner is: no race of first requests, moves *)
(* and deletions separates them.                                           *)
SessionsFollowScope ==
    \A s \in Sessions : sessions[s] # None => sessions[s] = scopes[OwnerOf[s]]

(* Without rebinding every request of an owner reaches one node, the only  *)
(* one that has the history of its sessions ("must fail closed while that  *)
(* node is restarting", automatic_route_rebinding_enabled).                *)
OneHomePerOwner ==
    ~mode.rebinding => \A o \in Scopes : Cardinality(reached[o]) <= 1

(* A change is done at most once by one call, and a caller told to try     *)
(* again, the outcome being known, repeats nothing.                        *)
CallsAreHonest ==
    \A r \in Requests : req[r] # Idle /\ req[r].write =>
        /\ req[r].done <= 1
        /\ req[r].phase = "failed" /\ req[r].retryable /\ ~req[r].unknown => req[r].done = 0

(* An owner is moved only with rebinding, and only from a node that the    *)
(* moving request did not discover: two requests that both miss the old    *)
(* node do not move the owner twice.                                       *)
MovesOnlyFromMissing ==
    [][\A o \in Scopes : scopes[o] # None /\ scopes'[o] # scopes[o] =>
           /\ mode.rebinding
           /\ \E r \in Requests : req[r].phase = "probe" /\ req'[r].phase = "routed"
                                  /\ req[r].scope = o /\ scopes[o] \notin req[r].pool]_routeVars
=============================================================================
