-------------------------- MODULE ChatTurnsProofs --------------------------
(***************************************************************************)
(* Routes first, for any nodes, owners, sessions and requests: a session   *)
(* is bound where its owner is, and, as long as more than one node is      *)
(* ready, an owner that is not moved has one home.  The invariant adds     *)
(* that a routed request carries the node its owner is bound to, that a    *)
(* request only probes nodes for an owner without one, and that discovery  *)
(* never remembers fewer than two nodes.  Then what one call executes,     *)
(* who moves an owner, the limiter and the claims, and the type.           *)
(***************************************************************************)
EXTENDS ChatTurns, FiniteSetTheorems, SequenceTheorems, TLAPS

AnyRequest == [phase : {"discover", "fetch", "probe", "routed", "answered", "failed"},
               session : Sessions \cup {None}, scope : Scopes \cup {Cron},
               write : BOOLEAN, attempt : Nat, done : Nat,
               retryable : BOOLEAN, unknown : BOOLEAN,
               pool : SUBSET Nodes, bound : Nodes \cup {None}, node : Nodes \cup {None}]

(* A request of a session is one of its owner; only owners are probed for, *)
(* and only Pods are fetched.                                              *)
Sane(q) ==
    /\ q \in AnyRequest
    /\ q.session # None => q.session \in Sessions /\ q.scope = OwnerOf[q.session]
    /\ q.phase = "probe" => q.scope \in Scopes
    /\ q.phase = "fetch" => mode.kubernetes

RequestsInv ==
    /\ req \in [Requests -> AnyRequest \cup {Idle}]
    /\ \A r \in Requests : req[r] # Idle => Sane(req[r])
    /\ \A r \in Requests : StageIs(r, "stream", "wait") => req[r] # Idle /\ req[r].phase = "routed"

NodesInv ==
    /\ mode \in Modes
    /\ ready \subseteq Nodes /\ Cardinality(ready) >= mode.floor
    /\ cache \subseteq Nodes
    /\ cache # {} => Cardinality(cache) >= mode.floor

BindingsInv ==
    /\ scopes \in [Scopes -> Nodes \cup {None}]
    /\ sessions \in [Sessions -> Nodes \cup {None}]
    /\ SessionsFollowScope

TurnsInv == turn \in [Requests -> Turn \cup {NoTurn}]

(* More than one node is configured, or ready at any time, where owners    *)
(* are not moved.                                                          *)
ManyNodes ==
    \A m \in Modes : ~m.rebinding => IF m.kubernetes THEN m.floor > 1 ELSE Cardinality(Nodes) > 1

AtHome(q) ==
    /\ q.scope \in Scopes /\ q.phase = "routed" => q.node \in Nodes /\ q.node = scopes[q.scope]
    /\ q.phase = "probe" => q.bound = None

ReachedInv ==
    /\ reached \in [Scopes -> SUBSET Nodes]
    /\ ~mode.rebinding => \A o \in Scopes : \A n \in reached[o] : n = scopes[o]

HomeInv ==
    /\ ReachedInv
    /\ ~mode.rebinding => \A r \in Requests : req[r] # Idle => AtHome(req[r])

RouteInv == RequestsInv /\ NodesInv /\ BindingsInv /\ TurnsInv /\ (ManyNodes => HomeInv)

-----------------------------------------------------------------------------
(* A request is not the empty one, and has its phase. *)
LEMMA RequestIsAsked ==
    /\ \A q \in AnyRequest : q # Idle
    /\ \A s \in Sessions \cup {None}, o \in Scopes \cup {Cron}, w \in BOOLEAN :
           Asked(s, o, w) \in AnyRequest
<1>1. \A q \in AnyRequest : q # Idle BY DEF AnyRequest, Idle
<1>2. \A s \in Sessions \cup {None}, o \in Scopes \cup {Cron}, w \in BOOLEAN :
          Asked(s, o, w) \in AnyRequest
  BY HermesRoutesAssumption DEF Asked, AnyRequest
<1> QED BY <1>1, <1>2

(* Binding an owner without a home, or to the home it has. *)
LEMMA BindsKeepsBindings ==
    ASSUME BindingsInv, NEW q, Sane(q), NEW n \in Nodes, q.scope \in Scopes,
           scopes[q.scope] \in {None, n}, Binds(q, n)
    PROVE  /\ BindingsInv'
           /\ scopes' = [scopes EXCEPT ![q.scope] = n]
<1> USE HermesRoutesAssumption
<1>1. scopes' \in [Scopes -> Nodes \cup {None}] BY DEF Binds, BindingsInv
<1>2. sessions' \in [Sessions -> Nodes \cup {None}] BY DEF Binds, BindingsInv, Sane
<1>3. ASSUME NEW s \in Sessions, sessions'[s] # None PROVE sessions'[s] = scopes'[OwnerOf[s]]
  <2>1. OwnerOf[s] \in Scopes OBVIOUS
  <2>2. CASE q.session = s
    BY <2>1, <2>2 DEF Binds, BindingsInv, Sane
  <2>3. CASE q.session # s
    <3>1. sessions'[s] = sessions[s] BY <2>3 DEF Binds, BindingsInv
    <3>2. sessions[s] = scopes[OwnerOf[s]] BY <3>1, <1>3 DEF BindingsInv, SessionsFollowScope
    <3> QED BY <2>1, <3>1, <3>2, <1>3 DEF Binds, BindingsInv
  <2> QED BY <2>2, <2>3
<1> QED BY <1>1, <1>2, <1>3 DEF BindingsInv, SessionsFollowScope, Binds

(* Moving an owner moves all its sessions. *)
LEMMA RebindsKeepsBindings ==
    ASSUME BindingsInv, NEW q, Sane(q), NEW n \in Nodes, q.scope \in Scopes, Rebinds(q, n)
    PROVE  BindingsInv'
<1> USE HermesRoutesAssumption
<1>1. scopes' \in [Scopes -> Nodes \cup {None}] BY DEF Rebinds, BindingsInv
<1>2. sessions' \in [Sessions -> Nodes \cup {None}] BY DEF Rebinds, BindingsInv
<1>3. ASSUME NEW s \in Sessions, sessions'[s] # None PROVE sessions'[s] = scopes'[OwnerOf[s]]
  <2>1. OwnerOf[s] \in Scopes OBVIOUS
  <2>2. CASE OwnerOf[s] = q.scope BY <2>1, <2>2, <1>3 DEF Rebinds, BindingsInv, SessionsFollowScope
  <2>3. CASE OwnerOf[s] # q.scope BY <2>1, <2>3, <1>3 DEF Rebinds, BindingsInv, SessionsFollowScope
  <2> QED BY <2>2, <2>3
<1> QED BY <1>1, <1>2, <1>3 DEF BindingsInv, SessionsFollowScope

(* A request that is replaced by another sane one, with the bindings kept. *)
LEMMA ReplaceRequest ==
    ASSUME RouteInv, NEW r \in Requests, NEW q, Sane(q) \/ q = Idle,
           req' = [req EXCEPT ![r] = q],
           UNCHANGED <<mode, ready, scopes, sessions>>,
           cache' = cache \/ cache' = ready,
           ManyNodes => ReachedInv',
           turn' \in [Requests -> Turn \cup {NoTurn}],
           \A u \in Requests \ {r} : turn'[u] = turn[u],
           StageIs(r, "stream", "wait")' => q # Idle /\ q.phase = "routed",
           ManyNodes /\ ~mode.rebinding /\ q # Idle => AtHome(q)
    PROVE  RouteInv'
<1> USE DEF RouteInv
<1>1. RequestsInv'
  <2>1. q \in AnyRequest \cup {Idle} BY DEF Sane
  <2>2. req' \in [Requests -> AnyRequest \cup {Idle}] BY <2>1 DEF RequestsInv
  <2>3. \A u \in Requests : req'[u] = IF u = r THEN q ELSE req[u] BY DEF RequestsInv
  <2>4. \A u \in Requests : req'[u] # Idle => Sane(req'[u]) BY <2>3 DEF RequestsInv
  <2>5. \A u \in Requests : StageIs(u, "stream", "wait")' => req'[u] # Idle /\ req'[u].phase = "routed"
    BY <2>3 DEF RequestsInv, StageIs
  <2> QED BY <2>2, <2>4, <2>5 DEF RequestsInv, Sane
<1>2. NodesInv' BY DEF NodesInv
<1>3. BindingsInv' BY DEF BindingsInv, SessionsFollowScope
<1>4. TurnsInv' BY DEF TurnsInv
<1>5. ManyNodes => HomeInv'
  <2>1. \A u \in Requests : req'[u] = IF u = r THEN q ELSE req[u] BY DEF RequestsInv
  <2> QED BY <2>1 DEF HomeInv, AtHome
<1> QED BY <1>1, <1>2, <1>3, <1>4, <1>5

(* A request that is routed to a node that its owner is bound to now. *)
LEMMA RouteAndBind ==
    ASSUME RouteInv, NEW r \in Requests, NEW q, Sane(q), NEW n \in Nodes,
           q.scope \in Scopes, Routed(r, q, n),
           UNCHANGED <<mode, ready, reached, turn>>,
           cache' = cache \/ cache' = ready,
           BindingsInv', scopes'[q.scope] = n,
           \A o \in Scopes \ {q.scope} : scopes'[o] = scopes[o],
           ManyNodes /\ ~mode.rebinding => scopes[q.scope] \in {None, n}
    PROVE  RouteInv'
<1> USE DEF RouteInv
<1> DEFINE p == [q EXCEPT !.phase = "routed", !.node = n, !.pool = {}, !.bound = None]
<1>1. p \in AnyRequest /\ p.phase = "routed" /\ p.scope = q.scope /\ p.session = q.session /\ p.node = n
  BY HermesRoutesAssumption DEF Sane, AnyRequest
<1>2. Sane(p) BY <1>1 DEF Sane
<1> HIDE DEF p
<1>3. req' = [req EXCEPT ![r] = p] BY DEF Routed, p
<1>4. \A u \in Requests : req'[u] = IF u = r THEN p ELSE req[u] BY <1>3 DEF RequestsInv
<1>5. RequestsInv'
  <2>1. req' \in [Requests -> AnyRequest \cup {Idle}] BY <1>1, <1>3 DEF RequestsInv
  <2>2. \A u \in Requests : req'[u] # Idle => Sane(req'[u]) BY <1>2, <1>4 DEF RequestsInv
  <2>3. \A u \in Requests : StageIs(u, "stream", "wait")' => req'[u] # Idle /\ req'[u].phase = "routed"
    BY <1>1, <1>4, RequestIsAsked DEF RequestsInv, StageIs
  <2> QED BY <2>1, <2>2, <2>3 DEF RequestsInv, Sane
<1>6. NodesInv' BY DEF NodesInv
<1>7. TurnsInv' BY DEF TurnsInv
<1>8. ManyNodes => HomeInv'
  <2> SUFFICES ASSUME ManyNodes PROVE HomeInv' OBVIOUS
  <2>0. CASE mode.rebinding BY <2>0 DEF HomeInv, ReachedInv
  <2> SUFFICES ASSUME ~mode.rebinding PROVE HomeInv' BY <2>0
  <2>1. HomeInv /\ scopes[q.scope] \in {None, n} OBVIOUS
  <2>2. \A o \in Scopes : \A m \in reached[o] : m \in Nodes /\ m = scopes[o]
    BY <2>1 DEF HomeInv, ReachedInv
  <2>3. \A o \in Scopes : scopes[o] # None => scopes'[o] = scopes[o] BY <2>1
  <2>4. \A o \in Scopes : \A m \in reached'[o] : m = scopes'[o]
    BY <2>2, <2>3, HermesRoutesAssumption
  <2>5. ASSUME NEW u \in Requests, req'[u] # Idle
        PROVE  /\ req'[u].scope \in Scopes /\ req'[u].phase = "routed" =>
                      req'[u].node \in Nodes /\ req'[u].node = scopes'[req'[u].scope]
               /\ req'[u].phase = "probe" => req'[u].bound = None
    <3>1. CASE u = r BY <3>1, <1>1, <1>4
    <3>2. CASE u # r
      <4>1. AtHome(req[u]) /\ req'[u] = req[u] BY <3>2, <1>4, <2>1, <2>5 DEF HomeInv
      <4> QED BY <4>1, <2>3, HermesRoutesAssumption DEF AtHome
    <3> QED BY <3>1, <3>2
  <2> QED BY <2>1, <2>4, <2>5 DEF HomeInv, ReachedInv, AtHome
<1> QED BY <1>5, <1>6, <1>7, <1>8

(* A request that is not routed yet and finds no node. *)
LEMMA FailsKeeps ==
    ASSUME RouteInv, NEW r \in Requests, req[r] # Idle, req[r].phase # "routed", Fails(r),
           UNCHANGED <<mode, ready, scopes, sessions, reached, turn>>,
           cache' = cache \/ cache' = ready
    PROVE  RouteInv'
<1> DEFINE p == [req[r] EXCEPT !.phase = "failed", !.retryable = TRUE, !.pool = {}, !.bound = None]
<1>1. Sane(req[r]) BY DEF RouteInv, RequestsInv
<1>2. p \in AnyRequest /\ p.phase = "failed" /\ p.scope = req[r].scope /\ p.session = req[r].session
  BY <1>1 DEF Sane, AnyRequest
<1>3. Sane(p) BY <1>1, <1>2 DEF Sane
<1>4. req' = [req EXCEPT ![r] = p] BY DEF Fails
<1>5. AtHome(p) BY <1>2 DEF AtHome
<1>6. ManyNodes => ReachedInv' BY DEF RouteInv, HomeInv, ReachedInv
<1>7. turn' \in [Requests -> Turn \cup {NoTurn}] BY DEF RouteInv, TurnsInv
<1>8. ~StageIs(r, "stream", "wait")' BY DEF RouteInv, RequestsInv, StageIs
<1> HIDE DEF p
<1> QED BY <1>3, <1>4, <1>5, <1>6, <1>7, <1>8, ReplaceRequest

(* The pool at hand has more than one node where owners stay. *)
LEMMA PoolsAreLarge ==
    ASSUME RouteInv, ManyNodes, ~mode.rebinding
    PROVE  /\ mode.kubernetes => Cardinality(ready) > 1
           /\ mode.kubernetes /\ cache # {} => Cardinality(cache) > 1
           /\ ~mode.kubernetes => Cardinality(Nodes) > 1
<1>1. mode \in Modes /\ mode.floor \in Nat
  <2>1. Cardinality(Nodes) \in Nat BY HermesRoutesAssumption, FS_CardinalityType
  <2> QED BY <2>1, HermesRoutesAssumption DEF RouteInv, NodesInv, Mode
<1>2. IsFiniteSet(ready) /\ IsFiniteSet(cache)
  BY HermesRoutesAssumption, FS_Subset DEF RouteInv, NodesInv
<1>3. Cardinality(ready) \in Nat /\ Cardinality(cache) \in Nat BY <1>2, FS_CardinalityType
<1>4. mode.kubernetes => mode.floor > 1 BY <1>1 DEF ManyNodes
<1> QED BY <1>1, <1>3, <1>4 DEF RouteInv, NodesInv, ManyNodes

(* A request with its pool at hand. *)
LEMMA RouteKeeps ==
    ASSUME RouteInv, NEW r \in Requests, NEW pool \in SUBSET Nodes,
           req[r] # Idle, req[r].phase \in {"discover", "fetch"},
           UNCHANGED <<mode, ready, reached, turn>>,
           cache' = cache \/ cache' = ready,
           ManyNodes /\ ~mode.rebinding => Cardinality(pool) > 1,
           Route(r, pool)
    PROVE  RouteInv'
<1> DEFINE q == [req[r] EXCEPT !.pool = pool]
           n == Bound(q)
<1>1. Sane(req[r]) BY DEF RouteInv, RequestsInv
<1>2. q \in AnyRequest /\ q.scope = req[r].scope /\ q.session = req[r].session
      /\ q.phase = req[r].phase /\ q.pool = pool
  BY <1>1 DEF Sane, AnyRequest
<1>3. Sane(q) BY <1>1, <1>2 DEF Sane
<1>4. q.scope \in Scopes \cup {Cron} /\ q.session \in Sessions \cup {None} BY <1>2 DEF AnyRequest
<1>5. CASE Fails(r) /\ KeepBindings
  BY <1>5, FailsKeeps DEF KeepBindings
<1>6. ASSUME NEW m \in Nodes, Routed(r, q, m), KeepBindings,
             q.scope = Cron \/ scopes[q.scope] = m \/ mode.rebinding \/ ~ManyNodes
      PROVE  RouteInv'
  <2> DEFINE p == [q EXCEPT !.phase = "routed", !.node = m, !.pool = {}, !.bound = None]
  <2>1. p \in AnyRequest /\ p.phase = "routed" /\ p.scope = q.scope /\ p.session = q.session /\ p.node = m
    BY <1>2, HermesRoutesAssumption DEF AnyRequest
  <2>2. Sane(p) BY <2>1, <1>3 DEF Sane
  <2>3. ManyNodes /\ ~mode.rebinding => AtHome(p)
    BY <2>1, <1>6, HermesRoutesAssumption DEF AtHome
  <2>4. req' = [req EXCEPT ![r] = p] BY <1>6 DEF Routed
  <2>5. UNCHANGED <<scopes, sessions>> BY <1>6 DEF KeepBindings
  <2>6. ManyNodes => ReachedInv' BY <2>5 DEF RouteInv, HomeInv, ReachedInv
  <2>7. p # Idle BY <2>1, RequestIsAsked
  <2>8. turn' \in [Requests -> Turn \cup {NoTurn}] BY DEF RouteInv, TurnsInv
  <2> HIDE DEF p
  <2> QED BY <2>1, <2>2, <2>3, <2>4, <2>5, <2>6, <2>7, <2>8, ReplaceRequest
<1>7. ASSUME q.scope \in Scopes, n \in pool, ~(Conflicts(q, n) /\ q.session # None),
             Routed(r, q, n), IF q.session # None THEN Binds(q, n) ELSE KeepBindings
      PROVE  RouteInv'
  <2>1. CASE q.session # None
    <3>1. scopes[q.scope] \in {None, n} BY <1>7, <2>1 DEF Conflicts
    <3>2. Binds(q, n) /\ n \in Nodes BY <1>7, <2>1
    <3>3. BindingsInv' /\ scopes' = [scopes EXCEPT ![q.scope] = n]
      BY <3>1, <3>2, <1>3, <1>7, BindsKeepsBindings DEF RouteInv
    <3>4. scopes'[q.scope] = n /\ \A o \in Scopes \ {q.scope} : scopes'[o] = scopes[o]
      BY <3>3, <1>7 DEF RouteInv, BindingsInv
    <3> HIDE DEF q, n
    <3> QED BY <3>1, <3>2, <3>3, <3>4, <1>3, <1>7, RouteAndBind
  <2>2. CASE q.session = None
    <3>1. n = scopes[q.scope] BY <1>7, <2>2, HermesRoutesAssumption DEF Bound
    <3> HIDE DEF q, n
    <3> QED BY <3>1, <2>2, <1>6, <1>7
  <2> QED BY <2>1, <2>2
<1>8. ASSUME q.scope \in Scopes, n \notin pool, n = None \/ mode.rebinding, KeepBindings,
             req' = [req EXCEPT ![r] = [q EXCEPT !.phase = "probe", !.bound = n]]
      PROVE  RouteInv'
  <2> DEFINE p == [q EXCEPT !.phase = "probe", !.bound = n]
  <2>1. n \in Nodes \cup {None}
    BY <1>4, <1>8 DEF Bound, RouteInv, BindingsInv
  <2>2. p \in AnyRequest /\ p.phase = "probe" /\ p.scope = q.scope /\ p.session = q.session /\ p.bound = n
    BY <1>2, <2>1 DEF AnyRequest
  <2>3. Sane(p) BY <2>2, <1>3, <1>8 DEF Sane
  <2>4. ManyNodes /\ ~mode.rebinding => AtHome(p) BY <2>2, <1>8 DEF AtHome
  <2>5. UNCHANGED <<scopes, sessions>> BY <1>8 DEF KeepBindings
  <2>6. ManyNodes => ReachedInv' BY <2>5 DEF RouteInv, HomeInv, ReachedInv
  <2>7. turn' \in [Requests -> Turn \cup {NoTurn}] BY DEF RouteInv, TurnsInv
  <2>8. ~StageIs(r, "stream", "wait")' BY DEF RouteInv, RequestsInv, StageIs
  <2>9. req' = [req EXCEPT ![r] = p] BY <1>8
  <2> HIDE DEF p, q, n
  <2> QED BY <2>3, <2>4, <2>5, <2>6, <2>7, <2>8, <2>9, ReplaceRequest
<1>9. Persistent(pool) \/ ~ManyNodes BY DEF Persistent
<1>10. \/ Fails(r) /\ KeepBindings
       \/ q.scope = Cron /\ Leader \in pool /\ Routed(r, q, Leader) /\ KeepBindings
       \/ ~Persistent(pool) /\ (\E m \in pool : Routed(r, q, m)) /\ KeepBindings
       \/ /\ q.scope # Cron /\ n \in pool /\ ~(Conflicts(q, n) /\ q.session # None)
          /\ Routed(r, q, n) /\ IF q.session # None THEN Binds(q, n) ELSE KeepBindings
       \/ /\ q.scope # Cron /\ n \notin pool /\ (n = None \/ mode.rebinding) /\ KeepBindings
          /\ req' = [req EXCEPT ![r] = [q EXCEPT !.phase = "probe", !.bound = n]]
  BY DEF Route, Serves
<1> HIDE DEF q, n
<1> QED BY <1>4, <1>5, <1>6, <1>7, <1>8, <1>9, <1>10

-----------------------------------------------------------------------------
(* The steps of a call. *)

(* A routed request stays where it is routed, or ends. *)
LEMMA SentKeeps ==
    ASSUME RouteInv, NEW r \in Requests, NEW p,
           req[r] # Idle, req[r].phase = "routed",
           p = Idle \/ (p \in AnyRequest /\ p.scope = req[r].scope /\ p.session = req[r].session
                        /\ p.node = req[r].node /\ p.phase \in {"routed", "answered", "failed"}),
           req' = [req EXCEPT ![r] = p],
           Reaches(r) \/ reached' = reached,
           UNCHANGED <<mode, ready, cache, scopes, sessions>>,
           turn' \in [Requests -> Turn \cup {NoTurn}],
           \A u \in Requests \ {r} : turn'[u] = turn[u],
           ~StageIs(r, "stream", "wait")'
    PROVE  RouteInv'
<1>1. Sane(req[r]) BY DEF RouteInv, RequestsInv
<1>2. Sane(p) \/ p = Idle BY <1>1 DEF Sane
<1>3. ManyNodes /\ ~mode.rebinding => AtHome(req[r]) BY DEF RouteInv, HomeInv
<1>4. ManyNodes /\ ~mode.rebinding /\ p # Idle => AtHome(p) BY <1>3 DEF AtHome
<1>5. ManyNodes => ReachedInv'
  <2> SUFFICES ASSUME ManyNodes PROVE ReachedInv' OBVIOUS
  <2>1. ReachedInv BY DEF RouteInv, HomeInv
  <2>2. CASE reached' = reached BY <2>1, <2>2 DEF ReachedInv
  <2>3. CASE Reaches(r) /\ reached' # reached
    <3>1. req[r].scope \in Scopes \cup {Cron} BY <1>1 DEF Sane, AnyRequest
    <3>2. ~mode.rebinding /\ req[r].scope \in Scopes
          /\ reached' = [reached EXCEPT ![req[r].scope] = @ \cup {req[r].node}]
      BY <3>1, <2>3 DEF Reaches
    <3>3. req[r].node \in Nodes /\ req[r].node = scopes[req[r].scope] BY <1>3, <3>2 DEF AtHome
    <3> QED BY <2>1, <3>2, <3>3 DEF ReachedInv
  <2> QED BY <2>2, <2>3
<1> QED BY <1>2, <1>4, <1>5, ReplaceRequest

(* What a call makes of its request. *)
Outcome(q) == {p \in AnyRequest : /\ p.scope = q.scope /\ p.session = q.session /\ p.node = q.node
                                  /\ p.phase \in {"routed", "answered", "failed"}}

LEMMA Outcomes ==
    ASSUME NEW q \in AnyRequest, q.phase = "routed", NEW d \in {0, 1},
           NEW retryable \in BOOLEAN, NEW unknown \in BOOLEAN
    PROVE  /\ [q EXCEPT !.attempt = @ + 1, !.done = @ + d] \in Outcome(q)
           /\ [q EXCEPT !.phase = "failed", !.done = @ + d,
                        !.retryable = retryable, !.unknown = unknown] \in Outcome(q)
           /\ [q EXCEPT !.phase = "answered", !.done = @ + 1] \in Outcome(q)
<1>1. q.attempt + 1 \in Nat /\ q.done + d \in Nat /\ q.done + 1 \in Nat BY DEF AnyRequest
<1>2. [q EXCEPT !.attempt = @ + 1, !.done = @ + d] \in Outcome(q) BY <1>1 DEF AnyRequest, Outcome
<1>3. [q EXCEPT !.phase = "failed", !.done = @ + d,
                !.retryable = retryable, !.unknown = unknown] \in Outcome(q)
  BY <1>1 DEF AnyRequest, Outcome
<1>4. [q EXCEPT !.phase = "answered", !.done = @ + 1] \in Outcome(q) BY <1>1 DEF AnyRequest, Outcome
<1> QED BY <1>2, <1>3, <1>4

LEMMA CallOutcome ==
    ASSUME NEW r \in Requests, req[r] \in AnyRequest, req[r].phase = "routed", Refused(r) \/ Sent(r)
    PROVE  \E p \in Outcome(req[r]) : req' = [req EXCEPT ![r] = p]
<1>1. ASSUME NEW d \in {0, 1}, Again(r, d) PROVE \E p \in Outcome(req[r]) : req' = [req EXCEPT ![r] = p]
  <2>1. [req[r] EXCEPT !.attempt = @ + 1, !.done = @ + d] \in Outcome(req[r]) BY <1>1, Outcomes
  <2>2. req' = [req EXCEPT ![r] = [req[r] EXCEPT !.attempt = @ + 1, !.done = @ + d]] BY <1>1 DEF Again
  <2> QED BY <2>1, <2>2, Zenon
<1>2. ASSUME NEW d \in {0, 1}, NEW retryable \in BOOLEAN, NEW unknown \in BOOLEAN,
             GivesUp(r, d, retryable, unknown)
      PROVE  \E p \in Outcome(req[r]) : req' = [req EXCEPT ![r] = p]
  <2>1. [req[r] EXCEPT !.phase = "failed", !.done = @ + d,
                       !.retryable = retryable, !.unknown = unknown] \in Outcome(req[r])
    BY <1>2, Outcomes
  <2>2. req' = [req EXCEPT ![r] = [req[r] EXCEPT !.phase = "failed", !.done = @ + d,
                                                 !.retryable = retryable, !.unknown = unknown]]
    BY <1>2 DEF GivesUp
  <2> QED BY <2>1, <2>2, Zenon
<1>3. ASSUME Answered(r)
      PROVE  \E p \in Outcome(req[r]) : req' = [req EXCEPT ![r] = p]
  <2>1. [req[r] EXCEPT !.phase = "answered", !.done = @ + 1] \in Outcome(req[r]) BY Outcomes
  <2>2. req' = [req EXCEPT ![r] = [req[r] EXCEPT !.phase = "answered", !.done = @ + 1]]
    BY <1>3 DEF Answered
  <2> QED BY <2>1, <2>2, Zenon
<1>4. req[r].write \in BOOLEAN BY DEF AnyRequest
<1> QED BY <1>1, <1>2, <1>3, <1>4 DEF Refused, Sent

LEMMA CallKeeps ==
    ASSUME RouteInv, NEW r \in Requests, CallStep(r)
    PROVE  RouteInv'
<1>1. UNCHANGED <<mode, ready, turn>>
  BY DEF CallStep, Routing, Calls, Ask, Discover, Fetch, Probe, Refused, Sent, Told
<1>2. turn' \in [Requests -> Turn \cup {NoTurn}] /\ \A u \in Requests \ {r} : turn'[u] = turn[u]
  BY <1>1 DEF RouteInv, TurnsInv
<1>3. CASE Ask(r) /\ turn[r] = NoTurn
  <2>1. PICK s \in Sessions \cup {None}, o \in Scopes \cup {Cron}, w \in BOOLEAN :
            req' = [req EXCEPT ![r] = Asked(s, o, w)] /\ (s # None => s \in Sessions /\ o = OwnerOf[s])
    BY <1>3, HermesRoutesAssumption DEF Ask
  <2> DEFINE p == Asked(s, o, w)
  <2>2. p \in AnyRequest /\ p.phase = "discover" /\ p.session = s /\ p.scope = o
    BY RequestIsAsked DEF Asked
  <2>3. Sane(p) /\ AtHome(p) BY <2>1, <2>2 DEF Sane, AtHome
  <2>4. UNCHANGED <<scopes, sessions, cache, reached>> BY <1>3 DEF Ask
  <2>5. ManyNodes => ReachedInv' BY <2>4, <1>1 DEF RouteInv, HomeInv, ReachedInv
  <2>6. ~StageIs(r, "stream", "wait")' BY <1>1, <1>3 DEF StageIs
  <2>7. req' = [req EXCEPT ![r] = p] BY <2>1
  <2> HIDE DEF p
  <2> QED BY <1>1, <1>2, <2>3, <2>4, <2>5, <2>6, <2>7, ReplaceRequest
<1>4. CASE Discover(r)
  <2>1. req[r] # Idle /\ req[r].phase = "discover" /\ UNCHANGED <<cache, reached>>
    BY <1>4 DEF Discover, Idle
  <2>2. CASE mode.kubernetes /\ cache = {}
    <3> DEFINE p == [req[r] EXCEPT !.phase = "fetch"]
    <3>1. Sane(req[r]) BY <2>1 DEF RouteInv, RequestsInv
    <3>2. p \in AnyRequest /\ p.phase = "fetch" /\ p.scope = req[r].scope /\ p.session = req[r].session
      BY <3>1 DEF Sane, AnyRequest
    <3>3. Sane(p) /\ AtHome(p) BY <3>1, <3>2, <2>2 DEF Sane, AtHome
    <3>4. req' = [req EXCEPT ![r] = p] /\ UNCHANGED <<scopes, sessions>>
      BY <1>4, <2>2 DEF Discover, KeepBindings
    <3>5. ManyNodes => ReachedInv' BY <3>4, <2>1, <1>1 DEF RouteInv, HomeInv, ReachedInv
    <3>6. ~StageIs(r, "stream", "wait")' BY <1>1, <2>1 DEF StageIs, RouteInv, RequestsInv
    <3> HIDE DEF p
    <3> QED BY <1>1, <1>2, <2>1, <3>3, <3>4, <3>5, <3>6, ReplaceRequest
  <2>3. CASE ~(mode.kubernetes /\ cache = {})
    <3>1. PICK pool \in SUBSET Nodes :
              Route(r, pool) /\ pool = IF mode.kubernetes THEN cache ELSE Nodes
      BY <1>4, <2>3 DEF Discover, RouteInv, NodesInv
    <3>2. ManyNodes /\ ~mode.rebinding => Cardinality(pool) > 1 BY <3>1, <2>3, PoolsAreLarge
    <3> QED BY <1>1, <2>1, <3>1, <3>2, RouteKeeps
  <2> QED BY <2>2, <2>3
<1>5. CASE Fetch(r)
  <2>1. req[r] # Idle /\ req[r].phase = "fetch" /\ reached' = reached BY <1>5 DEF Fetch, Idle
  <2>2. mode.kubernetes BY <2>1 DEF RouteInv, RequestsInv, Sane
  <2>3. CASE cache' = ready /\ Route(r, ready)
    <3>1. ready \in SUBSET Nodes BY DEF RouteInv, NodesInv
    <3>2. ManyNodes /\ ~mode.rebinding => Cardinality(ready) > 1 BY <2>2, PoolsAreLarge
    <3> QED BY <1>1, <2>1, <2>3, <3>1, <3>2, RouteKeeps
  <2>4. CASE Fails(r) /\ cache' = cache /\ KeepBindings
    BY <1>1, <2>1, <2>4, FailsKeeps DEF KeepBindings
  <2> QED BY <1>5, <2>3, <2>4 DEF Fetch
<1>6. CASE Probe(r)
  <2> DEFINE q == req[r]
             now == scopes[q.scope]
  <2>1. q # Idle /\ q.phase = "probe" /\ UNCHANGED <<cache, reached>> BY <1>6 DEF Probe, Idle
  <2>2. Sane(q) /\ q.scope \in Scopes /\ q.pool \subseteq Nodes
    BY <2>1 DEF RouteInv, RequestsInv, Sane, AnyRequest
  <2>3. ManyNodes /\ ~mode.rebinding => q.bound = None BY <2>1 DEF RouteInv, HomeInv, AtHome
  <2>4. CASE Fails(r) /\ KeepBindings BY <1>1, <2>1, <2>4, FailsKeeps DEF KeepBindings
  <2>5. ASSUME NEW n \in Nodes, Routed(r, q, n), Rebinds(q, n), q.bound # None PROVE RouteInv'
    <3>1. BindingsInv' BY <2>2, <2>5, RebindsKeepsBindings DEF RouteInv
    <3>2. scopes'[q.scope] = n /\ \A o \in Scopes \ {q.scope} : scopes'[o] = scopes[o]
      BY <2>2, <2>5 DEF Rebinds, RouteInv, BindingsInv
    <3> HIDE DEF q
    <3> QED BY <1>1, <2>1, <2>2, <2>3, <2>5, <3>1, <3>2, RouteAndBind
  <2>6. ASSUME NEW n \in Nodes, Routed(r, q, n), now \in {None, n}, Binds(q, n) PROVE RouteInv'
    <3>1. BindingsInv' /\ scopes' = [scopes EXCEPT ![q.scope] = n]
      BY <2>2, <2>6, BindsKeepsBindings DEF RouteInv
    <3>2. scopes'[q.scope] = n /\ \A o \in Scopes \ {q.scope} : scopes'[o] = scopes[o]
      BY <3>1, <2>2 DEF RouteInv, BindingsInv
    <3> HIDE DEF q
    <3> QED BY <1>1, <2>1, <2>2, <2>6, <3>1, <3>2, RouteAndBind
  <2>7. ASSUME now \in Nodes, Routed(r, q, now), KeepBindings PROVE RouteInv'
    <3>1. BindingsInv' /\ scopes' = scopes
      BY <2>7 DEF KeepBindings, RouteInv, BindingsInv, SessionsFollowScope
    <3> HIDE DEF q
    <3> QED BY <1>1, <2>1, <2>2, <2>7, <3>1, RouteAndBind
  <2>8. \/ Fails(r) /\ KeepBindings
        \/ \E n \in Nodes : Routed(r, q, n) /\ Rebinds(q, n) /\ q.bound # None
        \/ \E n \in Nodes : Routed(r, q, n) /\ now \in {None, n} /\ Binds(q, n)
        \/ now \in Nodes /\ Routed(r, q, now) /\ KeepBindings
    BY <1>6, <2>2 DEF Probe, Lightest, Serves, Moves, Assigns
  <2> HIDE DEF q, now
  <2> QED BY <2>4, <2>5, <2>6, <2>7, <2>8
<1>7. CASE (Refused(r) \/ Sent(r)) /\ ~StageIs(r, "stream", "wait")
  <2>1. req[r].phase = "routed" /\ UNCHANGED <<cache, scopes, sessions>> BY <1>7 DEF Refused, Sent
  <2>2. Reaches(r) \/ reached' = reached BY <1>7 DEF Refused, Sent
  <2>3. req[r] # Idle BY <2>1 DEF Idle
  <2>4. req[r] \in AnyRequest BY <2>3 DEF RouteInv, RequestsInv, Sane
  <2>5. PICK p \in Outcome(req[r]) : req' = [req EXCEPT ![r] = p] BY <1>7, <2>1, <2>4, CallOutcome
  <2>6. ~StageIs(r, "stream", "wait")' BY <1>1, <1>7 DEF StageIs
  <2> QED BY <1>1, <1>2, <2>1, <2>2, <2>3, <2>5, <2>6, SentKeeps DEF Outcome
<1>8. CASE Told(r) /\ turn[r] = NoTurn
  <2>1. req' = [req EXCEPT ![r] = Idle] /\ UNCHANGED <<cache, scopes, sessions, reached>>
    BY <1>8 DEF Told
  <2>2. ManyNodes => ReachedInv' BY <2>1, <1>1 DEF RouteInv, HomeInv, ReachedInv
  <2>3. ~StageIs(r, "stream", "wait")' BY <1>1, <1>8 DEF StageIs
  <2> QED BY <1>1, <1>2, <2>1, <2>2, <2>3, ReplaceRequest
<1>9. ~StageIs(r, "stream", "wait") BY DEF CallStep, Calling, StageIs
<1> QED BY <1>3, <1>4, <1>5, <1>6, <1>7, <1>8, <1>9 DEF CallStep, Routing, Calls

-----------------------------------------------------------------------------
(* The steps of a handler. *)

(* Only a stream that waits for its slot relies on a routed request. *)
Elsewhere(r) ==
    /\ turn' \in [Requests -> Turn \cup {NoTurn}]
    /\ \A u \in Requests \ {r} : turn'[u] = turn[u]
    /\ ~StageIs(r, "stream", "wait")'

(* The handler goes to a stage other than a stream's waiting, or ends. *)
LEMMA StagesAndEnds ==
    ASSUME TurnsInv, NEW r \in Requests
    PROVE  /\ Ends(r) => Elsewhere(r)
           /\ \A stage \in {"prepare", "route", "turn", "read"} :
                  turn[r] # NoTurn /\ Stage(r, stage) => Elsewhere(r)
           /\ turn[r] # NoTurn /\ turn[r].kind = "chat" /\ Stage(r, "wait") => Elsewhere(r)
<1>1. Ends(r) => Elsewhere(r) BY DEF Ends, Elsewhere, TurnsInv, StageIs
<1>2. ASSUME NEW stage \in {"prepare", "route", "wait", "turn", "read"},
             turn[r] # NoTurn, Stage(r, stage)
      PROVE  /\ turn' \in [Requests -> Turn \cup {NoTurn}]
             /\ \A u \in Requests \ {r} : turn'[u] = turn[u]
             /\ turn'[r].stage = stage /\ turn'[r].kind = turn[r].kind
  <2>1. turn[r] \in Turn BY <1>2 DEF TurnsInv
  <2>2. turn' = [turn EXCEPT ![r] = [turn[r] EXCEPT !.stage = stage]] BY <1>2 DEF Stage
  <2>3. [turn[r] EXCEPT !.stage = stage] \in Turn BY <2>1 DEF Turn
  <2>4. /\ [turn[r] EXCEPT !.stage = stage].stage = stage
        /\ [turn[r] EXCEPT !.stage = stage].kind = turn[r].kind
    BY <2>1 DEF Turn
  <2> QED BY <2>2, <2>3, <2>4 DEF TurnsInv
<1> QED BY <1>1, <1>2 DEF Elsewhere, StageIs

(* The rest of the state is as it was, and the request ends or is asked. *)
LEMMA HandsOver ==
    ASSUME RouteInv, NEW r \in Requests, Elsewhere(r), RestOfRoutes,
           req' = [req EXCEPT ![r] = Idle] \/ Asks(r),
           Asks(r) => turn[r] \in Turn
    PROVE  RouteInv'
<1>1. UNCHANGED <<mode, ready, cache, scopes, sessions, reached>> BY DEF RestOfRoutes
<1>2. ManyNodes => ReachedInv' BY <1>1 DEF RouteInv, HomeInv, ReachedInv
<1>3. CASE req' = [req EXCEPT ![r] = Idle]
  BY <1>1, <1>2, <1>3, ReplaceRequest DEF Elsewhere
<1>4. CASE Asks(r)
  <2> DEFINE s == turn[r].session
             p == Asked(s, OwnerOf[s], TRUE)
  <2>1. s \in Sessions /\ OwnerOf[s] \in Scopes BY <1>4, HermesRoutesAssumption DEF Turn
  <2>2. p \in AnyRequest /\ p.phase = "discover" /\ p.session = s /\ p.scope = OwnerOf[s]
    BY <2>1, RequestIsAsked DEF Asked
  <2>3. Sane(p) /\ AtHome(p) BY <2>1, <2>2 DEF Sane, AtHome
  <2>4. req' = [req EXCEPT ![r] = p] BY <1>4 DEF Asks
  <2> HIDE DEF p
  <2> QED BY <1>1, <1>2, <2>3, <2>4, ReplaceRequest DEF Elsewhere
<1> QED BY <1>3, <1>4

(* Nothing of the routes changes, and no stream comes to wait that is not  *)
(* routed.                                                                 *)
LEMMA KeepsRoutes ==
    ASSUME RouteInv, UNCHANGED routeVars,
           turn' \in [Requests -> Turn \cup {NoTurn}],
           \A u \in Requests : StageIs(u, "stream", "wait")' =>
               StageIs(u, "stream", "wait") \/ (req[u] # Idle /\ req[u].phase = "routed")
    PROVE  RouteInv'
<1>1. UNCHANGED <<mode, ready, cache, scopes, sessions, req, reached>> BY DEF routeVars
<1>2. RequestsInv' BY <1>1 DEF RouteInv, RequestsInv, Sane
<1>3. NodesInv' BY <1>1 DEF RouteInv, NodesInv
<1>4. BindingsInv' BY <1>1 DEF RouteInv, BindingsInv, SessionsFollowScope
<1>5. TurnsInv' BY DEF TurnsInv
<1>6. ManyNodes => HomeInv' BY <1>1 DEF RouteInv, HomeInv, ReachedInv, AtHome
<1> QED BY <1>2, <1>3, <1>4, <1>5, <1>6 DEF RouteInv

LEMMA HandlerKeeps ==
    ASSUME RouteInv, NEW r \in Requests, HandlerStep(r)
    PROVE  RouteInv'
<1>0. TurnsInv BY DEF RouteInv
<1>1. turn[r] # NoTurn => turn[r] \in Turn BY <1>0 DEF TurnsInv
<1>2. ASSUME UNCHANGED routeVars, Elsewhere(r) PROVE RouteInv'
  <2>1. \A u \in Requests : StageIs(u, "stream", "wait")' => StageIs(u, "stream", "wait")
    BY <1>2 DEF Elsewhere, StageIs
  <2> QED BY <1>2, <2>1, KeepsRoutes DEF Elsewhere
<1>3. CASE Begin(r)
  <2>1. PICK k \in {"chat", "stream"}, s \in Sessions :
            turn' = [turn EXCEPT ![r] = [kind |-> k, session |-> s, stage |-> "prepare"]]
    BY <1>3 DEF Begin
  <2>2. Elsewhere(r) BY <2>1, <1>0 DEF Elsewhere, TurnsInv, Turn, StageIs
  <2>3. UNCHANGED routeVars BY <1>3 DEF Begin
  <2> QED BY <1>2, <2>2, <2>3
<1>4. CASE Prepared(r)
  <2>1. CASE StageIs(r, "chat", "prepare") /\ Stage(r, "wait") /\ UNCHANGED routeVars
    BY <1>0, <1>2, <2>1, StagesAndEnds DEF StageIs
  <2>2. CASE StageIs(r, "stream", "prepare") /\ Stage(r, "route") /\ Asks(r) /\ RestOfRoutes
    <3>1. Elsewhere(r) /\ turn[r] \in Turn BY <1>0, <1>1, <2>2, StagesAndEnds DEF StageIs
    <3> QED BY <2>2, <3>1, HandsOver
  <2>3. CASE Ends(r) /\ UNCHANGED routeVars BY <1>0, <1>2, <2>3, StagesAndEnds
  <2> QED BY <1>4, <2>1, <2>2, <2>3 DEF Prepared
<1>5. CASE Opens(r)
  <2>1. CASE req[r].phase = "routed" /\ Stage(r, "wait") /\ UNCHANGED routeVars
    <3>1. req[r] # Idle BY <2>1 DEF Idle
    <3>2. turn[r] \in Turn BY <1>1, <1>5 DEF Opens, StageIs
    <3>3. turn' = [turn EXCEPT ![r] = [turn[r] EXCEPT !.stage = "wait"]] BY <2>1 DEF Stage
    <3>4. [turn[r] EXCEPT !.stage = "wait"] \in Turn BY <3>2 DEF Turn
    <3>5. turn' \in [Requests -> Turn \cup {NoTurn}] /\ \A u \in Requests \ {r} : turn'[u] = turn[u]
      BY <3>3, <3>4, <1>0 DEF TurnsInv
    <3>6. \A u \in Requests : StageIs(u, "stream", "wait")' =>
              StageIs(u, "stream", "wait") \/ (req[u] # Idle /\ req[u].phase = "routed")
      BY <2>1, <3>1, <3>5 DEF StageIs
    <3> QED BY <2>1, <3>5, <3>6, KeepsRoutes
  <2>2. CASE Ends(r) /\ req' = [req EXCEPT ![r] = Idle] /\ RestOfRoutes /\ req[r].phase = "failed"
    <3>1. ~Asks(r) \/ turn[r] \in Turn BY <1>1, <1>5 DEF Opens, StageIs
    <3> QED BY <1>0, <2>2, <3>1, StagesAndEnds, HandsOver
  <2> QED BY <1>5, <2>1, <2>2 DEF Opens
<1>6. CASE Submits(r)
  <2>1. Elsewhere(r) /\ turn[r] \in Turn
    BY <1>0, <1>1, <1>6, StagesAndEnds DEF Submits, StageIs
  <2> QED BY <1>6, <2>1, HandsOver DEF Submits
<1>7. CASE Submitted(r)
  <2>1. turn[r] \in Turn BY <1>1, <1>7 DEF Submitted, StageIs
  <2>2. Elsewhere(r) BY <1>0, <1>7, StagesAndEnds DEF Submitted, StageIs
  <2> QED BY <1>7, <2>1, <2>2, HandsOver DEF Submitted
<1>8. CASE Reads(r)
  BY <1>0, <1>2, <1>8, StagesAndEnds DEF Reads
<1>9. CASE Streams(r)
  <2>1. StageIs(r, "stream", "wait") BY <1>9 DEF Streams
  <2>2. req[r] # Idle /\ req[r].phase = "routed" /\ req[r] \in AnyRequest
    BY <2>1 DEF RouteInv, RequestsInv, Sane
  <2>3. Elsewhere(r) BY <1>0, <1>9, StagesAndEnds DEF Streams, StageIs
  <2> DEFINE p == [req[r] EXCEPT !.phase = "answered"]
  <2>4. p \in AnyRequest /\ p.scope = req[r].scope /\ p.session = req[r].session
        /\ p.node = req[r].node /\ p.phase = "answered"
    BY <2>2 DEF AnyRequest
  <2>5. req' = [req EXCEPT ![r] = p] BY <1>9 DEF Streams
  <2>6. UNCHANGED <<mode, ready, cache, scopes, sessions>> BY <1>9 DEF Streams
  <2>7. Reaches(r) \/ reached' = reached BY <1>9 DEF Streams
  <2> HIDE DEF p
  <2> QED BY <2>2, <2>3, <2>4, <2>5, <2>6, <2>7, SentKeeps DEF Elsewhere
<1>10. CASE StreamEnds(r)
  <2>1. turn[r] \in Turn BY <1>1, <1>10 DEF StreamEnds, StageIs
  <2> QED BY <1>0, <1>10, <2>1, StagesAndEnds, HandsOver DEF StreamEnds
<1>11. CASE Disconnect(r)
  <2>1. turn[r] \in Turn BY <1>1, <1>11 DEF Disconnect, StageIs
  <2> QED BY <1>0, <1>11, <2>1, StagesAndEnds, HandsOver DEF Disconnect
<1>12. CASE UNCHANGED <<routeVars, turn>>
  BY <1>0, <1>12, KeepsRoutes DEF StageIs, TurnsInv
<1> QED BY <1>3, <1>4, <1>5, <1>6, <1>7, <1>8, <1>9, <1>10, <1>11, <1>12 DEF HandlerStep

-----------------------------------------------------------------------------
LEMMA EnvironmentKeeps ==
    ASSUME RouteInv, Environment
    PROVE  RouteInv'
<1>0. UNCHANGED turn BY DEF Environment
<1>1. CASE CacheExpires
  <2>1. cache' = {} /\ UNCHANGED <<mode, ready, scopes, sessions, req, reached>> BY <1>1 DEF CacheExpires
  <2> QED BY <1>0, <2>1 DEF RouteInv, RequestsInv, Sane, NodesInv, BindingsInv, SessionsFollowScope,
                            TurnsInv, StageIs, HomeInv, ReachedInv, AtHome
<1>2. CASE NodesChange
  <2>1. UNCHANGED <<mode, cache, scopes, sessions, req, reached>> BY <1>2 DEF NodesChange
  <2>2. ready' \subseteq Nodes /\ Cardinality(ready') >= mode.floor
    BY <1>2 DEF NodesChange, RouteInv, NodesInv
  <2> QED BY <1>0, <2>1, <2>2 DEF RouteInv, RequestsInv, Sane, NodesInv, BindingsInv, SessionsFollowScope,
                                  TurnsInv, StageIs, HomeInv, ReachedInv, AtHome
<1>3. ASSUME NEW s \in Sessions, Forget(s) PROVE RouteInv'
  <2>1. UNCHANGED <<mode, ready, cache, scopes, req, reached>> BY <1>3 DEF Forget
  <2>2. BindingsInv' BY <1>3, <2>1, HermesRoutesAssumption
                     DEF Forget, RouteInv, BindingsInv, SessionsFollowScope
  <2> QED BY <1>0, <2>1, <2>2 DEF RouteInv, RequestsInv, Sane, NodesInv, TurnsInv, StageIs,
                                  HomeInv, ReachedInv, AtHome
<1> QED BY <1>1, <1>2, <1>3 DEF Environment

(* Bindings, requests and the nodes they reach agree in every state. *)
THEOREM RoutesAgree == Spec => []RouteInv
<1>1. Init => RouteInv
  <2> SUFFICES ASSUME Init PROVE RouteInv OBVIOUS
  <2>1. RequestsInv BY DEF Init, RouteInit, RequestsInv, StageIs
  <2>2. NodesInv
    <3>1. Cardinality(Nodes) \in Nat BY HermesRoutesAssumption, FS_CardinalityType
    <3> QED BY <3>1, HermesRoutesAssumption DEF Init, RouteInit, NodesInv, Mode
  <2>3. BindingsInv BY DEF Init, RouteInit, BindingsInv, SessionsFollowScope
  <2>4. TurnsInv BY DEF Init, TurnsInv
  <2>5. HomeInv BY DEF Init, RouteInit, HomeInv, ReachedInv
  <2> QED BY <2>1, <2>2, <2>3, <2>4, <2>5 DEF RouteInv
<1>2. RouteInv /\ [Next]_vars => RouteInv'
  <2> SUFFICES ASSUME RouteInv, [Next]_vars PROVE RouteInv' OBVIOUS
  <2>1. CASE Environment BY <2>1, EnvironmentKeeps
  <2>2. ASSUME NEW r \in Requests, CallStep(r) PROVE RouteInv' BY <2>2, CallKeeps
  <2>3. ASSUME NEW r \in Requests, HandlerStep(r) PROVE RouteInv' BY <2>3, HandlerKeeps
  <2>4. CASE UNCHANGED vars BY <2>4, KeepsRoutes DEF vars, StageIs, RouteInv, TurnsInv
  <2> QED BY <2>1, <2>2, <2>3, <2>4 DEF Next
<1> QED BY <1>1, <1>2, PTL DEF Spec

(* A session is bound where its owner is, for any number of nodes, owners, *)
(* sessions and requests that race, move owners and forget sessions        *)
(* (rebind_scope_if_matches, bind_session and remove_session of            *)
(* HermesRouteStore).                                                      *)
THEOREM SessionsStayTogether == Spec => []SessionsFollowScope
<1>1. RouteInv => SessionsFollowScope BY DEF RouteInv, BindingsInv
<1> QED BY <1>1, RoutesAgree, PTL

(* An owner that is not moved is served by one node, whatever requests of  *)
(* its race to bind it and however long a request holds its node, provided *)
(* that more than one node is configured or ready at any time: with one    *)
(* node the pool does not read the bindings (multi_node).                  *)
THEOREM OwnersHaveOneHome == ManyNodes => (Spec => []OneHomePerOwner)
<1> SUFFICES ASSUME ManyNodes PROVE Spec => []OneHomePerOwner OBVIOUS
<1>1. RouteInv => OneHomePerOwner
  <2> SUFFICES ASSUME RouteInv, ~mode.rebinding, NEW o \in Scopes
               PROVE Cardinality(reached[o]) <= 1
    BY DEF OneHomePerOwner
  <2>1. reached[o] \subseteq {scopes[o]} BY DEF RouteInv, HomeInv, ReachedInv
  <2>2. reached[o] = {} \/ reached[o] = {scopes[o]} BY <2>1
  <2>3. Cardinality({}) = 0 /\ Cardinality({scopes[o]}) = 1 BY FS_EmptySet, FS_Singleton
  <2> QED BY <2>2, <2>3
<1> QED BY <1>1, RoutesAgree, PTL

-----------------------------------------------------------------------------
(***************************************************************************)
(* What one call does.  The invariant counts attempts and executions, says *)
(* that a change that is still on its way has not been executed, and that  *)
(* a request probes other nodes because its pool misses the bound one.     *)
(***************************************************************************)

Over(q) == q.phase \in {"answered", "failed"}

CallInv(q) ==
    /\ q.attempt \in 1..MaxAttempts
    /\ q.done <= IF Over(q) THEN q.attempt ELSE q.attempt - 1
    /\ q.write => /\ q.done <= IF Over(q) THEN 1 ELSE 0
                  /\ q.phase = "failed" /\ q.retryable /\ ~q.unknown => q.done = 0
    /\ q.phase = "routed" => q.node \in Nodes
    /\ q.phase = "probe" => q.bound \notin q.pool /\ (q.bound # None => mode.rebinding)

CallsInv == \A r \in Requests : req[r] # Idle => CallInv(req[r])

(* One request changes, to one that is honest. *)
LEMMA ReplaceCall ==
    ASSUME RouteInv, CallsInv, NEW r \in Requests, NEW p, p = Idle \/ CallInv(p),
           req' = [req EXCEPT ![r] = p], mode' = mode
    PROVE  CallsInv'
<1>1. \A u \in Requests : req'[u] = IF u = r THEN p ELSE req[u] BY DEF RouteInv, RequestsInv
<1> QED BY <1>1 DEF CallsInv, CallInv

(* A request that is asked. *)
LEMMA AskedIsHonest ==
    ASSUME NEW s, NEW o, NEW w
    PROVE  CallInv(Asked(s, o, w))
BY HermesRoutesAssumption DEF CallInv, Asked, Over

(* A request that is not routed yet finds a node or fails. *)
LEMMA FoundIsHonest ==
    ASSUME RouteInv, CallsInv, NEW r \in Requests, req[r] # Idle,
           req[r].phase \in {"discover", "fetch", "probe"}, mode' = mode,
           \/ Fails(r)
           \/ \E pool \in SUBSET Nodes, n \in Nodes : Routed(r, [req[r] EXCEPT !.pool = pool], n)
           \/ \E n \in Nodes : Routed(r, req[r], n)
    PROVE  CallsInv'
<1>1. req[r] \in AnyRequest /\ CallInv(req[r]) BY DEF RouteInv, RequestsInv, Sane, CallsInv
<1>2. ASSUME NEW q \in AnyRequest, NEW n \in Nodes, Routed(r, q, n),
             q.attempt = req[r].attempt, q.done = req[r].done, q.write = req[r].write
      PROVE  CallsInv'
  <2> DEFINE p == [q EXCEPT !.phase = "routed", !.node = n, !.pool = {}, !.bound = None]
  <2>1. /\ p.phase = "routed" /\ p.attempt = q.attempt /\ p.done = q.done /\ p.write = q.write
        /\ p.node = n
    BY DEF AnyRequest
  <2>2. CallInv(p) BY <1>1, <1>2, <2>1 DEF CallInv, Over
  <2>3. req' = [req EXCEPT ![r] = p] BY <1>2, Zenon DEF Routed
  <2> HIDE DEF p
  <2> QED BY <2>2, <2>3, ReplaceCall
<1>3. ASSUME NEW pool \in SUBSET Nodes, NEW n \in Nodes, Routed(r, [req[r] EXCEPT !.pool = pool], n)
      PROVE  CallsInv'
  <2> DEFINE q == [req[r] EXCEPT !.pool = pool]
  <2>1. q \in AnyRequest BY <1>1 DEF AnyRequest
  <2>2. q.attempt = req[r].attempt /\ q.done = req[r].done /\ q.write = req[r].write
    BY <1>1 DEF AnyRequest
  <2> HIDE DEF q
  <2>3. Routed(r, q, n) BY <1>3 DEF q
  <2> QED BY <1>2, <2>1, <2>2, <2>3
<1>4. CASE Fails(r)
  <2> DEFINE p == [req[r] EXCEPT !.phase = "failed", !.retryable = TRUE, !.pool = {}, !.bound = None]
  <2>1. p.phase = "failed" /\ p.attempt = req[r].attempt /\ p.done = req[r].done
        /\ p.write = req[r].write
    BY <1>1 DEF AnyRequest
  <2>2. req' = [req EXCEPT ![r] = p] BY <1>4 DEF Fails
  <2> HIDE DEF p
  <2>3. req[r].done \in Nat BY <1>1 DEF AnyRequest
  <2>4. CallInv(p) BY <1>1, <2>1, <2>3 DEF CallInv, Over
  <2> QED BY <2>2, <2>4, ReplaceCall
<1> QED BY <1>1, <1>2, <1>3, <1>4

(* A request with its pool at hand. *)
LEMMA RouteIsHonest ==
    ASSUME RouteInv, CallsInv, NEW r \in Requests, NEW pool \in SUBSET Nodes,
           req[r] # Idle, req[r].phase \in {"discover", "fetch"}, mode' = mode,
           Route(r, pool)
    PROVE  CallsInv'
<1> DEFINE q == [req[r] EXCEPT !.pool = pool]
           n == Bound(q)
           p == [q EXCEPT !.phase = "probe", !.bound = n]
<1>1. req[r] \in AnyRequest /\ CallInv(req[r]) BY DEF RouteInv, RequestsInv, Sane, CallsInv
<1>2. CASE n \notin pool /\ (n # None => mode.rebinding) /\ req' = [req EXCEPT ![r] = p]
  <2>1. /\ p.phase = "probe" /\ p.attempt = req[r].attempt /\ p.done = req[r].done
        /\ p.write = req[r].write /\ p.pool = pool /\ p.bound = n
    BY <1>1 DEF AnyRequest
  <2> HIDE DEF p, q, n
  <2>2. CallInv(p) BY <1>1, <1>2, <2>1 DEF CallInv, Over
  <2> QED BY <1>2, <2>2, ReplaceCall
<1>3. \/ Fails(r)
      \/ \E m \in Nodes : Routed(r, q, m)
      \/ n \notin pool /\ (n # None => mode.rebinding) /\ req' = [req EXCEPT ![r] = p]
  BY HermesRoutesAssumption DEF Route, Serves
<1> QED BY <1>2, <1>3, FoundIsHonest

(* The call of a routed request: a change that Hermes may have done is not *)
(* sent again.                                                             *)
LEMMA SentIsHonest ==
    ASSUME RouteInv, CallsInv, NEW r \in Requests, req[r] # Idle, req[r].phase = "routed",
           Refused(r) \/ Sent(r), mode' = mode
    PROVE  CallsInv'
<1>1. req[r] \in AnyRequest /\ CallInv(req[r]) BY DEF RouteInv, RequestsInv, Sane, CallsInv
<1>2. /\ req[r].attempt \in 1..MaxAttempts /\ req[r].done \in Nat /\ req[r].done <= req[r].attempt - 1
      /\ req[r].write \in BOOLEAN /\ (req[r].write => req[r].done = 0) /\ req[r].node \in Nodes
  BY <1>1 DEF AnyRequest, CallInv, Over
<1>3. ASSUME NEW d \in {0, 1}, Again(r, d), req[r].attempt < MaxAttempts, req[r].write => d = 0
      PROVE  CallsInv'
  <2> DEFINE p == [req[r] EXCEPT !.attempt = @ + 1, !.done = @ + d]
  <2>1. /\ p.phase = "routed" /\ p.attempt = req[r].attempt + 1 /\ p.done = req[r].done + d
        /\ p.write = req[r].write /\ p.node = req[r].node
    BY <1>1 DEF AnyRequest
  <2>2. req' = [req EXCEPT ![r] = p] BY <1>3 DEF Again
  <2> HIDE DEF p
  <2>3. CallInv(p) BY <1>2, <1>3, <2>1, HermesRoutesAssumption DEF CallInv, Over
  <2> QED BY <2>2, <2>3, ReplaceCall
<1>4. ASSUME NEW d \in {0, 1}, NEW retryable \in BOOLEAN, NEW unknown \in BOOLEAN,
             GivesUp(r, d, retryable, unknown), req[r].write /\ retryable /\ ~unknown => d = 0
      PROVE  CallsInv'
  <2> DEFINE p == [req[r] EXCEPT !.phase = "failed", !.done = @ + d,
                                 !.retryable = retryable, !.unknown = unknown]
  <2>1. /\ p.phase = "failed" /\ p.attempt = req[r].attempt /\ p.done = req[r].done + d
        /\ p.write = req[r].write /\ p.retryable = retryable /\ p.unknown = unknown
    BY <1>1 DEF AnyRequest
  <2>2. req' = [req EXCEPT ![r] = p] BY <1>4 DEF GivesUp
  <2> HIDE DEF p
  <2>3. CallInv(p) BY <1>2, <1>4, <2>1, HermesRoutesAssumption DEF CallInv, Over
  <2> QED BY <2>2, <2>3, ReplaceCall
<1>5. CASE Answered(r)
  <2> DEFINE p == [req[r] EXCEPT !.phase = "answered", !.done = @ + 1]
  <2>1. /\ p.phase = "answered" /\ p.attempt = req[r].attempt /\ p.done = req[r].done + 1
        /\ p.write = req[r].write
    BY <1>1 DEF AnyRequest
  <2>2. req' = [req EXCEPT ![r] = p] BY <1>5 DEF Answered
  <2> HIDE DEF p
  <2>3. CallInv(p) BY <1>2, <2>1, HermesRoutesAssumption DEF CallInv, Over
  <2> QED BY <2>2, <2>3, ReplaceCall
<1>6. CASE Refused(r) BY <1>3, <1>4, <1>6 DEF Refused
<1>7. CASE Sent(r)
  <2>1. ASSUME NEW d \in {0, 1}, Replayable(req[r]), Again(r, d) PROVE CallsInv'
    BY <1>3, <2>1 DEF Replayable
  <2>2. ASSUME NEW d \in {0, 1}, GivesUp(r, d, TRUE, req[r].write) PROVE CallsInv'
    BY <1>2, <1>4, <2>2
  <2>3. ASSUME GivesUp(r, 0, FALSE, FALSE) PROVE CallsInv' BY <1>4, <2>3
  <2> QED BY <1>5, <1>7, <2>1, <2>2, <2>3 DEF Sent
<1> QED BY <1>6, <1>7

LEMMA StepsAreHonest ==
    ASSUME RouteInv, CallsInv, [Next]_vars
    PROVE  CallsInv'
<1>0. mode' = mode
  BY DEF Next, vars, routeVars, Environment, CacheExpires, NodesChange, Forget, CallStep, Routing, Calls,
         Ask, Discover, Fetch, Probe, Refused, Sent, Told, HandlerStep, Begin, Prepared, Opens,
         Submits, Submitted, Reads, Streams, StreamEnds, Disconnect, RestOfRoutes
<1>1. ASSUME req' = req PROVE CallsInv' BY <1>0, <1>1 DEF CallsInv, CallInv
<1>2. ASSUME NEW r \in Requests, req' = [req EXCEPT ![r] = Idle] PROVE CallsInv'
  BY <1>0, <1>2, ReplaceCall
<1>3. ASSUME NEW r \in Requests, NEW s, NEW o, NEW w, req' = [req EXCEPT ![r] = Asked(s, o, w)]
      PROVE  CallsInv'
  BY <1>0, <1>3, AskedIsHonest, ReplaceCall
<1>4. ASSUME NEW r \in Requests, CallStep(r) PROVE CallsInv'
  <2>1. CASE Ask(r) BY <1>3, <2>1 DEF Ask
  <2>2. CASE Discover(r)
    <3>1. req[r] # Idle /\ req[r].phase = "discover" BY <2>2 DEF Discover, Idle
    <3>2. req[r] \in AnyRequest /\ CallInv(req[r])
      BY <3>1 DEF RouteInv, RequestsInv, Sane, CallsInv
    <3>3. CASE mode.kubernetes /\ cache = {}
      <4> DEFINE p == [req[r] EXCEPT !.phase = "fetch"]
      <4>1. p.phase = "fetch" /\ p.attempt = req[r].attempt /\ p.done = req[r].done
            /\ p.write = req[r].write
        BY <3>2 DEF AnyRequest
      <4>2. req' = [req EXCEPT ![r] = p] BY <2>2, <3>3 DEF Discover
      <4> HIDE DEF p
      <4>3. CallInv(p) BY <3>1, <3>2, <4>1 DEF CallInv, Over
      <4> QED BY <1>0, <4>2, <4>3, ReplaceCall
    <3>4. CASE ~(mode.kubernetes /\ cache = {})
      <4>1. PICK pool \in SUBSET Nodes : Route(r, pool)
        BY <2>2, <3>4 DEF Discover, RouteInv, NodesInv
      <4> QED BY <1>0, <3>1, <4>1, RouteIsHonest
    <3> QED BY <3>3, <3>4
  <2>3. CASE Fetch(r)
    <3>1. req[r] # Idle /\ req[r].phase = "fetch" BY <2>3 DEF Fetch, Idle
    <3>2. ready \in SUBSET Nodes BY DEF RouteInv, NodesInv
    <3>3. CASE Route(r, ready) BY <1>0, <3>1, <3>2, <3>3, RouteIsHonest
    <3>4. CASE Fails(r) BY <1>0, <3>1, <3>4, FoundIsHonest
    <3> QED BY <2>3, <3>3, <3>4 DEF Fetch
  <2>4. CASE Probe(r)
    <3>1. req[r] # Idle /\ req[r].phase = "probe" BY <2>4 DEF Probe, Idle
    <3>2. req[r].pool \subseteq Nodes BY <3>1 DEF RouteInv, RequestsInv, Sane, AnyRequest
    <3>3. Fails(r) \/ \E n \in Nodes : Routed(r, req[r], n)
      BY <2>4, <3>2 DEF Probe, Lightest, Serves, Moves, Assigns
    <3> QED BY <1>0, <3>1, <3>3, FoundIsHonest
  <2>5. CASE Refused(r) \/ Sent(r)
    <3>1. req[r].phase = "routed" BY <2>5 DEF Refused, Sent
    <3>2. req[r] # Idle BY <3>1 DEF Idle
    <3> QED BY <1>0, <2>5, <3>1, <3>2, SentIsHonest
  <2>6. CASE Told(r) BY <1>2, <2>6 DEF Told
  <2> QED BY <1>4, <2>1, <2>2, <2>3, <2>4, <2>5, <2>6 DEF CallStep, Routing, Calls
<1>5. ASSUME NEW r \in Requests, HandlerStep(r) PROVE CallsInv'
  <2>1. CASE Streams(r)
    <3>1. req[r] # Idle /\ req[r].phase = "routed"
      BY <2>1 DEF Streams, RouteInv, RequestsInv
    <3>2. req[r] \in AnyRequest /\ CallInv(req[r])
      BY <3>1 DEF RouteInv, RequestsInv, Sane, CallsInv
    <3> DEFINE p == [req[r] EXCEPT !.phase = "answered"]
    <3>3. p.phase = "answered" /\ p.attempt = req[r].attempt /\ p.done = req[r].done
          /\ p.write = req[r].write
      BY <3>2 DEF AnyRequest
    <3>4. req' = [req EXCEPT ![r] = p] BY <2>1 DEF Streams
    <3> HIDE DEF p
    <3>5. req[r].done \in Nat /\ req[r].attempt \in Nat BY <3>2 DEF AnyRequest
    <3>6. CallInv(p) BY <3>1, <3>2, <3>3, <3>5 DEF CallInv, Over
    <3> QED BY <1>0, <3>4, <3>6, ReplaceCall
  <2>2. ASSUME Asks(r) PROVE CallsInv' BY <1>3, <2>2 DEF Asks
  <2> QED BY <1>1, <1>2, <1>5, <2>1, <2>2
          DEF HandlerStep, Begin, Prepared, Opens, Submits, Submitted, Reads, StreamEnds, Disconnect,
              routeVars
<1>6. CASE Environment
  BY <1>1, <1>6 DEF Environment, CacheExpires, NodesChange, Forget
<1>7. CASE UNCHANGED vars BY <1>1, <1>7 DEF vars, routeVars
<1> QED BY <1>4, <1>5, <1>6, <1>7 DEF Next

(* Every call counts its attempts and executions. *)
THEOREM CallsCount == Spec => []CallsInv
<1>1. Init => CallsInv BY DEF Init, RouteInit, CallsInv
<1>2. RouteInv /\ CallsInv /\ [Next]_vars => CallsInv' BY StepsAreHonest
<1> QED BY <1>1, <1>2, RoutesAgree, PTL DEF Spec

(* A change is done at most once by one call, and a caller that is told to *)
(* try again, with the outcome known, repeats nothing, for any number of   *)
(* attempts and any interleaving with node changes (the retry loop of      *)
(* _hermes_json: replayable, outcome_unknown).                             *)
THEOREM ChangesAreDoneOnce == Spec => []CallsAreHonest
<1>1. RouteInv /\ CallsInv => CallsAreHonest
  <2> SUFFICES ASSUME RouteInv, CallsInv, NEW r \in Requests, req[r] # Idle, req[r].write
               PROVE  /\ req[r].done <= 1
                      /\ req[r].phase = "failed" /\ req[r].retryable /\ ~req[r].unknown => req[r].done = 0
    BY DEF CallsAreHonest
  <2>1. req[r].done \in Nat BY DEF RouteInv, RequestsInv, Sane, AnyRequest
  <2>2. CallInv(req[r]) BY DEF CallsInv
  <2> QED BY <2>1, <2>2 DEF CallInv, Over
<1> QED BY <1>1, RoutesAgree, CallsCount, PTL

-----------------------------------------------------------------------------
(* Who changes the binding of an owner. *)

(* An owner without a home gets one; a home is only exchanged by a request *)
(* that probed because the home was not in its pool.                       *)
Settles == \A o \in Scopes : scopes[o] # None => scopes'[o] = scopes[o]

MovedBy(r) ==
    LET q == req[r]
    IN  /\ q.phase = "probe" /\ req'[r].phase = "routed" /\ mode.rebinding
        /\ q.scope \in Scopes /\ scopes[q.scope] \notin q.pool
        /\ \A o \in Scopes : o # q.scope => scopes'[o] = scopes[o]

LEMMA BindingOnlySettles ==
    ASSUME BindingsInv, NEW q, NEW n, q.scope \in Scopes,
           scopes[q.scope] \in {None, n}, Binds(q, n)
    PROVE  Settles
BY DEF Binds, Settles, BindingsInv

LEMMA RoutingSettles ==
    ASSUME RouteInv, NEW r \in Requests, req[r] # Idle, NEW pool \in SUBSET Nodes, Route(r, pool)
    PROVE  Settles
<1> DEFINE q == [req[r] EXCEPT !.pool = pool]
           n == Bound(q)
<1>1. Sane(req[r]) BY DEF RouteInv, RequestsInv
<1>2. q.scope = req[r].scope /\ q.session = req[r].session BY <1>1 DEF Sane, AnyRequest
<1>3. KeepBindings => Settles BY DEF KeepBindings, Settles
<1>4. q.scope \in Scopes \cup {Cron} BY <1>1, <1>2 DEF Sane, AnyRequest
<1>5. CASE q.session # None /\ Binds(q, n) /\ ~Conflicts(q, n) /\ q.scope # Cron
  <2>1. scopes[q.scope] \in {None, n} BY <1>5 DEF Conflicts
  <2> HIDE DEF q, n
  <2> QED BY <1>4, <1>5, <2>1, BindingOnlySettles DEF RouteInv
<1>6. KeepBindings \/ (q.session # None /\ Binds(q, n) /\ ~Conflicts(q, n) /\ q.scope # Cron)
  BY DEF Route, Serves
<1> QED BY <1>3, <1>5, <1>6

LEMMA ProbingMoves ==
    ASSUME RouteInv, CallsInv, NEW r \in Requests, Probe(r)
    PROVE  Settles \/ MovedBy(r)
<1> DEFINE q == req[r]
           now == scopes[q.scope]
<1>1. q # Idle /\ q.phase = "probe" BY DEF Probe, Idle
<1>2. q \in AnyRequest /\ q.scope \in Scopes /\ CallInv(q)
  BY <1>1 DEF RouteInv, RequestsInv, Sane, CallsInv
<1>3. CASE KeepBindings BY <1>3 DEF KeepBindings, Settles
<1>4. ASSUME NEW n \in Nodes, now \in {None, n}, Binds(q, n) PROVE Settles
  BY <1>2, <1>4, BindingOnlySettles DEF RouteInv
<1>5. ASSUME NEW n \in Nodes, Routed(r, q, n), Rebinds(q, n), q.bound # None, StillBound(q)
      PROVE  MovedBy(r)
  <2> DEFINE p == [q EXCEPT !.phase = "routed", !.node = n, !.pool = {}, !.bound = None]
  <2>1. p.phase = "routed" BY <1>2 DEF AnyRequest
  <2>2. req' = [req EXCEPT ![r] = p] BY <1>5, Zenon DEF Routed
  <2> HIDE DEF p
  <2>3. req'[r] = p BY <2>2 DEF RouteInv, RequestsInv
  <2>4. now \notin q.pool /\ mode.rebinding BY <1>1, <1>2, <1>5 DEF StillBound, CallInv
  <2>5. \A o \in Scopes : o # q.scope => scopes'[o] = scopes[o]
    BY <1>5 DEF Rebinds, RouteInv, BindingsInv
  <2> QED BY <1>1, <1>2, <2>1, <2>3, <2>4, <2>5 DEF MovedBy
<1>6. \/ KeepBindings
      \/ \E n \in Nodes : now \in {None, n} /\ Binds(q, n)
      \/ \E n \in Nodes : Routed(r, q, n) /\ Rebinds(q, n) /\ q.bound # None /\ StillBound(q)
  BY <1>2 DEF Probe, Lightest, Serves, Moves, Assigns, AnyRequest
<1> HIDE DEF q, now
<1> QED BY <1>3, <1>4, <1>5, <1>6

LEMMA BindingsSettleOrMove ==
    ASSUME RouteInv, CallsInv, [Next]_vars
    PROVE  Settles \/ \E r \in Requests : MovedBy(r)
<1>1. scopes' = scopes => Settles BY DEF Settles
<1>2. ASSUME NEW r \in Requests, CallStep(r) PROVE Settles \/ MovedBy(r)
  <2>1. CASE Discover(r)
    <3>1. req[r] # Idle BY <2>1 DEF Discover, Idle
    <3>2. CASE mode.kubernetes /\ cache = {} BY <1>1, <2>1, <3>2 DEF Discover, KeepBindings
    <3>3. CASE ~(mode.kubernetes /\ cache = {})
      <4>1. PICK pool \in SUBSET Nodes : Route(r, pool)
        BY <2>1, <3>3 DEF Discover, RouteInv, NodesInv
      <4> QED BY <3>1, <4>1, RoutingSettles
    <3> QED BY <3>2, <3>3
  <2>2. CASE Fetch(r)
    <3>1. req[r] # Idle BY <2>2 DEF Fetch, Idle
    <3>2. ready \in SUBSET Nodes BY DEF RouteInv, NodesInv
    <3> QED BY <1>1, <2>2, <3>1, <3>2, RoutingSettles DEF Fetch, KeepBindings
  <2>3. CASE Probe(r) BY <2>3, ProbingMoves
  <2>4. CASE Ask(r) \/ Told(r) \/ Refused(r) \/ Sent(r)
    BY <1>1, <2>4 DEF Ask, Told, Refused, Sent
  <2> QED BY <1>2, <2>1, <2>2, <2>3, <2>4 DEF CallStep, Routing, Calls
<1>3. ASSUME NEW r \in Requests, HandlerStep(r) PROVE Settles
  BY <1>1, <1>3 DEF HandlerStep, Begin, Prepared, Opens, Submits, Submitted, Reads, Streams, StreamEnds,
                    Disconnect, RestOfRoutes, routeVars
<1>4. CASE Environment BY <1>1, <1>4 DEF Environment, CacheExpires, NodesChange, Forget
<1>5. CASE UNCHANGED vars BY <1>1, <1>5 DEF vars, routeVars
<1> QED BY <1>2, <1>3, <1>4, <1>5 DEF Next

(* An owner is moved only with rebinding, and only from a node that the    *)
(* moving request did not discover: of two requests that miss the old node *)
(* the second finds the binding changed (rebind_scope_if_matches compares  *)
(* it under the lock of the store).                                        *)
THEOREM OwnersMoveFromMissing == Spec => MovesOnlyFromMissing
<1> DEFINE Move == \A o \in Scopes : scopes[o] # None /\ scopes'[o] # scopes[o] =>
               /\ mode.rebinding
               /\ \E r \in Requests : req[r].phase = "probe" /\ req'[r].phase = "routed"
                                      /\ req[r].scope = o /\ scopes[o] \notin req[r].pool
<1>1. RouteInv /\ CallsInv /\ [Next]_vars => [Move]_routeVars
  BY BindingsSettleOrMove DEF Settles, MovedBy
<1> QED BY <1>1, RoutesAgree, CallsCount, PTL DEF Spec, MovesOnlyFromMissing

-----------------------------------------------------------------------------
(***************************************************************************)
(* The limiter of agent turns and the claims of sessions, for any number   *)
(* of concurrent handlers and any limit: no permit, no place in the queue  *)
(* and no claim is lost or made, whichever way a turn ends.                *)
(*                                                                         *)
(* Nothing bounds the handlers, so that the sets that are counted are      *)
(* shown to be finite along the way: one handler moves at a time.          *)
(***************************************************************************)

(* The counts, for any places of the turns. *)
Busy == {"queued", "granted", "in"}

Those(s, p) == {t \in Turns : s[t] = p}

Count(s, p) == Cardinality(Those(s, p))

Finite(s) == \A p \in Busy : IsFiniteSet(Those(s, p)) /\ Count(s, p) \in Nat

(* One turn goes from its place to another. *)
Moved(s, z, t, p) ==
    /\ z \in [Turns -> Places] /\ Finite(z)
    /\ \A q \in Busy : Count(s, q) \in Nat /\ Count(z, q) \in Nat
    /\ \A q \in Busy : Count(z, q) =
           Count(s, q) - (IF s[t] = q THEN 1 ELSE 0) + (IF p = q THEN 1 ELSE 0)

LEMMA MoveCounts ==
    ASSUME NEW s \in [Turns -> Places], Finite(s), NEW t \in Turns, NEW p \in Places, s[t] # p,
           NEW z, z = [s EXCEPT ![t] = p]
    PROVE  Moved(s, z, t, p)
<1>1. z \in [Turns -> Places] OBVIOUS
<1>2. ASSUME NEW q \in Busy
      PROVE  /\ IsFiniteSet(Those(z, q)) /\ Count(z, q) \in Nat
             /\ Count(z, q) =
                    Count(s, q) - (IF s[t] = q THEN 1 ELSE 0) + (IF p = q THEN 1 ELSE 0)
  <2>0. IsFiniteSet(Those(s, q)) /\ Count(s, q) \in Nat BY DEF Finite
  <2>1. CASE p = q
    <3>1. Those(z, q) = Those(s, q) \cup {t} BY <2>1 DEF Those
    <3>2. t \notin Those(s, q) BY <2>1 DEF Those
    <3>3. /\ IsFiniteSet(Those(s, q) \cup {t})
          /\ Cardinality(Those(s, q) \cup {t}) = Cardinality(Those(s, q)) + 1
      BY <2>0, <3>2, FS_AddElement
    <3>4. IsFiniteSet(Those(z, q)) /\ Count(z, q) = Count(s, q) + 1 BY <3>1, <3>3 DEF Count
    <3> QED BY <2>0, <2>1, <3>4
  <2>2. CASE s[t] = q
    <3>1. Those(z, q) = Those(s, q) \ {t} BY <2>2 DEF Those
    <3>2. t \in Those(s, q) BY <2>2 DEF Those
    <3>3. /\ IsFiniteSet(Those(s, q) \ {t})
          /\ Cardinality(Those(s, q) \ {t}) = Cardinality(Those(s, q)) - 1
      BY <2>0, <3>2, FS_RemoveElement
    <3>4. IsFiniteSet(Those(z, q)) /\ Count(z, q) = Count(s, q) - 1 BY <3>1, <3>3 DEF Count
    <3>5. Count(z, q) \in Nat BY <3>4, FS_CardinalityType DEF Count
    <3> QED BY <2>0, <2>2, <3>4, <3>5
  <2>3. CASE p # q /\ s[t] # q
    <3>1. Those(z, q) = Those(s, q) BY <2>3 DEF Those
    <3> QED BY <2>0, <2>3, <3>1 DEF Count
  <2> QED BY <2>1, <2>2, <2>3
<1>3. \A q \in Busy : Count(s, q) \in Nat BY DEF Finite
<1> QED BY <1>1, <1>2, <1>3 DEF Finite, Moved

-----------------------------------------------------------------------------
(* The queue. *)
Queues(q, s) ==
    /\ q \in Seq(Turns)
    /\ \A i, j \in 1..Len(q) : q[i] = q[j] => i = j
    /\ \A t \in Turns : s[t] = "queued" <=> \E i \in 1..Len(q) : q[i] = t

SlotInv ==
    /\ slot \in [Turns -> Places] /\ Finite(slot)
    /\ Queues(queue, slot)
    /\ free \in Int /\ active \in Int /\ waiting \in Int
    /\ active = Count(slot, "in")
    /\ waiting = Count(slot, "queued") + Count(slot, "granted")
    /\ free + Count(slot, "in") + Count(slot, "granted") = Limit

LEMMA SlotsCounted == SlotInv => SlotsAccounted
<1> SUFFICES ASSUME SlotInv PROVE SlotsAccounted OBVIOUS
<1>1. /\ At("in") = Those(slot, "in") /\ At("queued") = Those(slot, "queued")
      /\ At("granted") = Those(slot, "granted")
  BY DEF At, Those
<1>2. /\ IsFiniteSet(At("in")) /\ IsFiniteSet(At("queued")) /\ IsFiniteSet(At("granted"))
      /\ Count(slot, "in") \in Nat /\ Count(slot, "queued") \in Nat /\ Count(slot, "granted") \in Nat
  BY <1>1 DEF SlotInv, Finite, Busy
<1>3. At("queued") \cap At("granted") = {} /\ At("in") \cap At("granted") = {} BY DEF At
<1>4. Cardinality(At("queued") \cup At("granted")) = waiting
  <2>1. Cardinality(At("queued") \cup At("granted")) =
            Cardinality(At("queued")) + Cardinality(At("granted")) - Cardinality({})
    BY <1>2, <1>3, FS_Union
  <2>2. Cardinality({}) = 0 BY FS_EmptySet
  <2> QED BY <1>1, <1>2, <2>1, <2>2 DEF SlotInv, Count
<1>5. Cardinality(At("in") \cup At("granted")) = Count(slot, "in") + Count(slot, "granted")
  <2>1. Cardinality(At("in") \cup At("granted")) =
            Cardinality(At("in")) + Cardinality(At("granted")) - Cardinality({})
    BY <1>2, <1>3, FS_Union
  <2>2. Cardinality({}) = 0 BY FS_EmptySet
  <2> QED BY <1>1, <1>2, <2>1, <2>2 DEF Count
<1>6. ToSet(queue) = At("queued") /\ IsInjective(queue)
  <2>1. DOMAIN queue = 1..Len(queue) /\ \A i \in 1..Len(queue) : queue[i] \in Turns
    BY DEF SlotInv, Queues
  <2>2. IsInjective(queue) BY <2>1 DEF SlotInv, Queues, IsInjective
  <2>3. \A t \in Turns : t \in ToSet(queue) <=> t \in At("queued")
    BY <2>1 DEF SlotInv, Queues, ToSet, At
  <2>4. ToSet(queue) \subseteq Turns /\ At("queued") \subseteq Turns BY <2>1 DEF ToSet, At
  <2> QED BY <2>2, <2>3, <2>4
<1>7. active = Cardinality(At("in")) BY <1>1 DEF SlotInv, Count
<1>8. free + Cardinality(At("in") \cup At("granted")) = Limit
  BY <1>2, <1>5, AgentCapacityAssumption DEF SlotInv
<1> QED BY <1>4, <1>6, <1>7, <1>8 DEF SlotsAccounted
-----------------------------------------------------------------------------
(* The operations on the queue. *)
LEMMA QueueAppend ==
    ASSUME NEW q, NEW s \in [Turns -> Places], Queues(q, s), NEW t \in Turns, s[t] # "queued"
    PROVE  Queues(Append(q, t), [s EXCEPT ![t] = "queued"])
<1> DEFINE z == [s EXCEPT ![t] = "queued"]
           p == Append(q, t)
<1>1. q \in Seq(Turns) /\ Len(q) \in Nat BY DEF Queues
<1>2. /\ p \in Seq(Turns) /\ Len(p) = Len(q) + 1 /\ p[Len(q) + 1] = t
      /\ \A i \in 1..Len(q) : p[i] = q[i] /\ q[i] \in Turns
  BY <1>1
<1> HIDE DEF p
<1>3. \A i \in 1..Len(q) : q[i] # t BY DEF Queues
<1>4. \A i, j \in 1..Len(p) : p[i] = p[j] => i = j BY <1>1, <1>2, <1>3 DEF Queues
<1>5. ASSUME NEW u \in Turns PROVE z[u] = "queued" <=> \E i \in 1..Len(p) : p[i] = u
  <2>1. CASE u = t BY <1>1, <1>2, <2>1
  <2>2. CASE u # t
    <3>1. z[u] = s[u] BY <2>2
    <3>2. (\E i \in 1..Len(p) : p[i] = u) <=> \E i \in 1..Len(q) : q[i] = u
      BY <1>1, <1>2, <2>2
    <3> QED BY <3>1, <3>2 DEF Queues
  <2> QED BY <2>1, <2>2
<1> QED BY <1>2, <1>4, <1>5 DEF Queues, p

LEMMA QueueRemove ==
    ASSUME NEW q, NEW s \in [Turns -> Places], Queues(q, s), NEW i \in 1..Len(q),
           NEW p \in Places \ {"queued"}
    PROVE  Queues(RemoveAt(q, i), [s EXCEPT ![q[i]] = p])
<1> DEFINE z == [s EXCEPT ![q[i]] = p]
           r == RemoveAt(q, i)
           f(j) == IF j < i THEN j ELSE j + 1
<1>1. q \in Seq(Turns) /\ Len(q) \in Nat /\ q[i] \in Turns BY DEF Queues
<1>2. r \in Seq(Turns) /\ Len(r) = Len(q) - 1 /\ \A j \in 1..Len(r) : r[j] = q[f(j)]
  <2> DEFINE a == SubSeq(q, 1, i - 1)
             b == SubSeq(q, i + 1, Len(q))
  <2>1. a \in Seq(Turns) /\ Len(a) = i - 1 /\ \A j \in 1..(i - 1) : a[j] = q[j]
    BY <1>1, SubSeqProperties
  <2>2. b \in Seq(Turns) /\ Len(b) = Len(q) - i /\ \A j \in 1..(Len(q) - i) : b[j] = q[j + i]
    BY <1>1, SubSeqProperties
  <2>3. r = a \o b BY DEF RemoveAt
  <2> HIDE DEF a, b, r
  <2>4. r \in Seq(Turns) /\ Len(r) = Len(a) + Len(b)
        /\ \A j \in 1..Len(a) + Len(b) : r[j] = IF j <= Len(a) THEN a[j] ELSE b[j - Len(a)]
    <3>1. a \in Seq(Turns) /\ b \in Seq(Turns) BY <2>1, <2>2, Zenon
    <3> QED BY <3>1, <2>3, ConcatProperties, Zenon
  <2>5. ASSUME NEW j \in 1..Len(r) PROVE r[j] = q[f(j)]
    <3>l. Len(a) = i - 1 /\ Len(b) = Len(q) - i /\ Len(r) = Len(a) + Len(b)
      BY <2>1, <2>2, <2>4, Zenon
    <3>0. i \in Nat /\ j \in Nat /\ j <= Len(q) - 1 BY <1>1, <3>l
    <3>1. CASE j < i
      <4>1. j \in 1..(i - 1) /\ j <= Len(a) BY <2>1, <3>0, <3>1
      <4>2. r[j] = a[j] BY <2>4, <4>1
      <4> QED BY <2>1, <3>1, <4>1, <4>2
    <3>2. CASE j >= i
      <4>1. j - (i - 1) \in 1..(Len(q) - i) BY <1>1, <2>1, <2>2, <2>4, <3>2
      <4>2. r[j] = b[j - (i - 1)] BY <1>1, <2>1, <2>2, <2>4, <3>2
      <4>3. b[j - (i - 1)] = q[(j - (i - 1)) + i] /\ (j - (i - 1)) + i = j + 1 /\ ~(j < i)
        BY <2>2, <3>0, <3>2, <4>1
      <4> QED BY <4>2, <4>3
    <3> QED BY <3>0, <3>1, <3>2
  <2> QED BY <1>1, <2>1, <2>2, <2>4, <2>5
<1> HIDE DEF r
<1>3. \A j \in 1..Len(r) : f(j) \in 1..Len(q) /\ f(j) # i BY <1>1, <1>2
<1>4. \A j, k \in 1..Len(r) : r[j] = r[k] => j = k
  <2> SUFFICES ASSUME NEW j \in 1..Len(r), NEW k \in 1..Len(r), r[j] = r[k] PROVE j = k OBVIOUS
  <2>1. q[f(j)] = q[f(k)] BY <1>2
  <2>2. f(j) \in 1..Len(q) /\ f(k) \in 1..Len(q) BY <1>3
  <2>3. f(j) = f(k) BY <2>1, <2>2 DEF Queues
  <2> QED BY <1>1, <1>2, <2>3
<1>5. ASSUME NEW u \in Turns PROVE z[u] = "queued" <=> \E j \in 1..Len(r) : r[j] = u
  <2>1. CASE u = q[i]
    <3>1. z[u] # "queued" BY <1>1, <2>1
    <3>2. \A j \in 1..Len(r) : r[j] # u BY <1>2, <1>3, <2>1 DEF Queues
    <3> QED BY <3>1, <3>2
  <2>2. CASE u # q[i]
    <3>1. z[u] = s[u] BY <2>2
    <3>2. ASSUME NEW k \in 1..Len(q), q[k] = u PROVE \E j \in 1..Len(r) : r[j] = u
      <4>1. CASE k < i BY <1>1, <1>2, <3>2, <4>1
      <4>2. CASE k > i
        <5>1. k - 1 \in 1..Len(r) /\ f(k - 1) = k BY <1>1, <1>2, <4>2
        <5> QED BY <1>2, <3>2, <5>1
      <4> QED BY <2>2, <3>2, <4>1, <4>2
    <3>3. \A j \in 1..Len(r) : r[j] = u => \E k \in 1..Len(q) : q[k] = u BY <1>2, <1>3
    <3> QED BY <3>1, <3>2, <3>3 DEF Queues
  <2> QED BY <2>1, <2>2
<1> QED BY <1>2, <1>4, <1>5 DEF Queues, r
-----------------------------------------------------------------------------
(* The operations of the limiter. *)

LEMMA EnterKeeps ==
    ASSUME SlotInv, NEW t \in Turns, Enter(t)
    PROVE  SlotInv'
<1> USE DEF SlotInv
<1>0. slot[t] = "out" BY DEF Enter
<1>1. CASE slot' = [slot EXCEPT ![t] = "in"] /\ free' = free - 1 /\ active' = active + 1
           /\ UNCHANGED <<queue, waiting>>
  <2>1. /\ slot' \in [Turns -> Places] /\ Finite(slot')
        /\ Count(slot', "in") = Count(slot, "in") + 1
        /\ Count(slot', "queued") = Count(slot, "queued")
        /\ Count(slot', "granted") = Count(slot, "granted")
    <3>1. "in" \in Places BY DEF Places
    <3>2. Moved(slot, slot', t, "in") BY <1>0, <1>1, <3>1, MoveCounts
    <3> QED BY <1>0, <3>2 DEF Moved, Busy
  <2>2. Queues(queue', slot') BY <1>0, <1>1 DEF Queues
  <2> QED BY <1>1, <2>1, <2>2 DEF Busy, Finite
<1>2. CASE slot' = [slot EXCEPT ![t] = "queued"] /\ queue' = Append(queue, t)
           /\ waiting' = waiting + 1 /\ UNCHANGED <<free, active>>
  <2>1. /\ slot' \in [Turns -> Places] /\ Finite(slot')
        /\ Count(slot', "queued") = Count(slot, "queued") + 1
        /\ Count(slot', "in") = Count(slot, "in")
        /\ Count(slot', "granted") = Count(slot, "granted")
    <3>1. "queued" \in Places BY DEF Places
    <3>2. Moved(slot, slot', t, "queued") BY <1>0, <1>2, <3>1, MoveCounts
    <3> QED BY <1>0, <3>2 DEF Moved, Busy
  <2>2. Queues(queue', slot') BY <1>0, <1>2, QueueAppend
  <2>3. Count(slot, "in") \in Nat /\ Count(slot, "queued") \in Nat /\ Count(slot, "granted") \in Nat
    BY DEF Busy, Finite
  <2>4. waiting' = Count(slot', "queued") + Count(slot', "granted") BY <1>2, <2>1, <2>3
  <2>5. free' + Count(slot', "in") + Count(slot', "granted") = Limit BY <1>2, <2>1, <2>3
  <2> QED BY <1>2, <2>1, <2>2, <2>4, <2>5
<1> QED BY <1>1, <1>2 DEF Enter

LEMMA ResumeKeeps ==
    ASSUME SlotInv, NEW t \in Turns, Resume(t)
    PROVE  SlotInv'
<1> USE DEF SlotInv
<1>0. slot[t] = "granted" /\ slot' = [slot EXCEPT ![t] = "in"] BY DEF Resume
<1>1. /\ slot' \in [Turns -> Places] /\ Finite(slot')
      /\ Count(slot', "in") = Count(slot, "in") + 1
      /\ Count(slot', "granted") = Count(slot, "granted") - 1
      /\ Count(slot', "queued") = Count(slot, "queued")
  <2>1. "in" \in Places BY DEF Places
  <2>2. Moved(slot, slot', t, "in") BY <1>0, <2>1, MoveCounts
  <2> QED BY <1>0, <2>2 DEF Moved, Busy
<1>2. Queues(queue', slot') BY <1>0 DEF Resume, Queues
<1> QED BY <1>1, <1>2 DEF Resume, Busy, Finite

(* A turn that held a permit gives it back or hands it on. *)
LEMMA HandOnKeeps ==
    ASSUME SlotInv, NEW t \in Turns, slot[t] \in {"granted", "in"},
           HandOn([slot EXCEPT ![t] = "out"], queue),
           active' = active - (IF slot[t] = "in" THEN 1 ELSE 0),
           waiting' = waiting - (IF slot[t] = "granted" THEN 1 ELSE 0)
    PROVE  SlotInv'
<1> USE DEF SlotInv
<1> DEFINE s == [slot EXCEPT ![t] = "out"]
<1>0. Count(slot, "in") \in Nat /\ Count(slot, "queued") \in Nat /\ Count(slot, "granted") \in Nat
  BY DEF Finite, Busy
<1>1. /\ s \in [Turns -> Places] /\ Finite(s)
      /\ Count(s, "in") = Count(slot, "in") - (IF slot[t] = "in" THEN 1 ELSE 0)
      /\ Count(s, "granted") = Count(slot, "granted") - (IF slot[t] = "granted" THEN 1 ELSE 0)
      /\ Count(s, "queued") = Count(slot, "queued")
  <2>1. "out" \in Places BY DEF Places
  <2>2. Moved(slot, s, t, "out") BY <2>1, MoveCounts
  <2> QED BY <1>0, <2>2 DEF Moved, Busy
<1>2. Queues(queue, s) BY DEF Queues
<1>3. CASE queue = <<>> /\ slot' = s /\ queue' = queue /\ free' = free + 1
  <2>1. Queues(queue', slot') BY <1>2, <1>3
  <2>2. active' = Count(slot', "in") /\ waiting' = Count(slot', "queued") + Count(slot', "granted")
    BY <1>0, <1>1, <1>3
  <2> HIDE DEF s
  <2>3. free + 1 + Count(s, "in") + Count(s, "granted") = Limit BY <1>0, <1>1
  <2>4. free' + Count(slot', "in") + Count(slot', "granted") = Limit BY <1>3, <2>3
  <2> QED BY <1>1, <1>3, <2>1, <2>2, <2>4
<1>4. CASE queue # <<>> /\ slot' = [s EXCEPT ![Head(queue)] = "granted"]
           /\ queue' = Tail(queue) /\ free' = free
  <2> HIDE DEF s
  <2>1. queue \in Seq(Turns) /\ Len(queue) \in Nat /\ 1 \in 1..Len(queue) /\ Head(queue) = queue[1]
    BY <1>4 DEF Queues
  <2>2. queue[1] \in Turns /\ s[queue[1]] = "queued" BY <1>2, <2>1 DEF Queues
  <2>3. RemoveAt(queue, 1) = Tail(queue)
    <3>1. Tail(queue) = SubSeq(queue, 2, Len(queue)) BY <1>4, <2>1, TailIsSubSeq
    <3>2. SubSeq(queue, 1, 0) = <<>> BY SubSeqEmpty
    <3>3. SubSeq(queue, 2, Len(queue)) \in Seq(Turns)
      <4>1. Tail(queue) \in Seq(Turns) BY <1>4, <2>1, HeadTailProperties
      <4> QED BY <3>1, <4>1
    <3>4. RemoveAt(queue, 1) = SubSeq(queue, 1, 0) \o SubSeq(queue, 2, Len(queue)) BY DEF RemoveAt
    <3> QED BY <3>1, <3>2, <3>3, <3>4, ConcatEmptySeq
  <2>4. "granted" \in Places \ {"queued"} BY DEF Places
  <2>5. slot' = [s EXCEPT ![queue[1]] = "granted"] BY <1>4, <2>1
  <2>6. Queues(queue', slot')
    <3>1. Queues(RemoveAt(queue, 1), [s EXCEPT ![queue[1]] = "granted"])
      BY <1>1, <1>2, <2>1, <2>4, QueueRemove
    <3> QED BY <1>4, <2>3, <2>5, <3>1
  <2>7. /\ slot' \in [Turns -> Places] /\ Finite(slot')
        /\ Count(slot', "in") = Count(s, "in")
        /\ Count(slot', "granted") = Count(s, "granted") + 1
        /\ Count(slot', "queued") = Count(s, "queued") - 1
    <3>1. Moved(s, slot', queue[1], "granted") BY <1>1, <2>2, <2>4, <2>5, MoveCounts
    <3> QED BY <2>2, <3>1 DEF Moved, Busy
  <2>8. active' = Count(slot', "in") /\ waiting' = Count(slot', "queued") + Count(slot', "granted")
    BY <1>0, <1>1, <2>7
  <2>9. free' + Count(slot', "in") + Count(slot', "granted") = Limit
    <3>1. free \in Int /\ free + Count(slot, "in") + Count(slot, "granted") = Limit OBVIOUS
    <3> HIDE DEF SlotInv
    <3>2. Count(s, "in") \in Int /\ Count(s, "granted") \in Int BY <1>0, <1>1
    <3>3. free + Count(s, "in") + Count(s, "granted") + 1 = Limit BY <1>0, <1>1, <3>1
    <3> QED BY <1>4, <2>7, <3>1, <3>2, <3>3
  <2> QED BY <1>4, <2>6, <2>7, <2>8, <2>9
<1> QED BY <1>3, <1>4 DEF HandOn

LEMMA LeaveKeeps ==
    ASSUME SlotInv, NEW t \in Turns, Leave(t)
    PROVE  SlotInv'
<1>1. active' = active - (IF slot[t] = "in" THEN 1 ELSE 0) BY DEF Leave
<1>2. waiting' = waiting - (IF slot[t] = "granted" THEN 1 ELSE 0) BY DEF Leave, SlotInv
<1> QED BY <1>1, <1>2, HandOnKeeps DEF Leave

LEMMA CancelWaitKeeps ==
    ASSUME SlotInv, NEW t \in Turns, CancelWait(t)
    PROVE  SlotInv'
<1> USE DEF SlotInv
<1>1. CASE slot[t] = "granted"
  <2>1. active' = active - (IF slot[t] = "in" THEN 1 ELSE 0) BY <1>1 DEF CancelWait
  <2>2. waiting' = waiting - (IF slot[t] = "granted" THEN 1 ELSE 0) BY <1>1 DEF CancelWait
  <2> QED BY <1>1, <2>1, <2>2, HandOnKeeps DEF CancelWait
<1>2. CASE slot[t] = "queued"
  <2>1. PICK i \in DOMAIN queue : queue[i] = t /\ queue' = RemoveAt(queue, i)
    BY <1>2 DEF CancelWait
  <2>2. i \in 1..Len(queue) BY <2>1 DEF Queues
  <2>3. slot' = [slot EXCEPT ![t] = "out"] /\ "out" \in Places \ {"queued"}
    BY <1>2 DEF CancelWait, Places
  <2>4. Queues(queue', slot') BY <2>1, <2>2, <2>3, QueueRemove
  <2>5. \A q \in Busy : Count(slot, q) \in Nat BY DEF Finite
  <2>6. /\ slot' \in [Turns -> Places] /\ Finite(slot')
        /\ Count(slot', "in") = Count(slot, "in")
        /\ Count(slot', "granted") = Count(slot, "granted")
        /\ Count(slot', "queued") = Count(slot, "queued") - 1
    <3>1. Moved(slot, slot', t, "out") BY <1>2, <2>3, MoveCounts
    <3> QED BY <1>2, <3>1 DEF Moved, Busy
  <2>7. free' = free /\ active' = active /\ waiting' = waiting - 1 BY <1>2 DEF CancelWait
  <2> QED BY <2>4, <2>5, <2>6, <2>7 DEF Busy
<1> QED BY <1>1, <1>2 DEF CancelWait
-----------------------------------------------------------------------------
(* The handlers. *)

Working(r) == turn[r] # NoTurn

ClaimInv ==
    /\ turn \in [Requests -> Turn \cup {NoTurn}]
    /\ \A s : s \in chatting <=> \E r \in Requests : Working(r) /\ turn[r].session = s
    /\ \A q, r \in Requests : Working(q) /\ Working(r) /\ turn[q].session = turn[r].session => q = r
    /\ \A r \in Requests : slot[r] # "out" => Working(r) /\ turn[r].stage \in {"wait", "turn"}
    /\ \A r \in Requests : Working(r) /\ turn[r].stage = "turn" => slot[r] = "in"

HandlersInv == SlotInv /\ ClaimInv

LEMMA ClaimsCounted == ClaimInv => ClaimsAccounted
<1> SUFFICES ASSUME ClaimInv PROVE ClaimsAccounted OBVIOUS
<1>1. chatting = {turn[r].session : r \in {q \in Requests : turn[q] # NoTurn}}
  BY DEF ClaimInv, Working
<1> QED BY <1>1 DEF ClaimInv, ClaimsAccounted, Working

(* One slot changes at most. *)
LEMMA SlotsOfOthers ==
    ASSUME SlotInv, NEW t \in Turns, Enter(t) \/ Resume(t) \/ Leave(t) \/ CancelWait(t)
    PROVE  /\ SlotInv'
           /\ Enter(t) => slot[t] = "out" /\ slot'[t] \in {"queued", "in"}
           /\ Resume(t) => slot[t] = "granted" /\ slot'[t] = "in"
           /\ Leave(t) \/ CancelWait(t) => slot'[t] = "out"
           /\ \A u \in Turns \ {t} : (slot'[u] = "out" <=> slot[u] = "out")
                                     /\ (slot[u] = "in" => slot'[u] = "in")
<1>1. SlotInv' BY EnterKeeps, ResumeKeeps, LeaveKeeps, CancelWaitKeeps
<1>2. slot \in [Turns -> Places] /\ Queues(queue, slot) BY DEF SlotInv
<1>3. ASSUME HandOn([slot EXCEPT ![t] = "out"], queue), slot[t] # "queued"
      PROVE  /\ slot'[t] = "out"
             /\ \A u \in Turns \ {t} : (slot'[u] = "out" <=> slot[u] = "out")
                                       /\ (slot[u] = "in" => slot'[u] = "in")
  <2>1. queue # <<>> => slot[Head(queue)] = "queued" /\ Head(queue) \in Turns
    <3>1. queue # <<>> => 1 \in 1..Len(queue) /\ Head(queue) = queue[1] /\ queue[1] \in Turns
      BY <1>2 DEF Queues
    <3> QED BY <1>2, <3>1 DEF Queues
  <2>2. CASE queue = <<>> BY <1>2, <1>3, <2>2 DEF HandOn
  <2>3. CASE queue # <<>>
    <3>1. slot' = [[slot EXCEPT ![t] = "out"] EXCEPT ![Head(queue)] = "granted"]
      BY <1>3, <2>3 DEF HandOn
    <3> QED BY <1>2, <1>3, <2>1, <2>3, <3>1
  <2> QED BY <2>2, <2>3
<1>4. CASE Enter(t) BY <1>1, <1>2, <1>4 DEF Enter, Resume, Leave, CancelWait
<1>5. CASE Resume(t) BY <1>1, <1>2, <1>5 DEF Enter, Resume, Leave, CancelWait
<1>6. CASE Leave(t) BY <1>1, <1>3, <1>6 DEF Enter, Resume, Leave
<1>7. CASE CancelWait(t)
  <2>1. CASE slot[t] = "granted"
    <3>1. HandOn([slot EXCEPT ![t] = "out"], queue) BY <1>7, <2>1 DEF CancelWait
    <3>2. ~Enter(t) BY <2>1 DEF Enter
    <3>3. ~Resume(t) \/ slot'[t] = "in" BY <1>2 DEF Resume
    <3>4. slot'[t] = "out" BY <1>3, <2>1, <3>1
    <3> QED BY <1>1, <1>3, <2>1, <3>1, <3>2, <3>3, <3>4
  <2>2. CASE slot[t] = "queued"
    <3>1. slot' = [slot EXCEPT ![t] = "out"] BY <1>7, <2>2 DEF CancelWait
    <3>2. ~Enter(t) /\ ~Resume(t) BY <2>2 DEF Enter, Resume
    <3> QED BY <1>1, <1>2, <2>2, <3>1, <3>2
  <2> QED BY <1>7, <2>1, <2>2 DEF CancelWait
<1> QED BY <1>4, <1>5, <1>6, <1>7

(* A handler goes on: it keeps its session, and its slot fits its stage.   *)
LEMMA StageKeeps ==
    ASSUME ClaimInv, SlotInv, NEW r \in Requests, Working(r),
           NEW stage \in {"prepare", "route", "wait", "turn", "read"}, Stage(r, stage),
           chatting' = chatting,
           \A u \in Requests \ {r} : (slot'[u] = "out" <=> slot[u] = "out")
                                    /\ (slot[u] = "in" => slot'[u] = "in"),
           slot'[r] # "out" => stage \in {"wait", "turn"},
           stage = "turn" => slot'[r] = "in"
    PROVE  ClaimInv'
<1> DEFINE q == [turn[r] EXCEPT !.stage = stage]
<1>1. turn[r] \in Turn BY DEF ClaimInv, Working
<1>2. q \in Turn /\ q.session = turn[r].session /\ q.stage = stage /\ q # NoTurn
  BY <1>1 DEF Turn, NoTurn
<1>3. turn' = [turn EXCEPT ![r] = q] BY DEF Stage
<1> HIDE DEF q
<1>4. turn' \in [Requests -> Turn \cup {NoTurn}] /\ turn'[r] = q /\ \A u \in Requests \ {r} : turn'[u] = turn[u]
  BY <1>2, <1>3 DEF ClaimInv
<1>5. \A u \in Requests : /\ Working(u)' <=> Working(u)
                          /\ Working(u) => turn'[u].session = turn[u].session
                          /\ u # r => turn'[u] = turn[u]
  BY <1>2, <1>4 DEF Working
<1>6. \A s : s \in chatting' <=> \E u \in Requests : Working(u)' /\ turn'[u].session = s
  BY <1>5 DEF ClaimInv
<1>7. \A u, v \in Requests : Working(u)' /\ Working(v)' /\ turn'[u].session = turn'[v].session => u = v
  BY <1>5 DEF ClaimInv
<1>8. \A u \in Requests : slot'[u] # "out" => Working(u)' /\ turn'[u].stage \in {"wait", "turn"}
  BY <1>2, <1>4, <1>5 DEF ClaimInv
<1>9. \A u \in Requests : Working(u)' /\ turn'[u].stage = "turn" => slot'[u] = "in"
  BY <1>2, <1>4, <1>5 DEF ClaimInv
<1> QED BY <1>4, <1>6, <1>7, <1>8, <1>9 DEF ClaimInv

(* A handler that ends has no slot any more and gives its session back.    *)
LEMMA EndsKeeps ==
    ASSUME ClaimInv, SlotInv, NEW r \in Requests, Working(r), Ends(r),
           \A u \in Requests \ {r} : (slot'[u] = "out" <=> slot[u] = "out")
                                    /\ (slot[u] = "in" => slot'[u] = "in"),
           slot'[r] = "out"
    PROVE  ClaimInv'
<1>1. turn' \in [Requests -> Turn \cup {NoTurn}] /\ turn'[r] = NoTurn
      /\ \A u \in Requests \ {r} : turn'[u] = turn[u]
  BY DEF Ends, ClaimInv
<1>2. chatting' = chatting \ {turn[r].session} BY DEF Ends
<1>3. ~Working(r)' /\ \A u \in Requests \ {r} : Working(u)' <=> Working(u) BY <1>1 DEF Working
<1>4. \A s : s \in chatting' <=> \E u \in Requests : Working(u)' /\ turn'[u].session = s
  BY <1>1, <1>2, <1>3 DEF ClaimInv
<1>5. \A u, v \in Requests : Working(u)' /\ Working(v)' /\ turn'[u].session = turn'[v].session => u = v
  BY <1>1, <1>3 DEF ClaimInv
<1>6. \A u \in Requests : slot'[u] # "out" => Working(u)' /\ turn'[u].stage \in {"wait", "turn"}
  BY <1>1, <1>3 DEF ClaimInv
<1>7. \A u \in Requests : Working(u)' /\ turn'[u].stage = "turn" => slot'[u] = "in"
  BY <1>1, <1>3 DEF ClaimInv
<1> QED BY <1>1, <1>4, <1>5, <1>6, <1>7 DEF ClaimInv
LEMMA HandlerKeepsClaims ==
    ASSUME HandlersInv, NEW r \in Requests, HandlerStep(r)
    PROVE  HandlersInv'
<1> USE DEF HandlersInv
<1>0. r \in Turns /\ Turns = Requests /\ slot \in [Requests -> Places]
  BY TurnsAssumption DEF SlotInv
<1>1. ASSUME UNCHANGED capacityVars
      PROVE  /\ SlotInv' /\ slot' = slot
             /\ \A u \in Requests \ {r} : (slot'[u] = "out" <=> slot[u] = "out")
                                         /\ (slot[u] = "in" => slot'[u] = "in")
  BY <1>1 DEF capacityVars, SlotInv
<1>2. ASSUME NEW kind, NEW stage, StageIs(r, kind, stage)
      PROVE  Working(r) /\ turn[r].stage = stage /\ (slot[r] # "out" => stage \in {"wait", "turn"})
             /\ (stage = "turn" => slot[r] = "in")
  BY <1>2 DEF StageIs, Working, ClaimInv
<1>4. CASE Begin(r)
  <2>1. PICK k \in {"chat", "stream"}, s \in Sessions :
            /\ Claimable(s)
            /\ turn' = [turn EXCEPT ![r] = [kind |-> k, session |-> s, stage |-> "prepare"]]
            /\ chatting' = chatting \cup {s}
    BY <1>4 DEF Begin
  <2>2. UNCHANGED capacityVars /\ ~Working(r) BY <1>4 DEF Begin, Working
  <2>3. slot' = slot /\ SlotInv' BY <1>1, <2>2
  <2> DEFINE q == [kind |-> k, session |-> s, stage |-> "prepare"]
  <2>4. q \in Turn /\ q # NoTurn /\ q.session = s /\ q.stage = "prepare" BY DEF Turn, NoTurn
  <2> HIDE DEF q
  <2>5. turn' = [turn EXCEPT ![r] = q] BY <2>1 DEF q
  <2>6. /\ turn' \in [Requests -> Turn \cup {NoTurn}] /\ turn'[r] = q
        /\ \A u \in Requests \ {r} : turn'[u] = turn[u]
    BY <2>4, <2>5 DEF ClaimInv
  <2>7. Working(r)' /\ \A u \in Requests \ {r} : Working(u)' <=> Working(u) BY <2>4, <2>6 DEF Working
  <2>8. \A u \in Requests : Working(u) => turn[u].session # s BY <2>1 DEF Claimable, ClaimInv
  <2>9. \A c : c \in chatting' <=> \E u \in Requests : Working(u)' /\ turn'[u].session = c
    BY <2>1, <2>2, <2>4, <2>6, <2>7 DEF ClaimInv
  <2>10. \A u, v \in Requests : Working(u)' /\ Working(v)' /\ turn'[u].session = turn'[v].session => u = v
    BY <2>4, <2>6, <2>7, <2>8 DEF ClaimInv
  <2>11. \A u \in Requests : slot'[u] # "out" => Working(u)' /\ turn'[u].stage \in {"wait", "turn"}
    BY <2>2, <2>3, <2>6, <2>7 DEF ClaimInv
  <2>12. \A u \in Requests : Working(u)' /\ turn'[u].stage = "turn" => slot'[u] = "in"
    BY <2>3, <2>4, <2>6, <2>7 DEF ClaimInv
  <2> QED BY <2>3, <2>6, <2>9, <2>10, <2>11, <2>12 DEF ClaimInv
<1>5. CASE Prepared(r)
  <2>1. Working(r) /\ slot[r] = "out" BY <1>2, <1>5 DEF Prepared, StageIs, Working, ClaimInv
  <2>2. CASE Stage(r, "wait") /\ Enter(r) /\ UNCHANGED chatting
    <3>1. slot'[r] # "out" /\ SlotInv' /\ \A u \in Requests \ {r} : (slot'[u] = "out" <=> slot[u] = "out")
                                                            /\ (slot[u] = "in" => slot'[u] = "in")
      BY <1>0, <2>2, SlotsOfOthers
    <3> QED BY <2>1, <2>2, <3>1, StageKeeps
  <2>3. CASE Stage(r, "route") /\ UNCHANGED capacityVars /\ UNCHANGED chatting
    BY <1>1, <2>1, <2>3, StageKeeps
  <2>4. CASE Ends(r) /\ UNCHANGED capacityVars BY <1>1, <2>1, <2>4, EndsKeeps
  <2> QED BY <1>5, <2>2, <2>3, <2>4 DEF Prepared
<1>6. CASE Opens(r)
  <2>1. Working(r) /\ slot[r] = "out" BY <1>2, <1>6 DEF Opens
  <2>2. CASE Stage(r, "wait") /\ Enter(r) /\ UNCHANGED chatting
    <3>1. SlotInv' /\ \A u \in Requests \ {r} : (slot'[u] = "out" <=> slot[u] = "out")
                                         /\ (slot[u] = "in" => slot'[u] = "in")
      BY <1>0, <2>2, SlotsOfOthers
    <3> QED BY <2>1, <2>2, <3>1, StageKeeps
  <2>3. CASE Ends(r) /\ UNCHANGED capacityVars BY <1>1, <2>1, <2>3, EndsKeeps
  <2> QED BY <1>6, <2>2, <2>3 DEF Opens
<1>7. CASE Submits(r) \/ Streams(r)
  <2>1. Working(r) /\ slot[r] = "in" /\ Stage(r, "turn") BY <1>2, <1>7 DEF Submits, Streams
  <2>2. UNCHANGED capacityVars /\ UNCHANGED chatting BY <1>7 DEF Submits, Streams
  <2> QED BY <1>1, <2>1, <2>2, StageKeeps
<1>8. CASE Submitted(r)
  <2>1. Working(r) /\ Leave(r) BY <1>2, <1>8 DEF Submitted
  <2>2. slot'[r] = "out" /\ SlotInv' /\ \A u \in Requests \ {r} : (slot'[u] = "out" <=> slot[u] = "out")
                                                          /\ (slot[u] = "in" => slot'[u] = "in")
    BY <1>0, <2>1, SlotsOfOthers
  <2>3. CASE Ends(r) BY <2>1, <2>2, <2>3, EndsKeeps
  <2>4. CASE Stage(r, "read") /\ UNCHANGED chatting BY <2>1, <2>2, <2>4, StageKeeps
  <2> QED BY <1>8, <2>3, <2>4 DEF Submitted
<1>9. CASE Reads(r)
  <2>1. Working(r) /\ slot[r] = "out" BY <1>2, <1>9 DEF Reads
  <2> QED BY <1>1, <1>9, <2>1, EndsKeeps DEF Reads
<1>10. CASE StreamEnds(r) \/ Disconnect(r)
  <2>1. Working(r) /\ (Leave(r) \/ CancelWait(r)) /\ Ends(r)
    BY <1>2, <1>10 DEF StreamEnds, Disconnect
  <2>2. slot'[r] = "out" /\ SlotInv' /\ \A u \in Requests \ {r} : (slot'[u] = "out" <=> slot[u] = "out")
                                                          /\ (slot[u] = "in" => slot'[u] = "in")
    BY <1>0, <2>1, SlotsOfOthers
  <2> QED BY <2>1, <2>2, EndsKeeps
<1>11. CASE Resume(r) /\ UNCHANGED <<routeVars, turn, chatting>>
  <2>1. slot[r] = "granted" /\ slot'[r] = "in" /\ SlotInv'
        /\ \A u \in Requests \ {r} : (slot'[u] = "out" <=> slot[u] = "out")
                                   /\ (slot[u] = "in" => slot'[u] = "in")
    BY <1>0, <1>11, SlotsOfOthers
  <2>2. \A u \in Requests : Working(u)' <=> Working(u) BY <1>11 DEF Working
  <2> QED BY <1>11, <2>1, <2>2 DEF ClaimInv
<1> QED BY <1>4, <1>5, <1>6, <1>7, <1>8, <1>9, <1>10, <1>11 DEF HandlerStep

(* The counters, the queue and the claims agree in every state.            *)
THEOREM ClaimsAgree == Spec => []HandlersInv
<1>1. Init => HandlersInv
  <2> SUFFICES ASSUME Init PROVE HandlersInv OBVIOUS
  <2>0. /\ slot = [t \in Turns |-> "out"] /\ queue = <<>> /\ free = Limit /\ active = 0 /\ waiting = 0
        /\ turn = [r \in Requests |-> NoTurn] /\ chatting = {}
    BY DEF Init, CapacityInit
  <2>1. \A p \in Busy : Those(slot, p) = {} BY <2>0 DEF Those, Busy
  <2>2. \A p \in Busy : IsFiniteSet(Those(slot, p)) /\ Count(slot, p) = 0
    BY <2>1, FS_EmptySet DEF Count
  <2>3. Queues(queue, slot) BY <2>0 DEF Queues
  <2>4. SlotInv BY <2>0, <2>2, <2>3, AgentCapacityAssumption DEF SlotInv, Finite, Places, Busy
  <2>5. ClaimInv BY <2>0, TurnsAssumption DEF ClaimInv, Working
  <2> QED BY <2>4, <2>5 DEF HandlersInv
<1>2. HandlersInv /\ [Next]_vars => HandlersInv'
  <2> SUFFICES ASSUME HandlersInv, [Next]_vars PROVE HandlersInv' OBVIOUS
  <2>1. CASE UNCHANGED <<capacityVars, turn, chatting>>
    <3>1. SlotInv' BY <2>1 DEF HandlersInv, SlotInv, capacityVars
    <3>2. ClaimInv' BY <2>1 DEF HandlersInv, ClaimInv, Working, capacityVars
    <3> QED BY <3>1, <3>2 DEF HandlersInv
  <2>2. CASE Environment BY <2>1, <2>2 DEF Environment
  <2>3. ASSUME NEW r \in Requests, CallStep(r) PROVE HandlersInv' BY <2>1, <2>3 DEF CallStep
  <2>4. CASE UNCHANGED vars BY <2>1, <2>4 DEF vars
  <2> QED BY <2>2, <2>3, <2>4, HandlerKeepsClaims DEF Next
<1> QED BY <1>1, <1>2, PTL DEF Spec

(* No slot and no claim is lost and the health route counts right, for any *)
(* number of handlers that enter, wait, are cancelled, fail and are left   *)
(* by their clients (agent_capacity.py, the finally clauses of             *)
(* session_chat and session_chat_stream).                                  *)
THEOREM NothingIsLeaked == Spec => []NothingLeaks
<1>1. HandlersInv => NothingLeaks BY SlotsCounted, ClaimsCounted DEF HandlersInv, NothingLeaks
<1> QED BY <1>1, ClaimsAgree, PTL

-----------------------------------------------------------------------------
(* The type of the whole state, with requests that count no more attempts  *)
(* and executions than configured (_hermes_json, XPD_HERMES_CONNECT_MAX_   *)
(* ATTEMPTS) and only ever hold or reach configured nodes.                 *)

ReachTypes == fetching \in Requests \cup {None} /\ reached \in [Scopes -> SUBSET Nodes]

LEMMA ReachesNodes ==
    ASSUME RouteInv, CallsInv, ReachTypes, NEW r \in Requests,
           req[r] # Idle, req[r].phase = "routed", Reaches(r)
    PROVE  reached' \in [Scopes -> SUBSET Nodes]
<1>1. req[r].node \in Nodes BY DEF CallsInv, CallInv
<1> QED BY <1>1 DEF Reaches, ReachTypes

LEMMA ReachTypesKeep ==
    ASSUME RouteInv, CallsInv, ReachTypes, [Next]_vars
    PROVE  ReachTypes'
<1>1. ASSUME UNCHANGED <<fetching, reached>> PROVE ReachTypes' BY <1>1 DEF ReachTypes
<1>2. ASSUME NEW r \in Requests, CallStep(r) PROVE ReachTypes'
  <2>1. CASE Ask(r) \/ Told(r) \/ Refused(r) \/ Probe(r) BY <1>1, <2>1 DEF Ask, Told, Refused, Probe
  <2>2. CASE Discover(r) BY <2>2 DEF Discover, ReachTypes
  <2>3. CASE Fetch(r) BY <2>3 DEF Fetch, ReachTypes
  <2>4. CASE Sent(r)
    <3>1. req[r].phase = "routed" /\ Reaches(r) /\ fetching' = fetching BY <2>4 DEF Sent
    <3>2. req[r] # Idle BY <3>1 DEF Idle
    <3> QED BY <3>1, <3>2, ReachesNodes DEF ReachTypes
  <2> QED BY <1>2, <2>1, <2>2, <2>3, <2>4 DEF CallStep, Routing, Calls
<1>3. ASSUME NEW r \in Requests, HandlerStep(r) PROVE ReachTypes'
  <2>1. CASE Streams(r)
    <3>1. req[r] # Idle /\ req[r].phase = "routed" BY <2>1 DEF Streams, RouteInv, RequestsInv
    <3>2. fetching' = fetching /\ (Reaches(r) \/ reached' = reached) BY <2>1 DEF Streams
    <3> QED BY <3>1, <3>2, ReachesNodes DEF ReachTypes
  <2> QED BY <1>1, <1>3, <2>1
          DEF HandlerStep, Begin, Prepared, Opens, Submits, Submitted, Reads, StreamEnds, Disconnect,
              RestOfRoutes, routeVars
<1>4. CASE Environment BY <1>1, <1>4 DEF Environment, CacheExpires, NodesChange, Forget
<1>5. CASE UNCHANGED vars BY <1>1, <1>5 DEF vars, routeVars
<1> QED BY <1>2, <1>3, <1>4, <1>5 DEF Next

(* A request of the invariants is one of the type. *)
LEMMA RequestIsTyped ==
    ASSUME NEW q \in AnyRequest, CallInv(q)
    PROVE  q \in Request
<1>1. q.attempt \in 1..MaxAttempts BY DEF CallInv
<1>2. q.done \in 0..MaxAttempts BY <1>1, HermesRoutesAssumption DEF CallInv, Over, AnyRequest
<1> QED BY <1>1, <1>2 DEF AnyRequest, Request

THEOREM ChatTypes == Spec => []TypeOK
<1>1. Init => ReachTypes BY DEF Init, RouteInit, ReachTypes
<1>2. RouteInv /\ CallsInv /\ ReachTypes /\ [Next]_vars => ReachTypes' BY ReachTypesKeep
<1>3. RouteInv /\ CallsInv /\ ReachTypes /\ HandlersInv => TypeOK
  <2> SUFFICES ASSUME RouteInv, CallsInv, ReachTypes, HandlersInv PROVE TypeOK OBVIOUS
  <2>1. \A r \in Requests : req[r] # Idle => req[r] \in Request
    BY RequestIsTyped DEF RouteInv, RequestsInv, Sane, CallsInv
  <2>2. req \in [Requests -> Request \cup {Idle}] BY <2>1 DEF RouteInv, RequestsInv
  <2>3. RoutesOK BY <2>2 DEF RoutesOK, RouteInv, NodesInv, BindingsInv, ReachTypes
  <2>4. slot \in [Turns -> Places] BY DEF HandlersInv, SlotInv
  <2>5. chatting \subseteq Sessions
    BY DEF HandlersInv, ClaimInv, Working, RouteInv, TurnsInv, Turn
  <2> QED BY <2>3, <2>4, <2>5 DEF TypeOK, RouteInv, TurnsInv
<1>4. Spec => []ReachTypes BY <1>1, <1>2, RoutesAgree, CallsCount, PTL DEF Spec
<1> QED BY <1>3, <1>4, RoutesAgree, CallsCount, ClaimsAgree, PTL
=============================================================================
