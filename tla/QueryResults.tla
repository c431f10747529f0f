---------------------------- MODULE QueryResults ----------------------------
(***************************************************************************)
(* Queries and the results they leave for later exports: the retries of a  *)
(* read-only query (db.py), the tool db_execute_sql (tools.py) and the     *)
(* bounded registry of results (query_results.py).  A result is its size,  *)
(* and time is a small clock.                                              *)
(*                                                                         *)
(* An operator marked as a mutant is a faulty form of the definition after *)
(* it; no definition uses it.                                              *)
(***************************************************************************)
EXTENDS ToolTurns, FiniteSetsExt

CONSTANTS ReadAttempts,  \* total attempts of a query
          Sizes,         \* of results
          MaxResults, MaxPerSession, MaxResultBytes, MaxBytes,  \* of the registry
          Ttl,
          MaxTime,       \* bound on the clock
          MaxQueries     \* bound on the results stored

ASSUME QueryResultsAssumption ==
    /\ {ReadAttempts, MaxResults, MaxPerSession, Ttl} \subseteq Nat \ {0}
    /\ {MaxResultBytes, MaxBytes, MaxTime, MaxQueries} \subseteq Nat
    /\ Sizes \subseteq Nat \ {0}

VARIABLES
    query,    \* what the query of each turn is about to do
    results,  \* the registry
    stored,   \* results stored so far
    now       \* the clock

queryVars == <<query, results, stored, now>>

NoQuery == [step |-> "none"]
Run(n)  == [step |-> "run", attempt |-> n]
Hold(at, bytes) == [step |-> "store", made |-> at, size |-> bytes]

Query == {NoQuery} \cup {Run(n) : n \in 1..ReadAttempts}
                   \cup {Hold(at, bytes) : at \in 0..MaxTime, bytes \in Sizes}

Result == [id : 1..MaxQueries, session : Sessions, made : 0..MaxTime, size : Sizes]

-----------------------------------------------------------------------------
(* Every attempt has a connection of its own; only the loss of it is worth *)
(* another.                                                                *)

Begins(t) ==
    /\ query[t] = NoQuery
    /\ stored + Cardinality({u \in Turns : query[u] # NoQuery}) < MaxQueries
    /\ query' = [query EXCEPT ![t] = Run(1)]
    /\ UNCHANGED <<results, stored, now>>

Again(n) == n < ReadAttempts

Loses(t) ==
    /\ query[t].step = "run"
    /\ query' = [query EXCEPT ![t] = IF Again(@.attempt) THEN Run(@.attempt + 1) ELSE NoQuery]
    /\ UNCHANGED <<results, stored, now>>

Errs(t) ==
    /\ query[t].step = "run"
    /\ query' = [query EXCEPT ![t] = NoQuery]
    /\ UNCHANGED <<results, stored, now>>

(* The result is stamped before the lock is taken; one that is too large   *)
(* is not kept.                                                            *)
Returns(t) ==
    /\ query[t].step = "run"
    /\ \E bytes \in Sizes :
          query' = [query EXCEPT ![t] =
              IF bytes > MaxResultBytes \/ bytes > MaxBytes THEN NoQuery ELSE Hold(now, bytes)]
    /\ UNCHANGED <<results, stored, now>>

-----------------------------------------------------------------------------
(* The registry.  Results are ordered by their stamps, and those of one    *)
(* stamp by the order in which they came.                                  *)

Before(q, r) == q.made < r.made \/ (q.made = r.made /\ q.id < r.id)
From(R, r)   == {q \in R : ~Before(q, r)}
Bytes(R)     == MapThenSumSet(LAMBDA r : r.size, R)

(* The n newest of R. *)
Oldest(R, n) == {r \in R : Cardinality({q \in R : Before(q, r)}) < n}(* mutant *)
Newest(R, n) == {r \in R : Cardinality({q \in R : Before(r, q)}) < n}

Fresh(R, at)          == {r \in R : r.made + Ttl > at}
Prune(R, at, reserve) == Newest(Fresh(R, at), MaxResults - reserve)

(* _make_room drops the oldest of the session, then the oldest of all,     *)
(* until the new one fits.                                                 *)
KeepsOneTooMany(R, s, bytes) ==                                  (* mutant *)
    LET own  == {r \in R : r.session = s}
        kept == (R \ own) \cup Newest(own, MaxPerSession)
    IN  {r \in kept : Bytes(From(kept, r)) + bytes <= MaxBytes}

MakeRoom(R, s, bytes) ==
    LET own  == {r \in R : r.session = s}
        kept == (R \ own) \cup Newest(own, MaxPerSession - 1)
    IN  {r \in kept : Bytes(From(kept, r)) + bytes <= MaxBytes}

Stores(t) ==
    /\ query[t].step = "store"
    /\ LET s    == SessionOf[t]
           made == query[t].made
           size == query[t].size
       IN  results' = MakeRoom(Prune(results, made, 1), s, size)
                      \cup {[id |-> stored + 1, session |-> s, made |-> made, size |-> size]}
    /\ stored' = stored + 1
    /\ query' = [query EXCEPT ![t] = NoQuery]
    /\ UNCHANGED now

(* get, the reading end: the registry is pruned and the result found or not.*)
Reads(t, id, found) ==
    /\ results' = Prune(results, now, 0)
    /\ found <=> \E r \in results' : r.id = id /\ r.session = SessionOf[t]
    /\ UNCHANGED <<query, stored, now>>

Tick ==
    /\ now < MaxTime
    /\ now' = now + 1
    /\ UNCHANGED <<query, results, stored>>

QueryInit ==
    /\ query = [t \in Turns |-> NoQuery]
    /\ results = {} /\ stored = 0 /\ now = 0

Queries(t) == Loses(t) \/ Errs(t) \/ Returns(t) \/ Stores(t)

-----------------------------------------------------------------------------
QueriesOK ==
    /\ query \in [Turns -> Query]
    /\ results \subseteq Result
    /\ stored \in 0..MaxQueries /\ now \in 0..MaxTime

(* The limits of the registry hold at every moment, also when results are  *)
(* stored with stamps out of order.                                        *)
QuotasHold ==
    /\ Cardinality(results) <= MaxResults
    /\ \A s \in Sessions : Cardinality({r \in results : r.session = s}) <= MaxPerSession
    /\ Bytes(results) <= MaxBytes

(* A result that leaves the registry before it expires leaves only newer   *)
(* ones of its session behind: what the user saw last can be exported.     *)
OldestLeaveFirst ==
    [][\A r \in results \ results' :
          \/ r.made + Ttl <= now
          \/ results' = {}
          \/ \A k \in results \cap results' : k.session = r.session => Before(r, k)]_queryVars
=============================================================================
