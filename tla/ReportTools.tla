---------------------------- MODULE ReportTools ----------------------------
(***************************************************************************)
(* The tools of an agent in one Hermes process: its thread queries, asks   *)
(* its user and exports, one tool at a time, while other turns do the      *)
(* same, users answer and leave, sessions are deleted and Hermes crashes.  *)
(***************************************************************************)
EXTENDS Clarifications, QueryResults, ReportFiles

CONSTANT Workloads  \* bound: what may happen together, and how often

(* Turns and the calls of their tools, crashes, ticks of the clock, and    *)
(* files kept from before the start.                                       *)
Events == {"turn", "ask", "query", "export", "crash", "tick", "kept"}

ASSUME ReportToolsAssumption == Workloads \subseteq [Events -> Nat]

VARIABLE load  \* how often each has happened

vars == <<clarifyVars, queryVars, fileVars, load>>

Free(t) == agent[t] = "idle" /\ query[t] = NoQuery /\ export[t] = NoExport

Counts(event) ==
    /\ load' = [load EXCEPT ![event] = @ + 1]
    /\ \E most \in Workloads : \A e \in Events : load'[e] <= most[e]

Call(t) ==
    /\ Free(t)
    /\ \/ Counts("ask") /\ Ask(t) /\ UNCHANGED <<queryVars, fileVars>>
       \/ Counts("query") /\ Begins(t) /\ UNCHANGED <<clarifyVars, fileVars>>
       \/ /\ Counts("export")
          /\ Cardinality(Written) + Cardinality({u \in Turns : export[u].step = "write"}) < MaxExports
          /\ \E id \in 1..stored, found \in BOOLEAN :
                /\ Reads(t, id, found)
                /\ export' = [export EXCEPT ![t] = IF found THEN [step |-> "write"] ELSE NoExport]
          /\ UNCHANGED <<clarifyVars, file>>

Works(t) ==
    /\ \/ (Deliver(t) \/ Wakes(t) \/ Settles(t)) /\ UNCHANGED <<queryVars, fileVars>>
       \/ Queries(t) /\ UNCHANGED <<clarifyVars, fileVars>>
       \/ Exports(t) /\ UNCHANGED <<clarifyVars, queryVars>>
    /\ UNCHANGED load

Passes(t) == Later(t) /\ UNCHANGED <<queryVars, fileVars, load>>

Starts(t) == Counts("turn") /\ Opens(t) /\ UNCHANGED <<queryVars, fileVars>>

Users ==
    /\ \/ /\ \E t \in Turns : Closes(t) \/ Answer(t)
          /\ UNCHANGED <<queryVars, fileVars>>
       \/ /\ \/ \E s \in Sessions : DeleteFiles(s)
             \/ \E f \in 1..MaxExports : Ages(f)
          /\ UNCHANGED <<clarifyVars, queryVars>>
    /\ UNCHANGED load

Time == Counts("tick") /\ Tick /\ UNCHANGED <<clarifyVars, fileVars>>

(* The registries are memory of Hermes. *)
Crash ==
    /\ Counts("crash")
    /\ stream' = [t \in Turns |-> IF stream[t] = "open" THEN "closed" ELSE stream[t]]
    /\ agent' = [t \in Turns |-> IF agent[t] = "none" THEN "none" ELSE "lost"]
    /\ question' = [t \in Turns |-> NoQuestion]
    /\ query' = [t \in Turns |-> NoQuery]
    /\ results' = {}
    /\ Cuts
    /\ UNCHANGED <<stored, now>>

Init ==
    /\ ClarifyInit /\ QueryInit
    /\ \E left \in Earlier :
          /\ FileInit(left)
          /\ load = [event \in Events |-> IF event = "kept" THEN Len(left) ELSE 0]
    /\ \E most \in Workloads : load["kept"] <= most["kept"]

Next == Users \/ Time \/ Crash \/ \E t \in Turns : Starts(t) \/ Call(t) \/ Works(t) \/ Passes(t)

Spec == Init /\ [][Next]_vars

(* Threads run, the database and the bucket answer or time out, and so     *)
(* does a question that nobody answers.                                    *)
FairSpec == Spec /\ \A t \in Turns : WF_vars(Works(t) \/ Passes(t))

-----------------------------------------------------------------------------
(* The registries of questions and results, the files and the bounds.      *)
TypeOK ==
    /\ ClarifyOK /\ QueriesOK /\ FilesOK
    /\ load \in [Events -> Nat]

(* The limits of the registry hold at every moment, also when results are  *)
(* stored with stamps out of order, and so do those of the storage.        *)
WithinLimits == QuotasHold /\ FilesWithinLimits

(* Every tool call returns to the agent, whether its user answers, leaves  *)
(* or sends the next turn, and whatever happens to its query and its file. *)
CallsReturn ==
    \A t \in Turns : agent[t] # "none" ~> Free(t) \/ agent[t] \in {"stopped", "lost"}
=============================================================================
