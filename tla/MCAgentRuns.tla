---------------------------- MODULE MCAgentRuns ----------------------------
(***************************************************************************)
(* Instances of AgentRuns for TLC.                                         *)
(***************************************************************************)
EXTENDS AgentRuns

CONSTANTS r1, r2, s1, s2, k1, k2, q1, q2, q3

OneSession  == [r \in Runs |-> s1]
TwoSessions == [r \in Runs |-> IF r = r1 THEN s1 ELSE s2]

(* q2 answers with a key of its own; q3 repeats the answer of q1. *)
SameKey     == [q \in Requests |-> k1]
OwnKeys     == [q \in Requests |-> IF q = q1 THEN k1 ELSE k2]
RepeatedKey == [q \in Requests |-> IF q = q2 THEN k2 ELSE k1]

RunSymmetry == Permutations(Runs)
=============================================================================
