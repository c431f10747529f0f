--------------------------- MODULE MCMemoryJobs ---------------------------
(* Constants of MemoryJobs for TLC. *)
EXTENDS MemoryJobs

CONSTANTS s1, s2, o1

OneOwner == [s \in Sessions |-> o1]
OneTurn  == [s \in Sessions |-> 1]

(* A turn with a tool call: the question, the call, its result, the answer. *)
TwoPairs == [s \in Sessions |-> 2]
===========================================================================
