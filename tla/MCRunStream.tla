---------------------------- MODULE MCRunStream ----------------------------
(***************************************************************************)
(* Instances of RunStream for TLC.                                         *)
(***************************************************************************)
EXTENDS RunStream

CONSTANTS r1, r2, c1, c2

AllFollowFirst == [c \in Clients |-> r1]

ClientSymmetry == Permutations(Clients)
=============================================================================
