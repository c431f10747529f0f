------------------------------ MODULE MCRouting ------------------------------
(* Instances of ChatTurns: two sessions of one owner, three nodes or Pods.  *)
EXTENDS ChatTurns, TLC

CONSTANTS n1, n2, n3, o1, s1, s2, r1, r2

OneOwner == [s \in Sessions |-> o1]

Static    == [kubernetes |-> FALSE, rebinding |-> FALSE, floor |-> 0]
Sticky    == [kubernetes |-> TRUE, rebinding |-> FALSE, floor |-> 2]
Shrinking == [kubernetes |-> TRUE, rebinding |-> FALSE, floor |-> 1]
Rebinding == [kubernetes |-> TRUE, rebinding |-> TRUE, floor |-> 0]

CheckedModes == {Static, Sticky, Rebinding}
OneMode == {Shrinking}

(* Handlers, sessions and the nodes other than the leader are alike: the   *)
(* properties are about safety and the hash of the code is any choice.     *)
Alike == Permutations(Requests) \cup Permutations(Sessions) \cup Permutations(Nodes \ {Leader})
=============================================================================
