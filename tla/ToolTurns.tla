----------------------------- MODULE ToolTurns -----------------------------
(***************************************************************************)
(* The turns that Hermes runs for the service, as the tools of its agents  *)
(* see them.                                                               *)
(***************************************************************************)
EXTENDS Integers, FiniteSets

CONSTANTS Turns,      \* requests for a chat stream
          Sessions,
          SessionOf   \* the session, and with it the owner, of each

ASSUME SessionOfAssumption == SessionOf \in [Turns -> Sessions]
=============================================================================
