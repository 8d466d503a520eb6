--------------------------- MODULE MCAgentCommands ---------------------------
(* Two commands, two users and two handlers; no symmetry, since the run also
   checks liveness. *)
EXTENDS AgentCommands
==============================================================================
