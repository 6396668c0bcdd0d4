------------------------------ MODULE MCSession ------------------------------
(***************************************************************************)
(* Small instances of Session for TLC.                                     *)
(***************************************************************************)
EXTENDS SessionProperties, TLC

CONSTANTS c1, c2, agent_slot, fast

\* out is written by every step and read only within the step.
View == <<running, rooms, wait_room, id_counter, rooms_wait, agent, conn, toAgent,
          fromAgent, launch_lost, agentSide, clientSide, theirSide>>
=============================================================================
