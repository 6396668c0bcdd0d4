---------------------------- MODULE MCMatchmaking ----------------------------
(***************************************************************************)
(* Small instances of Matchmaking for TLC.                                 *)
(***************************************************************************)
EXTENDS MatchmakingProperties, TLC

CONSTANTS c1, c2, c3, agent_slot, slow, fast

\* Clients are interchangeable, and so are two settings.
Symmetry == Permutations(Client) \cup Permutations(Settings)

\* out is written by every step and read only within the step.
View == <<running, rooms, wait_room, id_counter, rooms_wait, agent, conn,
          toAgent, fromAgent, launch_lost, min_port, servers, id, others,
          address, strayed>>
=============================================================================
