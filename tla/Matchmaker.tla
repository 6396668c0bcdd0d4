----------------------------- MODULE Matchmaker -----------------------------
(***************************************************************************)
(* What the lobby and the agent promise together: players gather in rooms, *)
(* every game runs on a server of its own that no game ever ran on before, *)
(* and a room's game ends only when its last player has gone.  How ports   *)
(* travel between the two processes is of no concern here.                 *)
(***************************************************************************)
EXTENDS Sequences

CONSTANTS
    Room,     \* the places for rooms, made or not
    Player,   \* the clients
    Port      \* the ports game servers may get

VARIABLES
    members,  \* members[r]: the players in room r
    game,     \* game[r]: where r's game runs, <<port>>, or NoGame
    used      \* the ports that have been given to a game, or thrown away

vars == <<members, game, used>>

NoGame == <<>>

Init ==
    /\ members = [r \in Room |-> {}]
    /\ game = [r \in Room |-> NoGame]
    /\ used = {}

\* The games that are left when the rooms hold the players in m.
Kept(m) == [r \in Room |-> IF m[r] = {} THEN NoGame ELSE game[r]]

\* One player enters or leaves rooms; the others stay where they are.
Move(p) ==
    /\ members' \in [Room -> SUBSET Player]
    /\ \A r \in Room : members'[r] \ {p} = members[r] \ {p}
    /\ game' = Kept(members')
    /\ UNCHANGED used

\* The game of r begins on a port nobody had.
Begin(r, port) ==
    /\ game[r] = NoGame
    /\ port \notin used
    /\ game' = [game EXCEPT ![r] = <<port>>]
    /\ used' = used \cup {port}
    /\ UNCHANGED members

\* Ports are lost: no room wants them any more, or the agent is gone.
Waste(P) ==
    /\ used' = used \cup P
    /\ game' \in {game, Kept(members)}
    /\ UNCHANGED members

Next ==
    \/ \E p \in Player : Move(p)
    \/ \E r \in Room, port \in Port : Begin(r, port)
    \/ \E P \in SUBSET Port : Waste(P)

Spec == Init /\ [][Next]_vars
=============================================================================
