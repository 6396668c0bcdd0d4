-------------------------- MODULE SessionProperties --------------------------
(***************************************************************************)
(* What a client believes of its room and its game, against what the lobby *)
(* knows.                                                                  *)
(***************************************************************************)
EXTENDS Session

RoomNumbers == 0 .. MaxRooms + 1
Waits == {"main", "done", "greet_connect", "greet_key", "greet_id", "greet_list", "create",
          "rooms", "join", "leave", "exit", "srv_connect", "srv_key", "srv_leave"}

\* The client's variables keep their types; an outer wait is never the main
\* loop's end, and the game server's channel is empty without a connection.
TypeOK ==
    /\ \A n \in DOMAIN stack : stack[n].at \in Waits /\ stack[n].room \in Typable \cup {0}
    /\ Len(stack) >= 1
    /\ Me!At("done") => Len(stack) = 1
    /\ my_id \in Ids /\ roster \subseteq Ids
    /\ room_id \in Typable \cup {0}
    /\ {lobby_link, keyed, sealed, creation_stage, in_game, gave_up, left_early, gone}
         \subseteq BOOLEAN
    /\ server_peer \in {"null", "slot"}
    /\ link \in {"free", "connecting", "up"}
    /\ link # "up" => toGame = <<>> /\ fromGame = <<>>
    /\ (link = "connecting") = Me!At("srv_connect")

Idle == stack = <<Me!Frame("main", Me!NoRoom)>>
Drained == Idle /\ inbox = <<>> /\ outbox = <<>>
MyRoom == room_id \in Rooms /\ me \in Members(room_id)

\* The client and the lobby agree on the client's room whenever the client
\* is back in its main loop, however its waits ended, unless one of them gave
\* up while the answer was still to come.
RoomAgrees ==
    Idle /\ ~gave_up /\ ~crossed /\ conn[me] # "none" =>
        \A r \in Rooms : room_id = r <=> me \in Members(r)

\* The list /other prints holds the others in the room and nobody else but
\* clients that disconnected, of whom nobody is told: what the wait loops
\* throw away is the only way to miss somebody.
RosterAgrees ==
    /\ Drained /\ ~gave_up /\ ~crossed /\ MyRoom
    /\ {"ClientAbout", "DiscClientAbout"} \cap missed = {}
    => LET there == {rooms[room_id].clients[p] : p \in Members(room_id) \ {me}}
       IN  there \subseteq roster /\ roster \subseteq there \cup vanished

\* Who is playing is in a running room and has a connection to write to, the
\* one to that room's server, unless it left a room while the game was still
\* being greeted.
GameAgrees ==
    Idle /\ in_game /\ ~gave_up /\ ~crossed /\ ~left_early =>
        /\ MyRoom /\ rooms[room_id].game_start
        /\ server_peer # "null" /\ server = rooms[room_id].server

\* A member of a running room is in the game once everything sent to it has
\* been read, unless its ServerInfo or GameInfo was thrown away, its server
\* failed, or it left a room while the game was still being greeted: it then
\* keeps that connection and has no slot for another.
MembersPlay ==
    /\ Drained /\ MyRoom /\ rooms[room_id].game_start
    /\ toGame = <<>> /\ fromGame = <<>>
    /\ ~gave_up /\ ~crossed /\ ~gone /\ ~left_early /\ {"ServerInfo", "GameInfo"} \cap missed = {}
    => in_game

\* A connection to a game server is given up only after five seconds without
\* it, as the comment at GameClient.cpp:229 has it: no packet ends the wait.
GivesUpConnecting == Me!At("srv_connect") /\ Me!At("srv_leave")'
ConnectionAwaited == [][GivesUpConnecting => inbox' = inbox]_vars

\* The waits of the commands and of a failed connection to a server.
Asking ==
    Me!Here.at \in {"create", "rooms", "join", "leave", "exit", "srv_leave"}

\* A player's command comes back without counting on the five seconds: the
\* lobby answers every request it can read, and what else arrives meanwhile
\* does not swallow the answer.
WaitsEnd == (Asking /\ keyed /\ sealed /\ lobby_link) ~> ~Asking
=============================================================================
