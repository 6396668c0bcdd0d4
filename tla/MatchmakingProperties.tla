----------------------- MODULE MatchmakingProperties -----------------------
(***************************************************************************)
(* What the lobby and the agent owe to the clients.                        *)
(***************************************************************************)
EXTENDS Matchmaking

Ports == FirstPort .. LastPort - 1
Packets == [header : {"Key", "RoomList", "ResultSuccess", "ResultFailed"}]
           \cup [header : {"ClientId", "ClientAbout", "DiscClientAbout"}, id : Ids]
           \cup [header : {"ServerInfo"}, address : Seq(Ports)]
           \cup [header : {"CreateServer"}, settings : Settings]

RoomType ==
    [clients : Tables(Client, Ids), game_start : BOOLEAN, server : Seq(Ports),
     max_clients_count : Capacity, settings : Settings]

\* Every variable keeps its type: rooms_wait only names rooms that exist and
\* every port that travels to the lobby is one the agent may hand out.
TypeOK ==
    /\ running \in BOOLEAN
    /\ rooms \in Seq(RoomType) /\ Len(rooms) <= MaxRooms
    /\ wait_room \in Tables(Client, Ids)
    /\ id_counter \in 0 .. MaxId
    /\ rooms_wait \in Seq(1 .. Len(rooms))
    /\ agent \in {"connecting", "up", "down"}
    /\ conn \in [Peer -> {"none", "connected", "greeted"}]
    /\ toAgent \in Seq([header : {"CreateServer"}, settings : Settings])
    /\ fromAgent \in Seq(Ports)
    /\ out \in [Peer -> Seq(Packets)]
    /\ launch_lost \in BOOLEAN
    /\ min_port \in Nat
    /\ servers \in Tables(Ports, Settings)
    /\ id \in [Peer -> Ids]
    /\ others \in [Peer -> SUBSET Ids]
    /\ address \in [Peer -> Seq(Ports)]
    /\ strayed \in BOOLEAN

(***************************************************************************)
(* Invariants.                                                             *)
(***************************************************************************)

\* rooms_wait.front() is never taken of an empty queue (EnetLobby.cpp:297):
\* every CreateServer and every ServerPort on its way has a room waiting.
FrontExists == Len(toAgent) + Len(fromAgent) <= Len(rooms_wait)

\* The first-in first-out pairing of rooms and ports is right: unless a
\* CreateServer was lost, the server of a started room was launched with
\* that room's settings (start_room, the agent and the ServerPort branch).
ServerMatchesRoom ==
    ~launch_lost =>
        \A r \in Rooms : rooms[r].game_start =>
            /\ rooms[r].server[1] \in DOMAIN servers
            /\ servers[rooms[r].server[1]] = rooms[r].settings

\* No two running rooms share a game server, and no server of a running room
\* is still to be handed out: however many rooms start together, stop and
\* start again, a port reaches one game.
ServersNotShared ==
    \A r \in Rooms : rooms[r].game_start =>
        /\ rooms[r].server[1] < min_port
        /\ \A n \in DOMAIN fromAgent : fromAgent[n] # rooms[r].server[1]
        /\ \A s \in Rooms \ {r} :
             rooms[s].game_start => rooms[s].server[1] # rooms[r].server[1]

\* The address string is "localhost:" and one port in a started room and
\* "localhost:" in any other: ports are appended, so a missing reset or a
\* second append would send clients to a port that does not exist.
AddressWellFormed ==
    \A r \in Rooms : Len(rooms[r].server) = IF rooms[r].game_start THEN 1 ELSE 0

\* A room with enough members is running or has a port on order, whatever
\* order of joins, leaves, disconnects and late ports led there.
FullRoomHasLaunch ==
    \A r \in Rooms :
        Full(r) => rooms[r].game_start \/ \E n \in DOMAIN rooms_wait : rooms_wait[n] = r

\* Every member of a running room was last told that room's server, whether
\* it joined before the port arrived, after it, or between two games of the
\* room, as long as no client was in two rooms at once.
MembersKnowServer ==
    ~strayed =>
        \A r \in Rooms : rooms[r].game_start =>
            \A p \in Members(r) : address[p] = rooms[r].server

\* Members of a room know of each other: the list a client prints for /other
\* holds the id of everybody else in its room.
RosterComplete ==
    ~strayed =>
        \A r \in Rooms : \A p \in Members(r) : \A q \in Members(r) \ {p} :
            rooms[r].clients[q] \in others[p]

\* The tables never lose or mix up who a client is: the info moves between
\* wait_room and the rooms through operator[], which makes up id 0 for a peer
\* it does not find.
OwnIdentity ==
    ~strayed =>
        /\ \A p \in DOMAIN wait_room : wait_room[p] = id[p]
        /\ \A r \in Rooms : \A p \in Members(r) : rooms[r].clients[p] = id[p]

(***************************************************************************)
(* Action properties.                                                      *)
(***************************************************************************)

\* The game of a room is not moved under its members: while a room is never
\* empty its server does not change, so the port of a launch that a third
\* member caused while the first was pending is not adopted.
ServerKeptWhileOccupied ==
    [][\A r \in Rooms :
          (rooms[r].game_start /\ Members(r) # {} /\ DOMAIN rooms'[r].clients # {})
              => rooms'[r].server = rooms[r].server]_vars

(***************************************************************************)
(* Liveness.                                                               *)
(***************************************************************************)

Started(r) == r \in Rooms /\ rooms[r].game_start
Waiting(r) == r \in Rooms /\ Full(r) /\ agent = "up" /\ ~launch_lost

\* A room with enough members starts, or loses them first, as long as the
\* agent stays and no CreateServer was lost: the launch that one join caused
\* gets through the agent and the queue of waiting rooms to that room.
FullRoomStarts == \A r \in 1 .. MaxRooms : Waiting(r) ~> (Started(r) \/ ~Waiting(r))

(***************************************************************************)
(* Refinement.                                                             *)
(***************************************************************************)

\* The tables of the lobby as the matchmaker sees them: every place for a room
\* has its players and its game, and a port is spent once it is neither
\* unborn nor on its way to the lobby.
Places == 1 .. MaxRooms
RoomPlayers == [r \in Places |-> IF r \in Rooms THEN Members(r) ELSE {}]
RoomGames ==
    [r \in Places |-> IF r \in Rooms /\ rooms[r].game_start THEN rooms[r].server ELSE <<>>]
SpentPorts ==
    {port \in Ports : port < min_port /\ \A n \in DOMAIN fromAgent : fromAgent[n] # port}

Promise == INSTANCE Matchmaker WITH
    Room <- Places, Player <- Client, Port <- Ports,
    members <- RoomPlayers, game <- RoomGames, used <- SpentPorts

\* The event loops, queues and late answers of the two processes implement
\* the matchmaker: whatever happens, a game gets a server of its own, keeps it
\* while its room has players, and a step moves at most one client.
KeepsPromise == Promise!Spec
=============================================================================
