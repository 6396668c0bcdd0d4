------------------------------ MODULE EnetLobby ------------------------------
(***************************************************************************)
(* The lobby process (lobby/EnetLobby.cpp): it greets clients, keeps the   *)
(* table of rooms and, when a room has enough members, asks the agent for  *)
(* a game server and tells the members where that server is.               *)
(*                                                                         *)
(* One action is one turn of the event loop of EnetLobby::Run: the whole   *)
(* of process_event for one ENet event, the tail over the rooms included,  *)
(* or the branch that serves the agent.  Room ids count from 1 here and    *)
(* from 0 in the code; names, encryption and the bytes of the packets are  *)
(* abstracted.                                                             *)
(***************************************************************************)
EXTENDS Integers, Sequences, FiniteSets, Maps

CONSTANTS
    Peer,        \* the ENet peer slots of the lobby's host
    AgentSlot,   \* the slot enet_host_connect gave to the agent
    StartLevel,  \* start_level: members that start a room
    Capacity,    \* the max_clients_count values clients ask for
    Settings,    \* the radius / velocity / adaptive settings of rooms
    MaxRooms,    \* bound: rooms created in one execution
    MaxId        \* bound: ids given out in one execution

ASSUME LobbyAssumption ==
    /\ IsFiniteSet(Peer) /\ AgentSlot \in Peer
    /\ StartLevel \in Nat \ {0}
    /\ Capacity \subseteq Nat
    /\ MaxRooms \in Nat
    /\ MaxId \in Nat

VARIABLES
    running,     \* FALSE until the prologue of Run has waited for the agent
    rooms,       \* the vector of rooms
    wait_room,   \* peer -> ClientInfo of the clients that are in no room
    id_counter,  \* the next client id
    rooms_wait,  \* agents[0].rooms_wait: rooms waiting for a port, oldest first
    agent,       \* the agent's connection: "connecting", "up" or "down"
    conn,        \* what each slot is: "none", "connected", "greeted" (the
                 \* client has sent its ClientAbout)
    toAgent,     \* CreateServer packets on the reliable channel to the agent
    fromAgent,   \* ServerPort packets on the reliable channel from the agent
    out,         \* the packets the last handler queued, per peer, in order
    launch_lost  \* history: a CreateServer never reached the agent, or its
                 \* answer never will

lobbyVars == <<running, rooms, wait_room, id_counter, rooms_wait, agent, conn,
               toAgent, fromAgent, out, launch_lost>>

(***************************************************************************)
(* A ClientInfo is abstracted to its id.  A client whose handshake failed  *)
(* says -1; reading a table without the peer default-constructs id 0.      *)
(***************************************************************************)
NoId == -1
DefaultId == 0
Ids == -1 .. MaxId

(***************************************************************************)
(* Rooms.  server is the suffix of ports appended to "localhost:".         *)
(***************************************************************************)
NewRoom(max, s) ==
    [clients |-> NoEntries, game_start |-> FALSE, server |-> <<>>,
     max_clients_count |-> max, settings |-> s]

\* Writing where a room's game runs, and who is in the room.
WithServer(room, started, ports) ==
    [room EXCEPT !.game_start = started, !.server = ports]
WithClients(room, clients) == [room EXCEPT !.clients = clients]

Members(r) == DOMAIN rooms[r].clients
Full(r) == Cardinality(Members(r)) >= StartLevel

\* Mutant of Settle: the address keeps the port of the game that ended.
Settle_KeepsServer(rs) ==
    [r \in DOMAIN rs |->
        IF DOMAIN rs[r].clients = {} THEN WithServer(rs[r], FALSE, rs[r].server)
        ELSE rs[r]]

\* The tail of process_event: a room without clients is reset.
Settle(rs) ==
    [r \in DOMAIN rs |->
        IF DOMAIN rs[r].clients = {} THEN WithServer(rs[r], FALSE, <<>>) ELSE rs[r]]

(***************************************************************************)
(* Packets.                                                                *)
(***************************************************************************)
Message(h) == [header |-> h]
About(h, i) == [header |-> h, id |-> i]
ServerInfo(where) == [header |-> "ServerInfo", address |-> where]
CreateServerFor(r) == [header |-> "CreateServer", settings |-> rooms[r].settings]

Quiet == [q \in Peer |-> <<>>]
To(p, packets) == [Quiet EXCEPT ![p] = packets]

\* The orders in which an unordered_map may hand over the keys in S.
Orders(S) == {f \in [1 .. Cardinality(S) -> S] : \A k \in S : \E n \in DOMAIN f : f[n] = k}

-----------------------------------------------------------------------------
LobbyInit ==
    /\ running = FALSE
    /\ rooms = <<>>
    /\ wait_room = NoEntries
    /\ id_counter = 0
    /\ rooms_wait = <<>>
    /\ agent = "connecting"
    /\ conn = [p \in Peer |-> "none"]
    /\ toAgent = <<>>
    /\ fromAgent = <<>>
    /\ out = Quiet
    /\ launch_lost = FALSE

\* What no client request touches.
Links == <<running, agent, conn>>
Queues == <<rooms_wait, toAgent, fromAgent, launch_lost>>

-----------------------------------------------------------------------------
(***************************************************************************)
(* The prologue of Run: one wait of at most five seconds for one event.    *)
(***************************************************************************)

\* The event is the agent's CONNECT.
BootAgent ==
    /\ ~running /\ agent = "connecting"
    /\ running' = TRUE /\ agent' = "up" /\ out' = Quiet
    /\ UNCHANGED <<rooms, wait_room, id_counter, conn, Queues>>

\* The event is a client's CONNECT: it passes for the agent's, and the
\* client gets neither a key nor an id.
BootClient(p) ==
    /\ ~running /\ agent = "connecting" /\ p # AgentSlot
    /\ running' = TRUE /\ conn' = [conn EXCEPT ![p] = "connected"] /\ out' = Quiet
    /\ UNCHANGED <<rooms, wait_room, id_counter, agent, Queues>>

\* No event, or another one: the agent's peer is reset and its slot is free.
BootFail ==
    /\ ~running /\ agent = "connecting"
    /\ running' = TRUE /\ agent' = "down" /\ out' = Quiet
    /\ UNCHANGED <<rooms, wait_room, id_counter, conn, Queues>>

-----------------------------------------------------------------------------
(***************************************************************************)
(* process_event.                                                          *)
(***************************************************************************)
Greeting(p) ==
    To(p, <<Message("Key"), About("ClientId", id_counter), Message("RoomList")>>)

Greet(p) ==
    /\ id_counter < MaxId
    /\ id_counter' = id_counter + 1
    /\ out' = Greeting(p)
    /\ rooms' = Settle(rooms)
    /\ UNCHANGED <<running, wait_room, Queues>>

\* CONNECT of a client.  The agent's slot is free for clients once the
\* connection to the agent is gone.
Connect(p) ==
    /\ running /\ conn[p] = "none"
    /\ p = AgentSlot => agent = "down"
    /\ conn' = [conn EXCEPT ![p] = "connected"]
    /\ UNCHANGED agent
    /\ Greet(p)

\* CONNECT of the agent after the prologue: it is greeted like a client.
AgentConnect ==
    /\ running /\ agent = "connecting"
    /\ agent' = "up"
    /\ UNCHANGED conn
    /\ Greet(AgentSlot)

\* A packet that reaches process_event: whatever comes from the slot in
\* agents[0].peer goes to the agent's branch of Run and is dropped there.
Served(p) == running /\ p # AgentSlot

\* RECEIVE ClientAbout.
ClientAbout(p, i) ==
    /\ Served(p) /\ conn[p] = "connected"
    /\ conn' = [conn EXCEPT ![p] = "greeted"]
    /\ wait_room' = Put(wait_room, p, i)
    /\ rooms' = Settle(rooms)
    /\ out' = Quiet
    /\ UNCHANGED <<running, agent, id_counter, Queues>>

Requests(p) ==
    /\ Served(p) /\ conn[p] = "greeted"
    /\ UNCHANGED <<Links, id_counter>>

\* RECEIVE RoomList.
RoomList(p) ==
    /\ Requests(p)
    /\ rooms' = Settle(rooms)
    /\ out' = To(p, <<Message("RoomList")>>)
    /\ UNCHANGED <<wait_room, Queues>>

\* RECEIVE NewRoomInfo.
NewRoomInfo(p, max, s) ==
    /\ Requests(p) /\ Len(rooms) < MaxRooms
    /\ rooms' = Settle(Append(rooms, NewRoom(max, s)))
    /\ out' = To(p, <<Message("ResultSuccess")>>)
    /\ UNCHANGED <<wait_room, Queues>>

\* What start_room sends: the packet goes to whoever is behind
\* agents[0].peer, and is lost when that is nobody.
Launch(r, packets) ==
    /\ toAgent' = IF agent = "up" THEN Append(toAgent, CreateServerFor(r)) ELSE toAgent
    /\ launch_lost' = (launch_lost \/ agent # "up")
    /\ out' = IF agent = "down" /\ conn[AgentSlot] # "none"
              THEN [packets EXCEPT ![AgentSlot] = <<CreateServerFor(r)>>]
              ELSE packets
    /\ UNCHANGED fromAgent

\* Mutants of start_room: the id is taken before the room is counted; the
\* newest room is served first; a room that waits already is not queued again.
start_room_ZeroBased(r, packets) ==
    rooms_wait' = Append(rooms_wait, r - 1) /\ Launch(r, packets)
start_room_Lifo(r, packets) ==
    rooms_wait' = <<r>> \o rooms_wait /\ Launch(r, packets)
start_room_Once(r, packets) ==
    /\ rooms_wait' = IF \E n \in DOMAIN rooms_wait : rooms_wait[n] = r
                     THEN rooms_wait ELSE Append(rooms_wait, r)
    /\ Launch(r, packets)

\* start_room(r): the room waits for a port whatever became of the packet.
start_room(r, packets) ==
    rooms_wait' = Append(rooms_wait, r) /\ Launch(r, packets)

CanJoin(r) ==
    /\ r \in DOMAIN rooms
    /\ Cardinality(Members(r)) < rooms[r].max_clients_count

\* Mutant of Refuse: a refused client is left without an answer.
Refuse_Silent(p) ==
    /\ rooms' = Settle(rooms) /\ out' = Quiet
    /\ UNCHANGED <<wait_room, Queues>>

Refuse(p) ==
    /\ rooms' = Settle(rooms)
    /\ out' = To(p, <<Message("ResultFailed")>>)
    /\ UNCHANGED <<wait_room, Queues>>

\* Mutant of Introductions: the joiner is not told who is there already.
Introductions_OneWay(p, i, r, order) ==
    [q \in Peer |->
        IF q = p THEN <<Message("ResultSuccess")>>
        ELSE IF q \in Members(r) THEN <<About("ClientAbout", i)>>
        ELSE <<>>]

\* The packets a join causes before the room is started or its server told:
\* the joiner and the others hear of each other, in the table's order.
Introductions(p, i, r, order) ==
    [q \in Peer |->
        IF q = p
        THEN <<Message("ResultSuccess")>>
             \o [n \in DOMAIN order |-> About("ClientAbout", rooms[r].clients[order[n]])]
        ELSE IF q \in Members(r) THEN <<About("ClientAbout", i)>>
        ELSE <<>>]

\* Mutant of Starts: more than start_level members are needed.
Starts_Above(p, r) ==
    /\ Cardinality(Members(r) \cup {p}) > StartLevel
    /\ ~rooms[r].game_start

\* Whether a join of p makes r's members enough for a start.
Starts(p, r) ==
    /\ Cardinality(Members(r) \cup {p}) >= StartLevel
    /\ ~rooms[r].game_start

\* Mutant of Welcome: a late joiner is not told where the game runs.
Welcome_Silent(p, r, packets) == packets

\* A joiner of a running room is told its server.
Welcome(p, r, packets) ==
    IF rooms[r].game_start
    THEN [packets EXCEPT ![p] = Append(@, ServerInfo(rooms[r].server))]
    ELSE packets

\* RECEIVE ConnectRoom, room found and not full.
Join(p, r) ==
    LET i == At(wait_room, p, DefaultId)
    IN  /\ Requests(p) /\ CanJoin(r)
        /\ rooms' = Settle([rooms EXCEPT ![r] = WithClients(@, Put(@.clients, p, i))])
        /\ wait_room' = Erase(wait_room, p)
        /\ \E order \in Orders(Members(r) \ {p}) :
             LET packets == Introductions(p, i, r, order)
             IN  IF Starts(p, r) THEN start_room(r, packets)
                 ELSE out' = Welcome(p, r, packets) /\ UNCHANGED Queues

\* RECEIVE ConnectRoom, no such room or no place in it.
JoinRefused(p, r) == Requests(p) /\ ~CanJoin(r) /\ Refuse(p)

ConnectRoom(p, r) == Join(p, r) \/ JoinRefused(p, r)

\* Mutant of ToWaitRoom: the leaver's info goes down with its room entry.
ToWaitRoom_Dropped(p, r) == wait_room

\* A client that leaves a room is back among those in no room.
ToWaitRoom(p, r) == Put(wait_room, p, rooms[r].clients[p])

\* RECEIVE DisconnectRoom from a member.
Leave(p, r) ==
    /\ Requests(p) /\ r \in DOMAIN rooms /\ p \in Members(r)
    /\ wait_room' = ToWaitRoom(p, r)
    /\ out' = [q \in Peer |->
                 IF q = p THEN <<Message("ResultSuccess")>>
                 ELSE IF q \in Members(r)
                      THEN <<About("DiscClientAbout", rooms[r].clients[p])>>
                 ELSE <<>>]
    /\ rooms' = Settle([rooms EXCEPT ![r] = WithClients(@, Erase(@.clients, p))])
    /\ UNCHANGED Queues

\* RECEIVE DisconnectRoom from a peer that is not in that room.
LeaveRefused(p, r) ==
    /\ Requests(p)
    /\ r \in DOMAIN rooms => p \notin Members(r)
    /\ Refuse(p)

DisconnectRoom(p, r) == Leave(p, r) \/ LeaveRefused(p, r)

\* DISCONNECT: the peer leaves every table; nobody is told.
Forget(p) ==
    /\ rooms' = Settle([r \in DOMAIN rooms |->
                          WithClients(rooms[r], Erase(rooms[r].clients, p))])
    /\ wait_room' = Erase(wait_room, p)
    /\ out' = Quiet
    /\ UNCHANGED <<running, id_counter, rooms_wait>>

Disconnect(p) ==
    /\ running /\ conn[p] # "none"
    /\ conn' = [conn EXCEPT ![p] = "none"]
    /\ Forget(p)
    /\ UNCHANGED <<agent, toAgent, fromAgent, launch_lost>>

\* DISCONNECT of the agent, or its connection attempt timing out: what is on
\* the channels is lost and rooms_wait stays.
AgentLost ==
    /\ running /\ agent # "down"
    /\ agent' = "down"
    /\ toAgent' = <<>> /\ fromAgent' = <<>>
    /\ launch_lost' = (launch_lost \/ rooms_wait # <<>>)
    /\ Forget(AgentSlot)
    /\ UNCHANGED conn

-----------------------------------------------------------------------------
(***************************************************************************)
(* The agent's branch of Run: RECEIVE ServerPort.  The oldest waiting room *)
(* gets the port unless its game has started; there is no tail over the    *)
(* rooms here.                                                             *)
(***************************************************************************)

\* Mutant of Adopts: a second port is taken by a room that has one.
Adopts_Always(r) == TRUE

Adopts(r) == ~rooms[r].game_start

ServerPort ==
    LET r == Head(rooms_wait)
        where == Append(rooms[r].server, Head(fromAgent))
    IN  /\ running /\ agent = "up" /\ fromAgent # <<>>
        /\ fromAgent' = Tail(fromAgent)
        /\ rooms_wait' = Tail(rooms_wait)
        /\ IF Adopts(r)
           THEN /\ rooms' = [rooms EXCEPT ![r] = WithServer(@, TRUE, where)]
                /\ out' = [q \in Peer |-> IF q \in Members(r)
                                          THEN <<ServerInfo(where)>> ELSE <<>>]
           ELSE UNCHANGED rooms /\ out' = Quiet
        /\ UNCHANGED <<wait_room, id_counter, Links, toAgent, launch_lost>>

=============================================================================
