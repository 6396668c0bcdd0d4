----------------------------- MODULE Matchmaking -----------------------------
(***************************************************************************)
(* The lobby, the agent and the lobby's clients together.                  *)
(*                                                                         *)
(* A client is an arbitrary source of the requests GameClient can send: a  *)
(* client that gave up waiting for an answer may ask for things it already *)
(* has, so no order of requests is excluded once it has said who it is.    *)
(* What a client knows is what it has once it has read everything queued   *)
(* for it: ENet's channel 0 is reliable and ordered.                       *)
(***************************************************************************)
EXTENDS EnetLobby

CONSTANTS
    FirstPort,   \* the agent's first port
    LastPort     \* bound: no start once every port below it is spoken for

ASSUME PortAssumption ==
    FirstPort \in Nat /\ LastPort \in Nat /\ FirstPort <= LastPort

VARIABLES
    min_port,    \* the agent's next port
    servers,     \* the launched servers: port -> settings
    id,          \* id[p]: the id client p has of itself
    others,      \* others[p]: the ids client p lists as being in its room
    address,     \* address[p]: the server client p was last told of
    strayed      \* history: some client joined a room while still in one

Agent == INSTANCE EnetAgent

knowledge == <<id, others, address>>
vars == <<lobbyVars, min_port, servers, knowledge, strayed>>

Client == Peer \ {AgentSlot}
Rooms == DOMAIN rooms

Init ==
    /\ LobbyInit
    /\ Agent!Init
    /\ id = [p \in Peer |-> NoId]
    /\ others = [p \in Peer |-> {}]
    /\ address = [p \in Peer |-> <<>>]
    /\ strayed = FALSE

-----------------------------------------------------------------------------
\* What the packets of one handler teach a client.
Named(p, h) == {out'[p][n].id : n \in {m \in DOMAIN out'[p] : out'[p][m].header = h}}
Told(p) == {out'[p][n].address : n \in {m \in DOMAIN out'[p] : out'[p][m].header = "ServerInfo"}}

\* Clients read what the lobby sent: ClientAbout and DiscClientAbout change
\* the list of others, ServerInfo replaces the server's address.
Read ==
    /\ others' = [p \in Peer |->
                    (others[p] \ Named(p, "DiscClientAbout")) \cup Named(p, "ClientAbout")]
    /\ address' = [p \in Peer |->
                    IF Told(p) = {} THEN address[p] ELSE CHOOSE a \in Told(p) : TRUE]
    /\ UNCHANGED id

LobbyKeeps == UNCHANGED <<min_port, servers, strayed>>

\* Ports not yet spoken for.
CanLaunch == min_port + Len(rooms_wait) < LastPort

\* A new client process takes slot p.
Arrive(p, i) ==
    /\ id' = [id EXCEPT ![p] = i]
    /\ others' = [others EXCEPT ![p] = {}]
    /\ address' = [address EXCEPT ![p] = <<>>]
    /\ LobbyKeeps

Boot ==
    \/ (BootAgent \/ BootFail) /\ UNCHANGED knowledge /\ LobbyKeeps
    \/ \E p \in Client : BootClient(p) /\ Arrive(p, NoId)

ClientConnects == \E p \in Peer : Connect(p) /\ Arrive(p, id_counter)

ClientGreets == \E p \in Client : ClientAbout(p, id[p]) /\ Read /\ LobbyKeeps

ClientListsRooms == \E p \in Client : RoomList(p) /\ Read /\ LobbyKeeps

ClientCreatesRoom ==
    \E p \in Client, max \in Capacity, s \in Settings :
        NewRoomInfo(p, max, s) /\ Read /\ LobbyKeeps

InSomeRoom(p) == \E r \in Rooms : p \in Members(r)

\* Bound: a join that would start a room waits for a free port.
ClientJoins ==
    \E p \in Client, r \in Rooms :
        /\ Starts(p, r) => CanLaunch
        /\ Join(p, r)
        /\ Read
        /\ strayed' = (strayed \/ InSomeRoom(p))
        /\ UNCHANGED <<min_port, servers>>

\* Requests for a room id that is not there, or that the lobby refuses.
ClientRefused ==
    \E p \in Client, r \in 1 .. MaxRooms + 1 :
        (JoinRefused(p, r) \/ LeaveRefused(p, r)) /\ Read /\ LobbyKeeps

\* A client that leaves its room forgets the others in it.
ClientLeaves ==
    \E p \in Client, r \in Rooms :
        /\ Leave(p, r)
        /\ others' = [q \in Peer |-> IF q = p THEN {}
                                     ELSE others[q] \ Named(q, "DiscClientAbout")]
        /\ UNCHANGED <<id, address>>
        /\ LobbyKeeps

ClientDisconnects == \E p \in Peer : Disconnect(p) /\ Arrive(p, NoId)

AgentLink == (AgentConnect \/ AgentLost) /\ Read /\ LobbyKeeps

LobbyServesAgent == ServerPort /\ Read /\ LobbyKeeps

AgentLaunches ==
    /\ agent = "up"
    /\ Agent!CreateServer
    /\ UNCHANGED <<running, rooms, wait_room, id_counter, rooms_wait, agent, conn,
                   out, launch_lost, knowledge, strayed>>

\* enet_host_service found nothing within its second (the loop of Run).
Idle == running /\ UNCHANGED vars

Next ==
    \/ Boot
    \/ ClientConnects
    \/ ClientGreets
    \/ ClientListsRooms
    \/ ClientCreatesRoom
    \/ ClientJoins
    \/ ClientRefused
    \/ ClientLeaves
    \/ ClientDisconnects
    \/ AgentLink
    \/ LobbyServesAgent
    \/ AgentLaunches
    \/ Idle

Spec == Init /\ [][Next]_vars

(***************************************************************************)
(* Fairness: the lobby and the agent loop on enet_host_service, so what    *)
(* has arrived on a reliable channel is handled in the end.  Nothing is    *)
(* assumed of the clients.                                                 *)
(***************************************************************************)
FairSpec == Spec /\ WF_vars(AgentLaunches) /\ WF_vars(LobbyServesAgent)
=============================================================================
