------------------------------- MODULE Session -------------------------------
(***************************************************************************)
(* One game client against the lobby: every packet between the two is in   *)
(* flight for a while, and every wait of the client may end too early.     *)
(*                                                                         *)
(* The lobby is EnetLobby, the agent EnetAgent, the client GameClient.     *)
(* The other clients are arbitrary: they come, introduce themselves, join  *)
(* a room, leave it and vanish, MaxMoves times altogether.                 *)
(***************************************************************************)
EXTENDS EnetLobby

CONSTANTS
    me,          \* the peer slot of the client under study
    FirstPort,   \* the agent's first port
    Typable,     \* the room numbers a player may type
    MaxCommands, \* bound: lines typed in one execution
    MaxMoves     \* bound: what the other clients do in one execution

ASSUME SessionAssumption ==
    /\ me \in Peer \ {AgentSlot}
    /\ FirstPort \in Nat /\ MaxCommands \in Nat /\ MaxMoves \in Nat
    /\ Typable \subseteq Nat

VARIABLES
    min_port, servers,       \* the agent's
    stack, lobby_link, keyed, sealed, my_id, room_id, roster, creation_stage,
    in_game, server_peer, link, server, inbox, outbox, fromGame, toGame, typed,
    gave_up, missed, left_early, gone, crossed,   \* the client's, see GameClient
    moves,       \* what the other clients have done so far
    their_id,    \* their_id[p]: the id another client was given
    vanished     \* history: the ids of clients that disconnected

Agent == INSTANCE EnetAgent
Me == INSTANCE GameClient

agentSide == <<min_port, servers>>
theirSide == <<moves, their_id, vanished>>
clientSide == <<stack, lobby_link, keyed, sealed, my_id, room_id, roster, creation_stage,
                in_game, server_peer, link, server, inbox, outbox, fromGame, toGame, typed,
                gave_up, missed, left_early, gone, crossed>>
vars == <<lobbyVars, agentSide, clientSide, theirSide>>

Others == Peer \ {me, AgentSlot}
Rooms == DOMAIN rooms

Init ==
    /\ LobbyInit
    /\ Agent!Init
    /\ Me!ClientInit
    /\ moves = 0
    /\ their_id = [p \in Others |-> NoId]
    /\ vanished = {}

\* What the lobby queues for the client joins what is in flight already.
Deliver == inbox' = inbox \o out'[me]

\* The client's side of a step of the lobby.
ClientWaits ==
    UNCHANGED <<stack, lobby_link, keyed, my_id, room_id, roster, creation_stage,
                in_game, server_peer, link, server, fromGame, toGame, typed, gave_up,
                missed, left_early, gone, crossed>>

LobbyStep == Deliver /\ ClientWaits /\ UNCHANGED agentSide

-----------------------------------------------------------------------------
(***************************************************************************)
(* The client's own steps.  Bound: it does not ask for more rooms than     *)
(* MaxRooms allows.                                                        *)
(***************************************************************************)
RoomsAskedFor ==
    Len(rooms) + Cardinality({n \in DOMAIN outbox : outbox[n].header = "NewRoomInfo"})

ClientSteps ==
    /\ Me!ClientNext
    /\ Me!TypeRoom => RoomsAskedFor < MaxRooms
    /\ UNCHANGED <<lobbyVars, agentSide, theirSide>>

\* Main loop, idle: enet_host_service found nothing within 10 ms.
ClientIdles == Me!Here.at \in {"main", "done"} /\ UNCHANGED vars

-----------------------------------------------------------------------------
(***************************************************************************)
(* The lobby serves the client under study.                                *)
(***************************************************************************)

\* CONNECT, in the loop of Run or in the prologue, which sends no key.
LobbyGreetsMe ==
    /\ lobby_link /\ ~Me!At("greet_connect") /\ ~Me!At("done")
    /\ \/ Connect(me) /\ sealed' = TRUE
       \/ BootClient(me) /\ UNCHANGED sealed
    /\ LobbyStep
    /\ UNCHANGED <<outbox, theirSide>>

\* RECEIVE of a packet the lobby cannot read: only the tail over the rooms.
Unreadable(p) ==
    /\ Served(p) /\ conn[p] # "none"
    /\ rooms' = Settle(rooms) /\ out' = Quiet
    /\ UNCHANGED <<Links, wait_room, id_counter, Queues>>

LobbyReads(packet) ==
    \/ packet.header = "ClientAbout" /\ ClientAbout(me, packet.id)
    \/ packet.header = "RoomList" /\ RoomList(me)
    \/ /\ packet.header = "NewRoomInfo"
       /\ \E max \in Capacity, s \in Settings : NewRoomInfo(me, max, s)
    \/ packet.header = "ConnectRoom" /\ ConnectRoom(me, packet.room)
    \/ packet.header = "DisconnectRoom" /\ DisconnectRoom(me, packet.room)

LobbyServesMe ==
    /\ outbox # <<>> /\ outbox' = Tail(outbox)
    /\ IF Me!Deaf THEN Unreadable(me) ELSE LobbyReads(Head(outbox))
    /\ LobbyStep
    /\ UNCHANGED <<sealed, theirSide>>

\* DISCONNECT of a client that has ended: ENet's timeout, for the destructor
\* resets the peer before its farewell, or anything else queued, is sent.
LobbyLosesMe ==
    /\ Me!At("done")
    /\ Disconnect(me)
    /\ outbox' = <<>>
    /\ LobbyStep
    /\ UNCHANGED <<sealed, theirSide>>

-----------------------------------------------------------------------------
(***************************************************************************)
(* The lobby serves everybody else.                                        *)
(***************************************************************************)
Moves ==
    /\ moves < MaxMoves /\ moves' = moves + 1
    /\ LobbyStep
    /\ UNCHANGED <<sealed, outbox>>

OtherComes ==
    \E p \in Others :
        /\ \/ Connect(p) /\ their_id' = [their_id EXCEPT ![p] = id_counter]
           \/ BootClient(p) /\ UNCHANGED their_id
        /\ Moves /\ UNCHANGED vanished

OtherIntroducesItself ==
    \E p \in Others : ClientAbout(p, their_id[p]) /\ Moves /\ UNCHANGED <<their_id, vanished>>

OtherCreatesRoom ==
    \E p \in Others, max \in Capacity, s \in Settings :
        /\ RoomsAskedFor < MaxRooms /\ NewRoomInfo(p, max, s)
        /\ Moves /\ UNCHANGED <<their_id, vanished>>

\* Only from outside every room: Matchmaking has the ones that stray.
OtherJoins ==
    \E p \in Others, r \in Rooms :
        /\ \A s \in Rooms : p \notin Members(s)
        /\ Join(p, r)
        /\ Moves /\ UNCHANGED <<their_id, vanished>>

OtherLeaves ==
    \E p \in Others, r \in Rooms :
        Leave(p, r) /\ Moves /\ UNCHANGED <<their_id, vanished>>

OtherVanishes ==
    \E p \in Others :
        /\ Disconnect(p)
        /\ vanished' = vanished \cup {their_id[p]}
        /\ their_id' = [their_id EXCEPT ![p] = NoId]
        /\ Moves

\* The agent's connection, in the prologue or after a client that was quicker.
\* Its loss, which only takes ports that were to come, is in Matchmaking.
AgentLink ==
    /\ BootAgent \/ BootFail \/ AgentConnect
    /\ LobbyStep
    /\ UNCHANGED <<sealed, outbox, theirSide>>

LobbyServesAgent ==
    /\ ServerPort
    /\ LobbyStep
    /\ UNCHANGED <<sealed, outbox, theirSide>>

AgentLaunches ==
    /\ agent = "up"
    /\ Agent!CreateServer
    /\ UNCHANGED <<running, rooms, wait_room, id_counter, rooms_wait, agent, conn, out,
                   launch_lost, clientSide, theirSide>>

Next ==
    \/ ClientSteps
    \/ ClientIdles
    \/ LobbyGreetsMe
    \/ LobbyServesMe
    \/ LobbyLosesMe
    \/ OtherComes
    \/ OtherIntroducesItself
    \/ OtherCreatesRoom
    \/ OtherJoins
    \/ OtherLeaves
    \/ OtherVanishes
    \/ AgentLink
    \/ LobbyServesAgent
    \/ AgentLaunches

Spec == Init /\ [][Next]_vars

(***************************************************************************)
(* Fairness: both event loops handle what has arrived on the reliable      *)
(* channel.  Nothing is assumed of timeouts, the player or the others.     *)
(***************************************************************************)
ClientReads == Me!Reads /\ UNCHANGED <<lobbyVars, agentSide, theirSide>>

FairSpec == Spec /\ WF_vars(LobbyServesMe) /\ WF_vars(ClientReads)
=============================================================================
