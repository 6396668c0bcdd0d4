----------------------------- MODULE GameClient -----------------------------
(***************************************************************************)
(* The game client process (client/GameClient.cpp): the greeting by the    *)
(* lobby, the commands a player types, and process_event.                  *)
(*                                                                         *)
(* The client has one thread.  Every request is followed by a loop that    *)
(* waits for its answer, and a ServerInfo is handled by further waits      *)
(* inside process_event, so the control state is a stack: the main loop or *)
(* a step of the greeting at the bottom, the waits above it.               *)
(*                                                                         *)
(* Every wait decodes what it receives with lobby_key, and process_event   *)
(* decodes again: the second pass undoes the first.  A key other than 0 is *)
(* keyed; the game server's key is always 0.  Entities and chat change     *)
(* nothing here (Game.tla has the entities).                               *)
(***************************************************************************)
EXTENDS Integers, Sequences

CONSTANTS
    Typable,      \* the room numbers a player may type
    MaxCommands   \* bound: lines typed in one execution

VARIABLES
    stack,           \* where the client is, innermost wait last
    lobby_link,      \* whether lobby_peer is a connection
    keyed,           \* lobby_key is not 0
    sealed,          \* the lobby encrypts what it sends to this client
    my_id,           \* id
    room_id,         \* the room the client thinks it is in, or NoRoom
    roster,          \* others: the ids listed by /other
    creation_stage,  \* the next line typed describes a room
    in_game,
    server_peer,     \* what the pointer server_peer is: "null" or "slot"
    link,            \* the slot: "free", "connecting" or "up"
    server,          \* the address the slot was last connected to
    inbox,           \* packets of the lobby, in order
    outbox,          \* packets to the lobby, in order
    fromGame,        \* reliable packets of the game server
    toGame,          \* reliable packets to the game server
    typed,           \* lines typed
    gave_up,         \* history: a wait ended with its Result... still to come
    missed,          \* history: headers thrown away since the last leave
    left_early,      \* history: a room was left between ServerInfo and GameInfo
    gone,            \* history: a connection to a game server failed later
    crossed          \* history: a wait for a game server ended inside a wait
                     \* whose answer was still to come

clientVars == <<stack, lobby_link, keyed, sealed, my_id, room_id, roster,
                creation_stage, in_game, server_peer, link, server, inbox, outbox,
                fromGame, toGame, typed, gave_up, missed, left_early, gone, crossed>>

NoRoom == 0    \* room_id == -1
NoOne == -1    \* the id before the lobby has sent one

Frame(where, r) == [at |-> where, room |-> r]
Here == stack[Len(stack)]
At(where) == Here.at = where
Below == SubSeq(stack, 1, Len(stack) - 1)
Goto(where) == Append(Below, Frame(where, NoRoom))
Call(where, r) == Append(stack, Frame(where, r))

\* The loops around a request and the waits for a single event.
AnswerLoop == {"greet_list", "create", "rooms", "join", "leave", "exit", "srv_leave"}
SingleWait == {"greet_connect", "greet_key", "greet_id", "srv_connect", "srv_key"}

ClientInit ==
    /\ stack = <<Frame("greet_connect", NoRoom)>>
    /\ lobby_link = TRUE
    /\ keyed = FALSE /\ sealed = FALSE
    /\ my_id = NoOne /\ room_id = NoRoom /\ roster = {}
    /\ creation_stage = FALSE /\ in_game = FALSE
    /\ server_peer = "null" /\ link = "free" /\ server = <<>>
    /\ inbox = <<>> /\ outbox = <<>> /\ fromGame = <<>> /\ toGame = <<>>
    /\ typed = 0
    /\ gave_up = FALSE /\ missed = {} /\ left_early = FALSE /\ gone = FALSE /\ crossed = FALSE

\* Groups of variables a step leaves alone.
Identity == <<lobby_link, keyed, sealed, my_id>>
Place == <<room_id, roster>>
GameLink == <<in_game, server_peer, link, server>>
History == <<gave_up, left_early, gone, crossed>>
Typing == <<creation_stage, typed>>

-----------------------------------------------------------------------------
(***************************************************************************)
(* Sending and reading.                                                    *)
(***************************************************************************)
Request(h, r) == [header |-> h, room |-> r]
Introduction(i) == [header |-> "ClientAbout", id |-> i]
ToGameServer == [header |-> "ClientAbout"]

Sent(packet) == IF lobby_link THEN Append(outbox, packet) ELSE outbox

\* Decoding what the lobby sends gives its text when both ends have the key
\* or neither has; decoding it twice gives it when there is no key.
Deaf == keyed # sealed
ReadsTwice == ~keyed /\ ~sealed

Results == {"ResultSuccess", "ResultFailed"}
Wanted == IF At("greet_list") \/ At("rooms") THEN {"RoomList"} ELSE Results

\* A request whose Result... has not been read yet.
Unanswered ==
    \/ \E n \in DOMAIN inbox : inbox[n].header \in Results
    \/ \E n \in DOMAIN outbox :
         outbox[n].header \in {"NewRoomInfo", "ConnectRoom", "DisconnectRoom"}

-----------------------------------------------------------------------------
(***************************************************************************)
(* process_event for a packet it can read; it returns to the frame that    *)
(* called it, which is the innermost one.                                  *)
(***************************************************************************)

\* Mutant of LearnOf: a client that leaves stays in the list.
LearnOf_Only(packet) ==
    /\ roster' = roster \cup {packet.id}
    /\ UNCHANGED <<stack, GameLink>>

\* ClientAbout, DiscClientAbout.
LearnOf(packet) ==
    /\ roster' = IF packet.header = "ClientAbout" THEN roster \cup {packet.id}
                 ELSE roster \ {packet.id}
    /\ UNCHANGED <<stack, GameLink>>

\* ServerInfo, when the host's second slot is free.
BeginConnecting(packet) ==
    /\ link = "free"
    /\ server_peer' = "slot" /\ link' = "connecting" /\ server' = packet.address
    /\ stack' = Call("srv_connect", NoRoom)
    /\ UNCHANGED <<roster, in_game>>

\* ServerInfo, with no slot left: enet_host_connect returns NULL.
NoSlotLeft ==
    /\ link # "free"
    /\ server_peer' = "null"
    /\ UNCHANGED <<stack, roster, in_game, link, server>>

\* GameInfo.
EnterGame == in_game' = TRUE /\ UNCHANGED <<stack, roster, server_peer, link, server>>

process_event(packet) ==
    /\ \/ packet.header \in {"ClientAbout", "DiscClientAbout"} /\ LearnOf(packet)
       \/ packet.header = "ServerInfo" /\ (BeginConnecting(packet) \/ NoSlotLeft)
       \/ packet.header = "GameInfo" /\ EnterGame
       \/ /\ packet.header \notin {"ClientAbout", "DiscClientAbout", "ServerInfo", "GameInfo"}
          /\ UNCHANGED <<stack, roster, GameLink>>
    /\ UNCHANGED <<room_id, missed>>

\* An unknown header: the packet is lost.
ThrowAway(packet) ==
    /\ missed' = missed \cup {packet.header}
    /\ UNCHANGED <<stack, Place, GameLink>>

Handle(packet, readable) ==
    IF readable THEN process_event(packet) ELSE ThrowAway(packet)

-----------------------------------------------------------------------------
(***************************************************************************)
(* The events of the main loop.                                            *)
(***************************************************************************)
NextFromLobby == inbox # <<>> /\ inbox' = Tail(inbox) /\ UNCHANGED fromGame
NextFromGame == fromGame # <<>> /\ fromGame' = Tail(fromGame) /\ UNCHANGED inbox

MainReads ==
    /\ At("main")
    /\ \/ NextFromLobby /\ Handle(Head(inbox), ~Deaf)
       \/ NextFromGame /\ Handle(Head(fromGame), TRUE)
    /\ UNCHANGED <<Identity, Typing, outbox, toGame, History>>

-----------------------------------------------------------------------------
(***************************************************************************)
(* The loops that wait for an answer.                                      *)
(***************************************************************************)

\* The stack when the wait on top is over; /exit also ends the main loop.
Finished ==
    CASE At("greet_list") -> Goto("main")
      [] At("exit") -> <<Frame("done", NoRoom)>>
      [] OTHER -> Below

\* Mutant of ForgetRoom: the game goes on after the room is left.
ForgetRoom_KeepsGame ==
    /\ room_id' = NoRoom /\ roster' = {} /\ missed' = {}
    /\ UNCHANGED <<in_game, link, fromGame, toGame, left_early>>

\* A confirmed leave; clean_game closes the connection to the game server,
\* but only of a client that is in the game already.
ForgetRoom ==
    /\ room_id' = NoRoom /\ roster' = {} /\ missed' = {}
    /\ IF in_game
       THEN /\ in_game' = FALSE /\ link' = "free"
            /\ fromGame' = <<>> /\ toGame' = <<>> /\ UNCHANGED left_early
       ELSE /\ left_early' = (left_early \/ link # "free")
            /\ UNCHANGED <<in_game, link, fromGame, toGame>>

\* Mutant of JoinedRoom: a refused join sets the room number too.
JoinedRoom_Any(answer) == Here.room

JoinedRoom(answer) == IF answer = "ResultSuccess" THEN Here.room ELSE room_id

\* The answer the loop waits for, or what it takes for it.
LoopAnswered ==
    LET answer == Head(inbox).header
    IN  /\ Here.at \in AnswerLoop /\ inbox # <<>> /\ ~Deaf /\ answer \in Wanted
        /\ inbox' = Tail(inbox)
        /\ stack' = Finished
        /\ creation_stage' = (creation_stage /\ ~At("create"))
        /\ \/ /\ Here.at \in {"leave", "exit", "srv_leave"} /\ answer = "ResultSuccess"
              /\ ForgetRoom
           \/ /\ ~(Here.at \in {"leave", "exit", "srv_leave"} /\ answer = "ResultSuccess")
              /\ room_id' = IF At("join") THEN JoinedRoom(answer) ELSE room_id
              /\ UNCHANGED <<roster, missed, in_game, link, fromGame, toGame, left_early>>
        /\ UNCHANGED <<Identity, server_peer, server, outbox, typed, gave_up, gone, crossed>>

\* Any other packet is decoded a second time by process_event.
LoopReads ==
    /\ Here.at \in AnswerLoop
    /\ \/ /\ NextFromLobby /\ ~(~Deaf /\ Head(inbox).header \in Wanted)
          /\ Handle(Head(inbox), ReadsTwice)
       \/ NextFromGame /\ Handle(Head(fromGame), ~keyed)
    /\ UNCHANGED <<Identity, Typing, outbox, toGame, History>>

\* Five seconds without an event: the answer may still come.
LoopGivesUp ==
    /\ Here.at \in AnswerLoop
    /\ stack' = Finished
    /\ creation_stage' = (creation_stage /\ ~At("create"))
    /\ gave_up' = (gave_up \/ Unanswered)
    /\ UNCHANGED <<Identity, Place, GameLink, inbox, outbox, fromGame, toGame, typed,
                   missed, left_early, gone, crossed>>

-----------------------------------------------------------------------------
(***************************************************************************)
(* The greeting: one event each for CONNECT, Key and ClientId.             *)
(***************************************************************************)
GreetKeeps == UNCHANGED <<Place, GameLink, fromGame, toGame, Typing, History>>

\* CONNECT, or five seconds without it.
GreetConnected ==
    /\ At("greet_connect")
    /\ \/ stack' = Goto("greet_key") /\ UNCHANGED lobby_link
       \/ stack' = Goto("main") /\ lobby_link' = FALSE
    /\ GreetKeeps
    /\ UNCHANGED <<keyed, sealed, my_id, inbox, outbox, missed>>

\* The first packet: is it the key?
GreetKey ==
    /\ At("greet_key") /\ stack' = Goto("greet_id")
    /\ \/ /\ inbox # <<>> /\ inbox' = Tail(inbox)
          /\ keyed' = (Head(inbox).header = "Key")
       \/ UNCHANGED <<inbox, keyed>>
    /\ GreetKeeps
    /\ UNCHANGED <<lobby_link, sealed, my_id, outbox, missed>>

\* The second packet: is it the id?  The client introduces itself either way.
GreetId ==
    /\ At("greet_id") /\ stack' = Goto("greet_list")
    /\ \/ /\ inbox # <<>> /\ inbox' = Tail(inbox)
          /\ my_id' = IF ~Deaf /\ Head(inbox).header = "ClientId" THEN Head(inbox).id
                      ELSE my_id
       \/ UNCHANGED <<inbox, my_id>>
    /\ outbox' = Sent(Introduction(my_id'))
    /\ GreetKeeps
    /\ UNCHANGED <<lobby_link, keyed, sealed, missed>>

-----------------------------------------------------------------------------
(***************************************************************************)
(* Connecting to the game server, inside process_event.                    *)
(***************************************************************************)

\* CONNECT of the game server; its greeting is on the way then.
ServerConnected ==
    /\ At("srv_connect")
    /\ stack' = Goto("srv_key")
    /\ link' = "up" /\ fromGame' = <<[header |-> "Key"]>>
    /\ UNCHANGED <<Identity, Place, in_game, server_peer, server, toGame, inbox, outbox,
                   Typing, missed, History>>

\* Mutant of Abandoned: the attempt goes on in its slot.
Abandoned_Kept == link

\* enet_peer_reset of the attempt.
Abandoned == "free"

\* Any other event, or none in five seconds: the attempt is given up and the
\* lobby is asked to take the client out of the room.
ServerRefused ==
    /\ At("srv_connect")
    /\ stack' = Goto("srv_leave")
    /\ link' = Abandoned
    /\ \/ /\ inbox # <<>> /\ inbox' = Tail(inbox)
          /\ missed' = missed \cup {Head(inbox).header}
       \/ UNCHANGED <<inbox, missed>>
    /\ outbox' = Sent(Request("DisconnectRoom", room_id))
    /\ crossed' = (crossed \/ Unanswered)
    /\ UNCHANGED <<Identity, Place, in_game, server_peer, server, fromGame, toGame,
                   Typing, gave_up, left_early, gone>>

\* The wait for the server's key takes any packet, or gives up; the client
\* introduces itself to the server either way.
ServerKey ==
    /\ At("srv_key") /\ stack' = Below
    /\ \/ /\ NextFromGame /\ UNCHANGED missed
       \/ /\ NextFromLobby /\ missed' = missed \cup {Head(inbox).header}
       \/ UNCHANGED <<inbox, fromGame, missed>>
    /\ toGame' = IF link = "up" THEN Append(toGame, ToGameServer) ELSE toGame
    /\ crossed' = (crossed \/ Unanswered)
    /\ UNCHANGED <<Identity, Place, GameLink, outbox, Typing, gave_up, left_early, gone>>

\* DISCONNECT of the game server's peer: it ends whatever wait it finds.
ServerGone ==
    /\ link = "up" /\ ~At("done")
    /\ link' = "free" /\ fromGame' = <<>> /\ gone' = TRUE
    /\ IF At("srv_key") THEN stack' = Below ELSE
       IF At("main") THEN UNCHANGED stack ELSE stack' = Finished
    /\ creation_stage' = (creation_stage /\ ~At("create"))
    /\ gave_up' = (gave_up \/ (Here.at \in AnswerLoop /\ Unanswered))
    /\ toGame' = <<>>
    /\ UNCHANGED <<Identity, Place, in_game, server_peer, server, inbox, outbox, typed,
                   missed, left_early, crossed>>

\* The game server answers the introduction (add_new_client).
ServerGreets ==
    /\ toGame # <<>>
    /\ toGame' = Tail(toGame)
    /\ fromGame' = Append(fromGame, [header |-> "GameInfo"])
    /\ UNCHANGED <<stack, Identity, Place, GameLink, inbox, outbox, Typing, missed, History>>

-----------------------------------------------------------------------------
(***************************************************************************)
(* What a player types.                                                    *)
(***************************************************************************)
Line ==
    /\ At("main") /\ typed < MaxCommands
    /\ typed' = typed + 1
    /\ UNCHANGED <<Identity, Place, GameLink, inbox, fromGame, toGame, creation_stage,
                   missed, History>>

Ask(where, packet, r) ==
    /\ stack' = Call(where, r)
    /\ outbox' = Sent(packet)

\* The line after /create describes a room, whatever it says.
TypeRoom ==
    Line /\ creation_stage /\ Ask("create", Request("NewRoomInfo", NoRoom), NoRoom)

TypeRooms ==
    Line /\ ~creation_stage /\ Ask("rooms", Request("RoomList", NoRoom), NoRoom)

TypeConnect ==
    /\ Line /\ ~creation_stage /\ room_id = NoRoom
    /\ \E r \in Typable : Ask("join", Request("ConnectRoom", r), r)

TypeDisconnect ==
    /\ Line /\ ~creation_stage /\ room_id # NoRoom
    /\ Ask("leave", Request("DisconnectRoom", room_id), NoRoom)

TypeExit ==
    /\ Line /\ ~creation_stage
    /\ \/ room_id # NoRoom /\ Ask("exit", Request("DisconnectRoom", room_id), NoRoom)
       \/ room_id = NoRoom /\ stack' = Goto("done") /\ UNCHANGED outbox

TypeCreate ==
    /\ At("main") /\ ~creation_stage /\ typed < MaxCommands
    /\ creation_stage' = TRUE /\ typed' = typed + 1
    /\ UNCHANGED <<stack, Identity, Place, GameLink, inbox, outbox, fromGame, toGame,
                   missed, History>>

\* SIGTERM: the main loop ends after the event it is at; no room is left.
Terminated ==
    /\ At("main") /\ stack' = Goto("done")
    /\ UNCHANGED <<Identity, Place, GameLink, inbox, outbox, fromGame, toGame, Typing,
                   missed, History>>

Types ==
    TypeRoom \/ TypeRooms \/ TypeConnect \/ TypeDisconnect \/ TypeExit \/ TypeCreate

Reads == MainReads \/ LoopAnswered \/ LoopReads \/ GreetKey \/ GreetId \/ ServerKey

ClientNext ==
    \/ MainReads
    \/ LoopAnswered
    \/ LoopReads
    \/ LoopGivesUp
    \/ GreetConnected
    \/ GreetKey
    \/ GreetId
    \/ ServerConnected
    \/ ServerRefused
    \/ ServerKey
    \/ ServerGone
    \/ ServerGreets
    \/ Types
    \/ Terminated
=============================================================================
