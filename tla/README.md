# Verification of Network_hw

TLA+ models of the lobby, the agent, the game server, the game client and the two earlier chat
programs, model-checked with TLC, and proofs about them checked with TLAPS. Paths below are relative to the repository root.

    tlc -workers 2 -config MatchmakingTwoRooms.cfg MCMatchmaking.tla     # any run of PROJECT.json
    tlapm MatchmakingProofs.tla          # and the other seven *Proofs modules

`PROJECT.json` lists the runs, the mutants that show each property can fail, the lines each definition
models, the hazards and the theorems.

## 1. The system

A player starts a **client** (`src/client/GameClient.cpp`), which connects to the **lobby**
(`src/lobby/EnetLobby.cpp`, port 1234), chooses a name and lists, creates and joins rooms. When a room
has `start_level` members the lobby asks the **agent** (`src/agent/EnetAgent.cpp`, port 7777) for a
**game server** (`src/server/GameServer.cpp`); the agent launches the process on its next port and
answers with the port; the lobby tells the members, who connect to the game server, introduce
themselves and play. All links are ENet: channel 0 is reliable and ordered, channel 1 loses packets
and drops those that come late. Each process is single-threaded: one loop around `enet_host_service`,
and one event is handled to the end before the next one is read.

| component | state | operations |
|---|---|---|
| lobby | `rooms` (members, `game_start`, `server`, limits, settings), `wait_room`, `id_counter`, `agents[0]` (`peer`, `rooms_wait`), `clients_key` | CONNECT; ClientAbout; RoomList; NewRoomInfo; ConnectRoom; DisconnectRoom; DISCONNECT; `start_room`; ServerPort; the wait for the agent at start; the tail that resets empty rooms |
| agent | `min_port`, the launched processes | CreateServer |
| game server | `clients`, `clients_entities`, `last_target`, `last_ts`, `entities` (timestamp to snapshot), `current_ts` | CONNECT; ClientAbout; MousePosition; ClientAnswer; DISCONNECT; ChatMessage; one tick per 100 ms without an event |
| client | `id`, `room_id`, `others`, `state`, `server_peer`, `in_game`, `creation_stage`, keys | `process_event`; commands `/rooms`, `/create`, `/connect`, `/disconnect`, `/other`, `/exit`; wait loops of five seconds; drawing |
| `Packet.h`, `Entity.h` | none | `subscribe` (XOR with a key), `BitVector` (bit packing of frames) |
| UDP chat (`server/Server.cpp`, `client/Client.cpp`) | clients with last-seen times; two timers; the datagrams in the server's socket | introduction, keep-alive, message, expiry. An earlier version that the mains do not start |
| ENet chat (`server/EnetServer.cpp`, `client/EnetClient.cpp`) | the server's clients and ids; the client's `in_game`, `others` | the lobby's address, connecting, name, introductions, DISCONNECT. Another earlier version |

How they interact:

- client and lobby: requests and answers on channel 0. Requests carry no identifier, so an answer is
  matched to a request only by its kind and by when it comes.
- lobby and agent: `CreateServer` and `ServerPort` on channel 0. A port does not say which room it is
  for: the lobby keeps a queue (`rooms_wait`) and gives the port to the room at its front.
- client and game server: `ClientAbout` and `GameInfo` on channel 0; `Entities`, `ClientAnswer` and
  `MousePosition` on channel 1. Frames are differences to the last snapshot the player acknowledged.
- ENet reuses peer slots: a table keyed by `ENetPeer*` that is not cleaned on DISCONNECT is read by
  the next client of the slot.

What is hard here, and what must be right:

1. *Pairing by arrival order.* Several launches are pending at once; rooms empty, fill and start again
   before their port comes; a third member causes a second launch for the same room. Ports must reach
   the rooms they were launched for, no port may serve two rooms, and a running game must not be moved.
2. *A room's life.* Joins, leaves, disconnects and late ports in any order: a room with enough members
   is running or has a port on order, in the end it runs, and every member knows where.
3. *Who is who.* `operator[]` on a table makes up a value for a missing peer. Ids and rosters must
   survive the moves between `wait_room` and the rooms.
4. *The agent comes late, leaves or never comes*, and its slot is given to a client.
5. *Differences over an unreliable channel.* Frames and acknowledgements are lost separately; one
   player's acknowledgement drops snapshots of the others; reading a dropped snapshot creates an
   empty one. What a player draws must be the world of the frame it applied.
6. *Slot reuse on the game server*, whose DISCONNECT leaves two tables alone.
7. *Client wait loops*: five-second waits inside handlers, nested in each other, answers that come after
   them, waits that any event ends, and packets that are decoded twice.
8. *Time*: the game server advances only when nothing happens for 100 ms; the UDP chat forgets clients by
   a timer while an edge-triggered socket holds their keep-alives back.
9. *Bits and numbers*: frames end anywhere in a byte, `bit_size` and `subscribe` treat the rest
   specially, and an AI that is its own target divides zero by zero.

## 2. Modules

| module | models | extends / instantiates |
|---|---|---|
| `Maps` | `std::unordered_map` as a function with a finite domain | |
| `EnetLobby` | the lobby; one action per event of its loop | `Maps` |
| `EnetAgent` | the agent | `Maps` |
| `Matchmaking` | lobby, agent and clients composed; `Spec`, `FairSpec` | `EnetLobby`, `Agent == INSTANCE EnetAgent` |
| `MatchmakingProperties` | what the lobby and the agent owe to clients | `Matchmaking` |
| `MCMatchmaking` | symmetry and view for TLC | `MatchmakingProperties` |
| `Matchmaker` | abstract specification: what lobby and agent promise together | instantiated by `MatchmakingProperties` as `Promise` |
| `MatchmakingProofs` | theorems about `Matchmaking` | `MatchmakingProperties` |
| `GameClient` | the game client: greeting, commands, wait loops, `process_event` | |
| `Session` | one `GameClient` against `EnetLobby`, `EnetAgent` and arbitrary other clients, with packets in flight both ways | `EnetLobby`, `Agent == INSTANCE EnetAgent`, `Me == INSTANCE GameClient` |
| `SessionProperties`, `MCSession` | what the client believes against what the lobby knows; view for TLC | `Session` |
| `SessionProofs` | theorems about `Session` | `SessionProperties` |
| `GameServer` | the game server: events and the tick | `Maps` |
| `Game` | game server, unreliable channels and players | `GameServer` |
| `GameProperties` | what the game server owes to players | `Game` |
| `MCGame` | symmetry and a constraint for TLC | `GameProperties` |
| `GameProofs` | theorems about `Game` | `GameProperties` |
| `ServerLoop` | the game server's loop in time | |
| `World` | one tick of the physics | |
| `EntitiesPacket`, `MCEntitiesPacket` | a frame bit by bit: `BitVector`, `subscribe`, encoding, decoding | |
| `UdpChat` | the UDP chat: both programs, datagrams, timers, epoll | `Maps` |
| `EnetChat`, `MCEnetChat` | the ENet chat: both programs and their lobby's address; symmetry for TLC | `Maps` |
| `UdpChatProofs`, `EnetChatProofs` | theorems about `UdpChat` and `EnetChat` | those |
| `Recursion` | induction and recursion over `0 .. N`, for the loops of the next two | |
| `WorldProofs`, `EntitiesPacketProofs` | theorems about `World` and `EntitiesPacket` | those, `Recursion` |

### Matchmaking: state and actions

`rooms`, `wait_room`, `id_counter` and `rooms_wait` are the lobby's fields of those names. Room ids
count from 1 (0 in the code). A `ClientInfo` is its id, and `DefaultId` is the one `operator[]`
makes up. A room's `server` is the sequence of ports appended to `"localhost:"`: the code appends with
`+=`, so two ports glued together are a sequence of length two. `agent` says what is behind
`agents[0].peer` (still connecting, up, gone), `conn` what each slot of the lobby's host is, and
`toAgent`, `fromAgent` are the two directions of the reliable channel. `out` is what the last handler
queued for each peer, in order. `id`, `others` and `address` are what clients know once they have read
it. `launch_lost` and `strayed` are history variables that properties are conditioned on.

| action | code (`src/lobby/EnetLobby.cpp` unless said) |
|---|---|
| `BootAgent`, `BootClient`, `BootFail` | the prologue of `Run`, 263-287: the first event decides; a client that is quicker passes for the agent |
| `Connect`, `AgentConnect` | CONNECT, 79-105 |
| `ClientAbout`, `RoomList`, `NewRoomInfo` | RECEIVE, 206-235 |
| `Join`, `JoinRefused` (`start_room` inside) | ConnectRoom, 112-169 and 63-77 |
| `Leave`, `LeaveRefused` | DisconnectRoom, 170-205 |
| `Disconnect`, `AgentLost` | DISCONNECT, 236-249 |
| `Settle`, part of all of these | the tail of `process_event`, 255-260 |
| `ServerPort` | the agent's branch of `Run`, 293-318 (no tail) |
| `Agent!CreateServer` | `src/agent/EnetAgent.cpp` 43-78 |
| `Idle` | `enet_host_service` timed out |

Clients are an arbitrary source of the requests `GameClient` can send. A client that stopped waiting
for an answer may ask for what it has already, so no order of requests is excluded once it has sent its
`ClientAbout`. The order in which a joiner hears of the members is the hash table's, hence any
(`Orders`). What a client does with the packets (`others`, the server's address) is `Read`; that a
client always gets to read them undamaged is an assumption here, which `Session` drops.

`Matchmaker` has rooms with members, games on ports and the ports used up; a port is used once, a game
begins only in a room without one, and ends only with its last player. The refinement mapping
(`Promise` in `MatchmakingProperties`) reads `members` off `rooms`, `game` off `server`, and takes the
ports below `min_port` that are not on their way for used.

### Session: state and actions

The client has one thread, so its control state is a stack (`stack`): the main loop or a step of the
greeting at the bottom, above it the waits it is in; a `ServerInfo` read inside a wait adds the waits
of `process_event`. `inbox` and `outbox` are the two directions of channel 0 to the lobby, `fromGame`
and `toGame` those to the game server, `link` is the one slot the client's host has left for a game
server and `server_peer` the pointer to it. Keys are abstracted to whether client and lobby have one
(`keyed`, `sealed`): what is decoded once is read if both or neither have it, what is decoded twice if
neither has. The game server's key is 0.

| action | code (`src/client/GameClient.cpp` unless said) |
|---|---|
| `GreetConnected`, `GreetKey`, `GreetId` | the greeting, 402-454: one event each, whatever it is |
| `TypeRoom`, `TypeRooms`, `TypeConnect`, `TypeDisconnect`, `TypeExit`, `TypeCreate` | 497-510, 532-540, 610-618, 640-648, 569-578, 675-678 |
| `LoopAnswered`, `LoopReads`, `LoopGivesUp` | the seven loops that wait for an answer (456-482, 512-530, 541-567, 581-602, 620-638, 650-673, 247-270): the answer; any other packet, handed on decoded; five seconds |
| `MainReads` | 702-704 and `process_event` 187-399 |
| `ServerConnected`, `ServerRefused`, `ServerKey` | the nested waits for the game server, 228-298 |
| `ServerGone` | DISCONNECT of the game server, 392-394, which also ends a wait |
| `ServerGreets` | `add_new_client`, `src/server/GameServer.cpp` 173-191 |
| `Terminated` | SIGTERM, `src/client/GameClient.h` 41-43 |
| `LobbyServesMe`, `LobbyGreetsMe`, `LobbyLosesMe` | the lobby's handlers, as in `Matchmaking` |
| `AgentLink`, `LobbyServesAgent`, `AgentLaunches` | the agent's connection, in the prologue (263-287) or after a client that was quicker (289-294), its ports, its launches |

The other clients come, introduce themselves, create, join, leave and vanish at any time. `gave_up`,
`crossed`, `missed`, `left_early`, `gone` and `vanished` are history variables. What they stand for are
four ways in which this client goes wrong, which the properties leave out and which are worth knowing:

- `gave_up`: a wait ended while its answer was on the way. The answer is taken for the next request's,
  and `room_id` and the lobby disagree from then on.
- `crossed`: a wait for a game server ended inside a command's wait whose answer was still to come
  (`src/client/GameClient.cpp` 228-298). An attempt that failed sends a second request, whose answer cannot
  be told from the first's, and the wait for the server's key takes any packet, the answer too.
- `missed`: a packet that came during a wait was decoded twice, or was taken by a wait for something
  else, and is lost: a `ServerInfo` or `GameInfo` is not sent again.
- `left_early`: a room was left between `ServerInfo` and `GameInfo`. `clean_game` runs only in the game,
  so the connection stays; the next `ServerInfo` finds no slot and `server_peer` becomes NULL.

### Game: state and actions

`clients`, `clients_entities`, `last_target`, `last_ts`, `entities` and `current_ts` are the server's
fields. An entity is its `user_id` and a `body`: position and radius are encoded alike, each sent if it
differs from the baseline, and no property tells them apart. Positions are opaque values and a tick may
move every body anywhere, which includes whatever `update_users`, `update_AI`, `check_cond` and
`wall_check` compute. Of `last_target` only its keys count: `update_users` inserts into
`clients_entities` for each of them, and `steered` records the entities it moved.

| action | code |
|---|---|
| `PlayerConnects` | CONNECT (`src/server/GameServer.cpp` 220-231); the player is a new process or one that still draws its last game, on this server or another, of whatever size: nothing clears `state`, neither `clean_game` (`src/client/GameClient.cpp` 51-73) nor the decoding (310-366) |
| `PlayerIntroduces` | ClientAbout, 232-245, `add_new_client` 173-191 |
| `PlayerAims` | MousePosition, 250-252 |
| `PlayerLeaves` | DISCONNECT, 265-276 |
| `ServerTicks` | no event for 100 ms, 283-374 |
| `ServerReceivesAnswer` | ClientAnswer, 253-263 |
| `PlayerReceivesFrame` | Entities, `src/client/GameClient.cpp` 307-380 |
| `PacketLost` | channel 1 |

`Decode` follows the client's loop: a new entity is appended only when its `user_id` is sent; fields of
an entity beyond the end are written out of range and change nothing the model keeps. `log` (the worlds
broadcast), `shown` (the timestamp a player draws), `brought` (what it drew when it connected) and `reused`
are history variables. `OldGames` is what players may bring from games on other servers; within the model
they bring whatever a slot was left with (`state` stays when its player leaves).

### ServerLoop, World, EntitiesPacket

`ServerLoop` has the time the loop has waited (`waited`), its age, and the events of each peer. Events
start the next wait; only a full wait lets the outer loop advance the world, look at the flag and the
age (`Quiet`, `src/server/GameServer.cpp` 282-379). The assignment `int working_flag = 0` of line 375
declares a variable of its own, so what ends the loop is the `break` (`Leaves`).

`World` has the bodies and one action for the four functions called in a tick (`Tick`, 284-287), each an
operator on the sequence of bodies: `update_users` 72-81, `update_AI` 83-132, `check_cond` 134-153,
`wall_check` 155-171. The loops are recursive functions over the indices, so later bodies see what
earlier ones left. A step of a body ends anywhere on a grid that reaches beyond the walls; `0 / 0`
gives the position `NaN`, with which every comparison is false. Between ticks players join and leave
(`Joins`, `Leaves`); `stray` is whether `last_target` still has the target of one that left, which then
moves the first body (finding 2). `Fed` and `Reborn` are the two ends of a meal.

`EntitiesPacket` writes one frame entity by entity (`EncodeEntity`, 298-362), encrypts and decrypts
its bytes (`Deliver`, `subscribe` in `src/common/Packet.h` 23-32) and reads it (`DecodeEntity`,
`Answer`, `src/client/GameClient.cpp` 310-379). The receiver's `BitVector` has whole bytes, so the bits
that fill the last one are read as one more entity with no field sent. A field, the header and the epoch
are functions from `1 .. Width` to bits; the places of bits in a vector count from 0, as in the code. The
sender compares floats with `!=`, so a NaN is sent every time and a zero that changed its sign is not:
`Unequal` is told by the sets `NaNs` and `Zeros`, and `DrawsTheWorld` leaves the sign of a zero open.

`subscribe` takes a rest of one to three bytes as a whole `int` and so reads and writes up to three bytes
behind the packet, in the sender's vector and in the receiver's packet. The language leaves that
undefined. What the build does is in the model: each end has bytes of its own behind the packet (`behind`,
any of `Behind`), which are read, xored with the masked key and written back. They are nobody's: a
`std::vector<char>` grows to a capacity that is a power of two, 8 at least for a frame, and an allocator hands
out packets in multiples of a word. `BehindKept` says that they come out as they were: the one bit of the key
that is left falls into the rest itself. On a platform that checks bounds the access would be caught.

### UdpChat, EnetChat

`UdpChat`: `socket` holds the datagrams that have arrived, `ready` whether the edge-triggered epoll
(`src/server/Server.cpp` 66-71) has a wake-up pending; `Receive` reads one datagram per wake-up
(135-165). `due`, `check_due` and the ages in `clients` count down and up with `Elapse`. `Check` is the
timer's handler (166-181), which reads the iterator after `erase` returned it: behind the last entry,
and the hash table's order makes any entry the last, the process may crash.

`EnetChat`: `BeginConnecting`, `Connected`, `NotConnected` are `src/client/EnetClient.cpp` 107-130,
`ConnectedLate` 101-103, `ReadInfo` 132-135; `ServerReceives` and `ServerLoses` are
`src/server/EnetServer.cpp` 104-122 with `add_new_client` 42-79.

## 3. What is checked

Every passing run is exhaustive for its constants. Each property has a mutant in `PROJECT.json`: a
plausible bug in one definition under which TLC finds the property violated.

| run | instance | properties |
|---|---|---|
| `two_rooms` | 2 clients, the agent, 2 rooms of different settings, 2 ports, 2 ids | `TypeOK`, `FrontExists`, `ServerMatchesRoom`, `ServersNotShared`, `MembersKnowServer`, `KeepsPromise` |
| `third_member` | 3 clients, 1 room for 3, start level 2, 2 ports, 3 ids, fairness | `FullRoomHasLaunch`, `RosterComplete`, `OwnIdentity`, `AddressWellFormed`, `ServerKeptWhileOccupied`, `FullRoomStarts` |
| `players` | 2 slots, 2 players besides an AI, 2 bodies, 3 ticks, 1 packet in flight each way, an earlier game larger than this one | `TypeOK`, `OwnEntity`, `NoOrphans`, `BaselineHonest`, `InSync`, `BaselineKept` |
| `reused_slot` (violation) | 2 slots, 1 body, more ticks | `NewEntitiesInFull` |
| `steered_ai` (violation) | 2 slots, 1 body | `AIsAreNotSteered` |
| `session` | the client, one other with 5 moves, 1 room for 2, 2 lines typed, fairness | `TypeOK`, `RosterAgrees`, `MembersPlay`, `RoomAgrees`, `GameAgrees`, `WaitsEnd` |
| `session_impatient` (violation) | the client and one other with 5 moves | `ConnectionAwaited` |
| `server_loop` | 1 player with bursts of up to 3 events, wait 3, lifetime 7, fairness | `WorldAdvances`, `TermObeyed`, `Retires` |
| `world` | 3 bodies of 2 sizes anywhere on a small field, any number of ticks | `TargetsRight`, `Walls`, `LostForEver` |
| `entities_packet` | snapshots of up to 3 of 4 entities with a NaN and zeros of both signs, fields of 8 bits, 3 keys | `DecodingInBounds`, `DrawsTheWorld`, `OnlyDifferences`, `BehindKept` |
| `udp_chat` | 2 clients, a socket of 2, expiry after 4 units, fairness | `TypeOK`, `PromptlyKept`, `DeadForgotten` |
| `enet_chat` | 3 clients, 2 addresses and 1 line each | `TypeOK`, `IntroducedOnce`, `RightName` |

What they show. `two_rooms`: with two launches pending in either order, rooms that empty and fill while
they wait, an agent that is late, lost or absent and a client in its slot, ports and rooms stay paired,
members know their server, and every step is one `Matchmaker` allows. `third_member`: with a room larger
than the start level, a join during a launch or after the start loses nobody's identity, roster entry or
launch; over several games the address always has one port, a spare port is never adopted by a running
game, and a room with enough members starts. `players`: entities are owned by one player each and
abandoned to the AIs, over slot reuse; one player's acknowledgements do not take away what another's
frames are built on. Whatever is lost, what a player draws is the world of the frame it applied but for
fields whose value came back, which have the value between, and beyond that world what is left of an
earlier game, entity for entity.
`session`: after every command, with packets of others coming between request and answer, the client's
room, list of others and game are those of the lobby, but for the four ways above; and no wait needs its
timeout. `world`: the search picks the closest body, the walls hold, and what
divides by zero is out of the game. `entities_packet`: a client that had drawn what it acknowledged draws
the world, for every way the frame can fall into bytes and ints, and what lies behind the packet is
untouched. `server_loop`, `udp_chat`, `enet_chat`:
see their conditions below.

### Bounds and why they are enough

- `MaxRooms`, `MaxId`, `LastPort` end room creation, connections and launches. Two rooms are the least
  in which ports can be mixed up; two ports for one room give a second game or a spare port.
  Symmetric clients beyond the third add no new role (joiner, member, leaver). The theorems of section 5
  remove these bounds for the properties they cover.
- A join that would start a room waits for a free port (`CanLaunch`): a bound on executions, not a
  guard of the code.
- `MaxTs`, `MaxEntities`, `MaxFlight` bound ticks, joins and packets in flight. With `MaxFlight`
  reached the oldest packet is lost, which the channel may do anyway. Three ticks are enough for a
  baseline two frames behind; two entities that are players' and an AI's differ in every case of the
  encoding. All properties of the run are theorems for every bound.
- `LargerGame` (the game runs) is one earlier game, with more entities than a game here can have and every
  field unlike those here; smaller ones are those left on the slots. `FreshSlots` (run `players`) cuts an
  execution where a slot is used again after an acknowledgement, as `InSync` says nothing of that slot, and
  where a second player joins one that brought entities: what one player brought is nothing to the
  server or to the other. The theorems need neither.
- `MaxCommands` and `MaxMoves` bound what the client and the others do in `Session`. Two lines are, for
  instance, join and leave, create and join, or join a room that is not there and join again; five moves
  are a whole visit: come, introduce oneself, create a room, join it, and leave it or vanish. So either of
  the two may make the room, the other may be there before, join during the game or leave first, and a
  word about it may cross any request. The theorems on `Session` remove both bounds; only `WaitsEnd`
  rests on them.
- `ServerLoop`: a wait of 3 units distinguishes events that come early, late and never; a lifetime of 7
  is more than two waits. `MaxBurst` is the number of events of a player before it pauses for more than
  a wait (see below).
- `World`: three bodies are the least with a prey, a danger and a bystander and with two meals in one
  tick. One coordinate of the grid is beyond the far wall, one at the near one. `Halves` ends
  executions in which a radius can no longer be halved exactly as often as a tick may need.
  The theorems hold for any number of bodies on any field.
- `EntitiesPacket`: fields are 8 bits wide instead of 32, whole bytes in either case, so the positions
  of all bits within bytes are those of the code. A frame is 16 bits and 4 to 36 per entity: it ends in
  the middle of a byte or at its end, and in every position of an int. The theorems hold for every width
  of whole bytes.
- `UdpChat`: `Half` is 2 units, so expiry needs two missed keep-alives; a socket of 2 is the least in
  which datagrams come together, and ages above the limit are not told apart.
- `EnetChat`: `MaxStarts`, `MaxLines` end the addresses and lines; three clients have a first, a middle
  and a last arrival; the second address reaches clients that are in the game already.
- The runs of `World`, `EntitiesPacket`, `ServerLoop` and `EnetChat` turn the deadlock check off: radii are
  used up, a frame is drawn, the server has left, everybody has gone.
- The game runs turn the deadlock check off: ticks and entities are used up and the packets in flight
  are received in the end. `Matchmaking` has the idle wait of the loop as an action instead.

### What the conditions mean

- `~launch_lost`: `start_room` does not look at the result of `enet_peer_send` and queues the room
  anyway. After a lost `CreateServer` the pairing is shifted for good, and a later port goes to a room it
  was not launched for. `ServerMatchesRoom` and `FullRoomStarts` are stated for executions without one;
  `FrontExists`, `ServersNotShared`, `AddressWellFormed` and `FullRoomHasLaunch` for all.
- `~strayed`: nothing stops a client from joining a second room. Once one did, `wait_room` makes up id 0
  for it and it is told of two games.
- `Between` (`InSync`): a field that left its value and came back since the baseline is not sent, and a
  player that applied a frame in between keeps the value in between. `InSync` allows a wrong field only if
  it had its present value before and the value drawn after that; every other field must be right in the
  same execution.
- `brought` (`InSync`): a client that played a larger game draws its surplus entities in the next one, for no
  frame names them. `InSync` allows exactly these entities, as they were, and nothing within the world.
- `reused` (`InSync`): on a slot with an earlier player's acknowledgement the differences are to a world the
  player never had (finding 1).
- `~gave_up`, `~crossed`, `missed`, `~left_early`, `~gone` (`SessionProperties`): see Session above.
- `~interrupted` (`EnetChat`): the client's wait for the server was ended by another packet or by time. Its
  name is sent to a peer that is not connected and is lost, and its first line becomes its name.
- `~lost /\ ~crowded` (`UdpChat`): every datagram arrived, and was read before the next one came. Without
  the second a running client can be erased although all its keep-alives arrived: one datagram is read
  per edge-triggered wake-up (`src/server/Server.cpp:142`), so one that came together with another stays
  in the socket until the next arrival, and each later one is read one too late. The client is refused
  from then on, for it introduces itself only once.
- `crashed` (`UdpChat`): `src/server/Server.cpp:175` reads the iterator that `erase` returned. It prints the
  name of the next client, which is still there, or dereferences `end()`.

### Fairness

`FairSpec` assumes weak fairness of `AgentLaunches` and `LobbyServesAgent` only. Both processes loop on
`enet_host_service`, and channel 0 is reliable: a packet that has arrived and stays at the head of its
channel is handled in the end, as long as the connection lasts. Nothing is assumed of clients, who may do nothing or move in and out
for ever. `FullRoomStarts` is conditioned on the agent being up at that time: when it goes away the
leads-to is discharged, as the code never reconnects.

`Session!FairSpec` has weak fairness of the two event loops reading what has arrived on channel 0, and
nothing of timeouts, of the player or of the others.

Reliable is not for ever: ENet gives a connection up when acknowledgements stay away too long. `Session`
leaves this out for a client that runs: `LobbyLosesMe` fires only for one that has ended. In the code the
lobby would forget such a client (`src/lobby/EnetLobby.cpp:236`), while the client prints an error
(`src/client/GameClient.cpp:392-394`) and goes on in a room that no longer has it. `RosterAgrees`,
`MembersPlay`, `RoomAgrees`, `GameAgrees` and `WaitsEnd` rest on a live client's link to the lobby never timing
out.

`ServerLoop!FairSpec` and `UdpChat!FairSpec` let time pass: weakly in the first; in the second, where a
player may keep a wake-up pending by typing, strongly, next to weak fairness of the server's handlers
and of the clients' timers. `WorldAdvances` and `TermObeyed` also rest on `MaxBurst`: a player that moves
the mouse without a pause of 100 ms, or several whose events leave none, hold the world up, and with it
the look at SIGTERM's flag. That is what the code does; no document says otherwise, so it is stated here
and not as a finding.

## 4. Findings

1. `reused_slot`. DISCONNECT (`src/server/GameServer.cpp:265`) leaves `last_ts`. The player that ENet
   puts on the slot next gets, from its first frame, differences to a snapshot of its predecessor; it
   has no entities to apply them to, and the client writes past the end of `state`.
2. `steered_ai`. DISCONNECT leaves `last_target`, and `update_users` reads `clients_entities[peer]` for
   every peer in it, which inserts 0 for one that has left: the first entity, an AI, is pulled to the
   last mouse position of the departed player.
3. `session_impatient`. "Wait up to 5 seconds for the connection attempt to succeed."
   (`src/client/GameClient.cpp:229`) is one call of `enet_host_service`: any event but CONNECT, a
   ClientAbout of the lobby for instance, ends the attempt at once, is lost, and the client leaves the
   room.

The same comment stands at `src/lobby/EnetLobby.cpp:277` over the wait for the agent, and the same holds
there: the CONNECT of a client that is quicker is taken for the agent's (`BootClient`). It gets no key and
no id, and the agent is greeted like a client.

## 5. What is proved

### Matchmaking

`MatchmakingProofs`, for every set of peers, start level, number of rooms, ids and
ports, and every set of settings:

| theorem | states |
|---|---|
| `Invariance` | `Spec => []IInv`, the inductive invariant |
| `Types` | `Spec => []TypeOK` |
| `FrontAlwaysExists` | `Spec => []FrontExists` |
| `ServersNeverShared` | `Spec => []ServersNotShared` |
| `PairingIsRight` | `Spec => []ServerMatchesRoom` |
| `AddressesWellFormed` | `Spec => []AddressWellFormed` |
| `ServerIsKept` | `Spec => ServerKeptWhileOccupied` |
| `FullRoomsHaveLaunches` | `Spec => []FullRoomHasLaunch` |
| `PromiseIsKept` | `Spec => KeepsPromise`: `Matchmaking` implements `Matchmaker` |
| `Identity` | `Spec => []IdInv`, the inductive invariant of the three below |
| `IdentityKept` | `Spec => []OwnIdentity` |
| `MembersInformed` | `Spec => []MembersKnowServer` |
| `RosterKept` | `Spec => []RosterComplete` |

Assumptions: `LobbyAssumption` (the peer slots are finitely many and the agent's is one of them,
`start_level` is positive, bounds are naturals) and `PortAssumption`. TLC evaluates both in every
matchmaking run.

The argument. `IInv` is `QueueInv /\ ClientInv`. No safety property about ports is inductive alone; what
makes them so are three facts about messages in transit:

- `Fresh`: ports on their way to the lobby are below `min_port` and pairwise different. Without it
  nothing says that the port a room gets is not another room's.
- `Paired`: unless a launch was lost, the n-th waiting room is the one the n-th message on
  its way back (first the ports, then the orders) is for. `ServerPort` and `CreateServer` each take one
  element from the front of the right queue, so the positions stay aligned; `start_room` adds at the end
  of both.
- `PortsLeft`: the bound of the model, so that every order in transit has a port.

`RoomOK` ties `server` to `game_start`. All handlers but `ServerPort` change rooms in one of a few ways,
and `Evolves(rooms, rooms')` is what they have in common: no room disappears or starts, one that keeps
running keeps its server, only an empty one stops. It is proved once for each way (`SettleEvolves`,
`EditOneEvolves`, `EraseEvolves`, `AppendEvolves`). `StepKinds` sorts every step of `Next` into five
kinds (`Quietly`, `Launching`, `Losing`, `TakingPort`, `Serving`) and each kind keeps `QueueInv` by a
lemma of its own. `ClientInv` is the types of the remaining variables; the handlers need from it that
`wait_room` holds ids.

`FullRoomHasLaunch` needs in addition that membership only grows by `Join` (`OnlyJoinsAdd`), that a room
with fewer members is not fuller (`FewerNotFull`, from finiteness), and that a room that runs or waits
does so after every step that leaves it a member (`LaunchedStays`).

`PromiseIsKept` is the refinement. Its proof shows that the initial states map to the initial
state of `Matchmaker`, and sorts the steps: handlers that move one peer are `Move`, `ServerPort` for a
room that waits is `Begin`, ports that are dropped because their room runs or the agent is lost are
`Waste`, everything else stutters. That the port of `Begin` was never used is `Fresh` of the inductive
invariant; that a game ends only with its last member is `Evolves`.

`Identity` is about who is who, for clients that never joined a second room (`~strayed`). What a client
knows of its room is not inductive: when a member leaves, the others strike its *id* from their lists,
which is harmless only if no other member has it. `OwnNumbers` says that the ids in use are below
`id_counter` and pairwise different, `Placed` that a greeted client is in `wait_room` or in one room,
under its own id, and `Knowing` that a member was told the server of its room and the ids of the others.
`PlacedStays` and `KnowingStays` are what a handler has to keep for a client it does not move; the
lemmas `JoinOrderly`, `LeaveOrderly` and `PortOrderly` treat those it does.

### Session

`SessionProofs`, for every set of peers, start level, number of rooms, ids and ports, every set of room
numbers a player may type, and every number of commands and moves (`LobbyAssumption`,
`SessionAssumption`, evaluated by TLC in the `session` runs):

| theorem | states |
|---|---|
| `TypesHold`, `SessionTypes` | `Spec => []TypeInv`, `Spec => []TypeOK` |
| `KeysAgree` | `Spec => []ReachInv`: who holds a key, and who can be heard |
| `RequestsBalance` | `Spec => []BalanceInv`: one request or answer at a time |
| `RoomsAgree` | `Spec => []RoomAgrees` |
| `BeliefsKept` | `Spec => []BeliefInv`, the inductive invariant of the three below |
| `GamesAgree` | `Spec => []GameAgrees` |
| `RoomPlays` | `Spec => []MembersPlay` |
| `RostersAgree` | `Spec => []RosterAgrees` |

The argument. What the client believes and what the lobby knows differ all the time, by the packets in
flight; the properties compare the two only when the client is idle or everything has been read. So
each conjunct of the invariant says what the difference may be, in terms of `inbox` and `outbox`.

- `TypeInv`: the lobby's tables (`LobbyInv`), the other clients (`TheirsInv`) and the client. `StackOK` is
  the shape of the stack: a command's wait lies on the main loop only, a wait for a game server is never
  under another wait; `LinkOK` ties the connection attempt to the wait for it.
- `ArrivedInv` is about keys: the client can have one only when the lobby encrypts, and a client that
  waits for a game server can read what the lobby sends (it read a `ServerInfo`).
- `AgreeInv`: as long as no wait ended before its answer (`Orderly`), the client is `AtRest`, or its one
  wait has its request on the way (`InFlight`), or its answer (`Replied`), or was never heard because
  the connection or the key is missing (`Unheard`). In the first, second and fourth case `room_id` and
  the lobby agree, and the third says what the answer will make of it (`Settles`). `Follows` is what a
  handler does to the one packet that counts in each direction, and is proved once for each way of
  changing a channel.
- `NewsInv` places news (`ClientAbout`, `DiscClientAbout`, `ServerInfo`) in the order of the channel:
  behind the answer that lets the client in, before the one that lets it out.
- `PlacedInv`: the others have different ids, and the tables hold them under these ids; without it the
  departure of one would take another off the list.
- `GameInv`: a client that plays, connects or is about to be told where, is in a running room, with that
  room's server. `PlayInv`: from `ServerInfo` to `GameInfo` something is always under way (`OnTheWay`): the
  packet, the wait for the connection or the key, the request to leave, the introduction, the answer.
- `RosterInv`: for every id, the last word about it in `inbox`, or else the list, says whether it is in
  the room (`Lists`, `Omits`). `ListsTail` and `OmitsTail` say that reading a packet keeps this, `LastWord`
  and `NothingAdded` that sending one makes it true.

`NextCases` sorts the steps into the client's, three of the lobby about this client, those about the
others and those that leave all of it alone. `LobbyNews` sums up what the lobby's steps are to the client:
nothing (`Passes`), a word about somebody (`Tells`), the start of the game (`Starting`), the way in
(`Admits`), being out (`Outside`). The last three conjuncts are proved from it and never look at a handler.

### Game

`GameProofs`, for every set of slots, player ids and bodies, every positive number of AIs, and every
number of ticks, entities and packets in flight (`GameAssumption`, `FlightAssumption`, evaluated by TLC
in every game run):

| theorem | states |
|---|---|
| `GameInvariance` | `Spec => []GameInv`, the inductive invariant |
| `GameTypes` | `Spec => []TypeOK` |
| `PlayersHaveEntities` | `Spec => []OwnEntity` |
| `EntitiesHavePlayers` | `Spec => []NoOrphans` |
| `BaselinesAreHonest` | `Spec => []BaselineHonest` |
| `BaselinesAreKept` | `Spec => BaselineKept` |
| `Synchrony` | `Spec => []SyncInv`, the inductive invariant of the next |
| `PlayersInSync` | `Spec => []InSync` |

The argument. `OwnEntity` is not inductive: a peer that never introduced itself, or left, reads as the
owner of entity 0 of the code (1 here), and DISCONNECT takes the id from whatever entity it reads. What
makes that harmless is `Owned`: the first entity is an AI from the start (`AICount` is positive), no
player ever gets it, since players are appended, and every made-up index is its index.
`OwnedBorn`, `OwnedLeft` and `OwnedMoved` are the three ways in which the world changes. `WireInv` says
that only past timestamps are in flight, so an acknowledgement is smaller than `current_ts` and the
cleanup keeps the snapshot being played. `HistoryInv` says that a stored past snapshot is the world that
was broadcast, or empty: every event writes to the present one only.

`PlayersInSync` needs, for every player, the whole way of a frame. That a wrong field had its present
value before the one drawn is not inductive: the present value is that of the next baseline, which may be
any frame the player applied and acknowledged. So `SyncInv` says of each of them (`Has`: what the server
counts as acknowledged, what is on its way to it, and the baselines of the frames in flight) that what the
player draws `Follows` it: every field is as in that world, or has a value that came `Later` than one
like that world's. The frames in flight are newer than what is drawn, in order, and `Built` in full or as
the difference to a world the player has; `Draws` is what it brought, or what `Shows` says.

`Advances` shows what such a frame makes of a state: a field is that of the new world, or is not sent
and stays, and then the baseline, which the state follows, has the new world's value. Hence `NextFrame`
(the state shows the new world), `ShownFollows` (it follows that world from then on) and `GoesOn` (it
still follows the earlier ones). `FirstFrame` is about a frame in full, over whatever the player brought, and
`DecodeDelta` is the decoding itself: entities the player lacks are sent with their `user_id` because worlds
only grow (`LogInv`), so they are appended, and those beyond the world are not named. `DrawsStays` and
`HoldsStays` lift all this over steps that only extend `log`. `reused` slots are left out: there the baseline
may be that of an earlier player (finding 1).

### ENet chat

`EnetChatProofs`, for every set of clients, number of addresses and lines (`ChatAssumption` of the module): `ChatTypes`
(`Spec => []TypeOK`), `NamedRight` (`Spec => []RightName`) and `MeetOnce` (`Spec => []IntroducedOnce`).

`NamesFirst` says that a client that was not interrupted has nothing before its name on the way to the
server, and is in the server's table under that name. `IntroducedOnce` rests on `OwnIds` (the server's
ids are different) and `AllMet`: of every other client in the server's table a client was told exactly
once, in its list or on the way, and never of itself. The lemmas on occurrences in a sequence
(`Once`, `Never`) do the counting, so no step needs the position of a packet in the channel.

### UDP chat

`UdpChatProofs`, for every set of clients, socket size and expiry time (`ChatAssumption` of the module): `UdpTypes`
(`Spec => []TypeOK`) and `RunningKept` (`Spec => []PromptlyKept`).

`KeptInv` holds under `Prompt`, no datagram lost and none that found another unread: the socket holds at
most one datagram, and the server is woken for it (`OneDatagram`); a client that has not started is not
known and has sent nothing (`Unheard`); a running one is in the table or its introduction is that datagram,
and its age in the table and what is left of its timer are half the limit together, or its keep-alive is
that datagram (`Remembered`, `OnTime`). Time passes only when the server has nothing to read, so the
check never finds a running client too old.

### World

`WorldProofs`, for every field, every grid, every set of radii and any number of bodies
(`WorldAssumption`, evaluated by TLC in the `world` run):

| theorem | states |
|---|---|
| `TypeInv` | `Spec => []TypeOK`: every body is the AI's or a player's, is at a place or at `NaN`, and has a size |
| `TheRightTargets` | `Spec => []TargetsRight` |
| `MassIsKept` | `Spec => MassKept`: eating leaves the sum of the radii as it was (no run checks it) |
| `WithinWalls` | `Spec => Walls` |
| `TheLostStayLost` | `Spec => LostForEver` |

The types are the whole inductive invariant: the four properties are about what one tick, or the search
in it, makes of any world. The work is in the loops. Each is a recursive function over the indices, and
the induction theorems of the library take the predicate as an operator, which no installed prover can
instantiate. `Recursion` therefore states induction for sets: a set of naturals that is not empty has a
least element (`Least`, from the well-foundedness of `<`), so a set that has 0, and with every number the
next, has all up to `N` (`Induction`). `Iteration` builds, for any sequence of functions on a set `V`, the
function that runs them one after the other, which is how a recursive definition is shown to have the
value its text says; `Follows` says that any function with that recursion is this one, and `Closed` that
what every step keeps, the loop keeps.

- `Moved(w)` is what `update_users` and `update_AI` leave alone, `Eaten(w)` what `check_cond` does: the
  radii sum up to the same, and who is lost stays where and as big as it was. Each is closed under one
  step, so under the loop (`UsersMove`, `AIsMove`, `AllMeet`), and `TickFacts` puts the four together.
- `Total` is a sum over the bodies. `SumsMoved` compares the partial sums of two worlds that differ by
  one meal (`Exchanged`): they are equal before both bodies, differ by what one has lost or gained
  between them, and are equal behind both.
- `Found(w, i, n, s)` is the invariant of the inner loop of `update_AI`: among the first `n` bodies `s` has the
  closest of the prey and the closest of the danger (`Nearest`), or body `i` itself at the greatest
  distance when there is none. `SeekStep` is its step, `TargetFacts` what the comparison of the two distances
  then decides.
- `ClampFacts` is why the second correction of a wall does not undo the first: a body as wide as the
  field at most has room for both.

### EntitiesPacket

`EntitiesPacketProofs`, for every `Width` of whole bytes, every header, key and epoch, any number of entities
with any fields, and any sets of NaNs and zeros without a common member (`PacketAssumption`,
evaluated by TLC in the `entities_packet` run):

| theorem | states |
|---|---|
| `PacketRead` | `Spec => []IInv`, the inductive invariant of those below |
| `DecodingStaysIn` | `Spec => []DecodingInBounds` |
| `RearIsKept` | `Spec => BehindKept` |
| `WorldDrawn` | `Spec => []DrawsTheWorld` |
| `DifferencesOnly` | `Spec => []OnlyDifferences` |

The argument. Sender and receiver share no position: the receiver finds the fields only because each
takes as many bits as was written for it. `Offsets(o)` makes these positions explicit, one for each
entity, the first after header and epoch; `OffsetsExist` is `Iteration`. `IInv` says that there are such
positions, and for each phase what has been done up to them.

- Encoding: the vector is `Filled` (so many bits, and the rest of the last byte is 0) and holds the entities
  before `ind` at their positions (`EntityAt`). `PushBit` is one `push_back`, `PushValue` the loop over the bits of
  a field; neither changes an earlier bit (`Agree`), so what is written stays (`FieldKept`, `EntityKept`).
- `Deliver`: on the packet `subscribe` is a permutation of the bits' values that depends on the number of
  bytes only (`Cipher`), and twice the same `Xor` is none, with the mask for the rest of an int as for the
  whole ones (`DecryptedBack`). Behind the packet no bit takes part (`BehindUnmasked`), so the packet comes
  out `Encrypted` and its `Rear` as it was (`SubscribeMemory`). The copy has the same bytes and whole ones
  only (`Received`). Of the bytes behind nothing is assumed but that they are there.
- Decoding: the receiver is at an entity's position, at what fills the last byte, or past that (`At`). An
  entity is four flags and whole bytes, so all ends are multiples of four bits (`Ends`), and what fills the
  last byte is nothing or exactly four zeros (`Rest`): one entity of which nothing is sent
  (`ReadNothing`). With `Width` no multiple of 8 a client would read on past the end.
- `Caught` says that `state` has the differences of the entities read so far and is as before in the rest
  (`Mixed`), and how long it is (`Spans`). It is claimed only for a client that has at least as many entities
  as it acknowledged (`Remembers`), as `DecodingInBounds` and `OnlyDifferences` are; finding 1 is one that has
  not. An entity past the end of `state` is past that of `base`, so all of it was sent, `user_id` included,
  and it is appended before it is written (`Begin`).

### Only model-checked

- The liveness properties `FullRoomStarts`, `WaitsEnd`, `WorldAdvances`, `TermObeyed`, `Retires` and
  `DeadForgotten`: fairness and ENABLED are out of the prover's reach.
- The three properties that the code violates (section 4), by their counterexamples.

Every safety property of the passing runs, invariant or action property, is a theorem.

## 6. What is not modelled

- The values of keys in `Matchmaking` and `Session`: only whether both ends have one. `EntitiesPacket` has
  them bit by bit.
- The contents of the rooms list, which is copied into an array of 256: fewer rooms are assumed.
- SIGTERM and exit of the lobby and the agent, which have no state to leave behind; whether a launched
  process comes up (in `Session` its connection may be refused at any time).
- The clients of `Matchmaking` in full: `GameClient` is checked against the lobby one at a time, beside
  arbitrary other clients (`Session`); several full ones are out of TLC's reach.
- Chat messages, names, drawing, argument parsing: no state that a property is about.
- Floating point: `World` is exact, a step ends anywhere on its grid, and rounding cannot make a body stick
  out of a wall or a radius vanish there.
- Bodies and bits in one model: `Game` has opaque bodies that move anywhere, which includes what `World`
  does, and frames as sets of fields, which `EntitiesPacket` shows to be transported as they are.
- The lobby of the ENet chat, which is not in the repository.
- A member that disconnects is not announced by the lobby, so rosters may hold stale entries:
  `RosterComplete` speaks of missing entries only.

## 7. Plan

What section 2 plans is built, and what a run checks and the provers can express is proved. Left, in
the order of what they would add:

1. Several players in `ServerLoop`, with the condition on their pauses under which the world goes on.
2. Hazards without a property that a model could have one for: the snapshots that are never dropped again
   once a player left with the oldest acknowledgement, entities that overtake `GameInfo`, and a client whose
   link to the lobby times out while it runs, which needs `LobbyLosesMe` for a live client in `Session`.
3. The other hazards without a property are ones where the code does go wrong and no document says
   otherwise: a client in two rooms, a late answer, members that vanish, players that never pause, datagrams
   that come together, an erased entry that is read, a name sent too early, and more rooms than a list
   holds. `PROJECT.json` says of each which property leaves it out.
