-------------------------- MODULE MatchmakingProofs --------------------------
(***************************************************************************)
(* Proofs about Matchmaking for every set of peers, every number of rooms, *)
(* ids and ports, and every start level.                                   *)
(***************************************************************************)
EXTENDS MatchmakingProperties, FiniteSetTheorems, TLAPS

-----------------------------------------------------------------------------
(***************************************************************************)
(* Tables.                                                                 *)
(***************************************************************************)

\* Storing an entry (operator[] on the left of an assignment) keeps a table a
\* table.
LEMMA PutTable ==
    ASSUME NEW K, NEW V, NEW m \in Tables(K, V), NEW k \in K, NEW v \in V
    PROVE  Put(m, k, v) \in Tables(K, V) /\ DOMAIN Put(m, k, v) = DOMAIN m \cup {k}
  <1>1. PICK D \in SUBSET K : m \in [D -> V]
    BY DEF Tables
  <1>2. DOMAIN Put(m, k, v) = D \cup {k}
    BY <1>1 DEF Put
  <1>3. Put(m, k, v) \in [D \cup {k} -> V]
    BY <1>1 DEF Put
  <1> QED
    BY <1>1, <1>2, <1>3 DEF Tables

\* So does erasing one.
LEMMA EraseTable ==
    ASSUME NEW K, NEW V, NEW m \in Tables(K, V), NEW k
    PROVE  Erase(m, k) \in Tables(K, V) /\ DOMAIN Erase(m, k) = DOMAIN m \ {k}
  <1>1. PICK D \in SUBSET K : m \in [D -> V]
    BY DEF Tables
  <1>2. Erase(m, k) \in [D \ {k} -> V]
    BY <1>1 DEF Erase
  <1> QED
    BY <1>1, <1>2 DEF Tables, Erase

\* The value read is one of the table or the default.
LEMMA AtTable ==
    ASSUME NEW K, NEW V, NEW m \in Tables(K, V), NEW k, NEW d \in V
    PROVE  At(m, k, d) \in V
  BY DEF Tables, At

LEMMA EmptyTable ==
    ASSUME NEW K, NEW V
    PROVE  NoEntries \in Tables(K, V)
  <1>1. NoEntries \in [{} -> V]
    BY DEF NoEntries
  <1> QED
    BY <1>1 DEF Tables

-----------------------------------------------------------------------------
(***************************************************************************)
(* Rooms.                                                                  *)
(***************************************************************************)
RoomOK(room) ==
    /\ room \in RoomType
    /\ ~room.game_start => room.server = <<>>
    /\ room.game_start => Len(room.server) = 1

\* What every handler but ServerPort does to the rooms: none disappears, none
\* is started, one that stays started keeps its server, and only a room
\* without members is stopped.
Evolves(rs, rt) ==
    /\ rt \in Seq(RoomType)
    /\ Len(rs) <= Len(rt) /\ Len(rt) <= MaxRooms
    /\ \A r \in 1 .. Len(rt) :
         /\ RoomOK(rt[r])
         /\ rt[r].game_start => /\ r \in 1 .. Len(rs) /\ rs[r].game_start
                                /\ rt[r].server = rs[r].server
    /\ \A r \in 1 .. Len(rs) :
         /\ rt[r].settings = rs[r].settings
         /\ rs[r].game_start /\ DOMAIN rt[r].clients # {} => rt[r].game_start

\* Writing the two fields that say where a room's game runs.
LEMMA WriteServer ==
    ASSUME NEW room \in RoomType, NEW b \in BOOLEAN, NEW w \in Seq(Ports)
    PROVE  LET new == WithServer(room, b, w)
           IN  /\ new \in RoomType /\ new.game_start = b /\ new.server = w
               /\ new.settings = room.settings /\ new.clients = room.clients
               /\ new.max_clients_count = room.max_clients_count
  BY DEF RoomType, WithServer

\* Writing the members of a room.
LEMMA WriteClients ==
    ASSUME NEW room \in RoomType, NEW c \in Tables(Client, Ids)
    PROVE  LET new == WithClients(room, c)
           IN  /\ new \in RoomType /\ new.clients = c
               /\ new.game_start = room.game_start /\ new.server = room.server
               /\ new.settings = room.settings
               /\ new.max_clients_count = room.max_clients_count
  BY DEF RoomType, WithClients

\* The tail of process_event, for one room.
LEMMA SettleRoom ==
    ASSUME NEW rs \in Seq(RoomType), NEW r \in 1 .. Len(rs), RoomOK(rs[r])
    PROVE  LET new == Settle(rs)[r]
           IN  /\ RoomOK(new)
               /\ new.settings = rs[r].settings /\ new.clients = rs[r].clients
               /\ new.game_start => rs[r].game_start /\ new.server = rs[r].server
               /\ rs[r].game_start /\ DOMAIN rs[r].clients # {} => new.game_start
  <1>1. rs[r] \in RoomType /\ r \in DOMAIN rs
    OBVIOUS
  <1>2. CASE DOMAIN rs[r].clients = {}
    <2> DEFINE new == WithServer(rs[r], FALSE, <<>>)
    <2>1. Settle(rs)[r] = new
      BY <1>1, <1>2 DEF Settle
    <2>2. <<>> \in Seq(Ports) /\ FALSE \in BOOLEAN
      OBVIOUS
    <2>3. /\ new \in RoomType /\ new.game_start = FALSE /\ new.server = <<>>
          /\ new.settings = rs[r].settings /\ new.clients = rs[r].clients
      BY <1>1, <2>2, WriteServer
    <2> HIDE DEF new
    <2> QED
      BY <1>2, <2>1, <2>3 DEF RoomOK
  <1>3. CASE DOMAIN rs[r].clients # {}
    BY <1>1, <1>3 DEF Settle
  <1> QED
    BY <1>2, <1>3

\* A handler that edits the members of rooms, or adds rooms that have not
\* started, and then runs the tail.
LEMMA EditEvolves ==
    ASSUME NEW rs \in Seq(RoomType), NEW rt \in Seq(RoomType),
           Len(rs) <= Len(rt), Len(rt) <= MaxRooms,
           \A r \in 1 .. Len(rt) : RoomOK(rt[r]),
           \A r \in 1 .. Len(rt) : rt[r].game_start => r \in 1 .. Len(rs),
           \A r \in 1 .. Len(rs) : /\ rt[r].game_start = rs[r].game_start
                                   /\ rt[r].server = rs[r].server
                                   /\ rt[r].settings = rs[r].settings
    PROVE  Evolves(rs, Settle(rt))
  <1> DEFINE ru == Settle(rt)
  <1>1. DOMAIN rt = 1 .. Len(rt) /\ Len(rt) \in Nat /\ Len(rs) \in Nat
    OBVIOUS
  <1>2. ASSUME NEW r \in 1 .. Len(rt)
        PROVE  /\ RoomOK(ru[r])
               /\ ru[r].settings = rt[r].settings /\ ru[r].clients = rt[r].clients
               /\ ru[r].game_start => rt[r].game_start /\ ru[r].server = rt[r].server
               /\ rt[r].game_start /\ DOMAIN rt[r].clients # {} => ru[r].game_start
    BY SettleRoom
  <1>3. ru = [r \in 1 .. Len(rt) |-> ru[r]]
    BY <1>1 DEF Settle
  <1> HIDE DEF ru
  <1>4. ru \in [1 .. Len(rt) -> RoomType]
    BY <1>2, <1>3 DEF RoomOK
  <1>5. ru \in Seq(RoomType) /\ Len(ru) = Len(rt)
    BY <1>1, <1>4
  <1>6. \A r \in 1 .. Len(rs) : r \in 1 .. Len(rt)
    BY <1>1
  <1>7. Evolves(rs, ru)
    BY <1>2, <1>5, <1>6 DEF Evolves
  <1> QED
    BY <1>7 DEF ru

\* The tail alone.
LEMMA SettleEvolves ==
    ASSUME NEW rs \in Seq(RoomType), Len(rs) <= MaxRooms,
           \A r \in 1 .. Len(rs) : RoomOK(rs[r])
    PROVE  Evolves(rs, Settle(rs))
  <1>1. Len(rs) <= Len(rs)
    OBVIOUS
  <1> QED
    BY <1>1, EditEvolves

\* One room's members change.
LEMMA EditOneEvolves ==
    ASSUME NEW rs \in Seq(RoomType), Len(rs) <= MaxRooms,
           \A r \in 1 .. Len(rs) : RoomOK(rs[r]),
           NEW r \in 1 .. Len(rs), NEW c \in Tables(Client, Ids)
    PROVE  Evolves(rs, Settle([rs EXCEPT ![r] = WithClients(@, c)]))
  <1> DEFINE rt == [rs EXCEPT ![r] = WithClients(@, c)]
             new == WithClients(rs[r], c)
  <1>1. rs[r] \in RoomType
    OBVIOUS
  <1>2. /\ new \in RoomType /\ new.game_start = rs[r].game_start
        /\ new.server = rs[r].server /\ new.settings = rs[r].settings
    BY <1>1, WriteClients
  <1>3. rt = [rs EXCEPT ![r] = new]
    OBVIOUS
  <1> HIDE DEF new
  <1>4. rt \in Seq(RoomType) /\ Len(rt) = Len(rs)
    BY <1>2, <1>3
  <1>5. ASSUME NEW q \in 1 .. Len(rs)
        PROVE  rt[q] = IF q = r THEN new ELSE rs[q]
    BY <1>3
  <1> HIDE DEF rt
  <1>6. \A q \in 1 .. Len(rs) : /\ rt[q].game_start = rs[q].game_start
                                /\ rt[q].server = rs[q].server
                                /\ rt[q].settings = rs[q].settings
    BY <1>2, <1>5
  <1>7. \A q \in 1 .. Len(rt) : q \in 1 .. Len(rs) /\ RoomOK(rt[q])
    BY <1>2, <1>4, <1>5, <1>6 DEF RoomOK
  <1>8. Len(rs) <= Len(rt) /\ Len(rt) <= MaxRooms
    BY <1>4
  <1>9. Evolves(rs, Settle(rt))
    BY <1>4, <1>6, <1>7, <1>8, EditEvolves
  <1> QED
    BY <1>9 DEF rt

\* A peer is erased from every room.
LEMMA EraseEvolves ==
    ASSUME NEW rs \in Seq(RoomType), Len(rs) <= MaxRooms,
           \A r \in 1 .. Len(rs) : RoomOK(rs[r]), NEW p
    PROVE  Evolves(rs, Settle([r \in DOMAIN rs |->
                                 WithClients(rs[r], Erase(rs[r].clients, p))]))
  <1> DEFINE rt == [r \in DOMAIN rs |-> WithClients(rs[r], Erase(rs[r].clients, p))]
  <1>1. DOMAIN rs = 1 .. Len(rs) /\ Len(rs) \in Nat
    OBVIOUS
  <1>2. ASSUME NEW r \in 1 .. Len(rs)
        PROVE  /\ rt[r] \in RoomType /\ rt[r].game_start = rs[r].game_start
               /\ rt[r].server = rs[r].server /\ rt[r].settings = rs[r].settings
    <2> DEFINE new == WithClients(rs[r], Erase(rs[r].clients, p))
    <2>1. rs[r] \in RoomType
      OBVIOUS
    <2>2. rs[r].clients \in Tables(Client, Ids)
      BY <2>1 DEF RoomType
    <2>3. Erase(rs[r].clients, p) \in Tables(Client, Ids)
      BY <2>2, EraseTable
    <2>4. /\ new \in RoomType /\ new.game_start = rs[r].game_start
          /\ new.server = rs[r].server /\ new.settings = rs[r].settings
      BY <2>1, <2>3, WriteClients
    <2>5. rt[r] = new
      BY <1>1
    <2> QED
      BY <2>4, <2>5
  <1>3. rt \in [1 .. Len(rs) -> RoomType]
    BY <1>1, <1>2
  <1> HIDE DEF rt
  <1>4. rt \in Seq(RoomType) /\ Len(rt) = Len(rs)
    BY <1>1, <1>3
  <1>5. \A q \in 1 .. Len(rt) : q \in 1 .. Len(rs) /\ RoomOK(rt[q])
    BY <1>2, <1>4 DEF RoomOK
  <1>6. Len(rs) <= Len(rt) /\ Len(rt) <= MaxRooms
    BY <1>4
  <1>7. Evolves(rs, Settle(rt))
    BY <1>2, <1>4, <1>5, <1>6, EditEvolves
  <1> QED
    BY <1>7 DEF rt

\* A new room.
LEMMA AppendEvolves ==
    ASSUME NEW rs \in Seq(RoomType), Len(rs) < MaxRooms,
           \A r \in 1 .. Len(rs) : RoomOK(rs[r]),
           NEW max \in Capacity, NEW s \in Settings
    PROVE  Evolves(rs, Settle(Append(rs, NewRoom(max, s))))
  <1> DEFINE rt == Append(rs, NewRoom(max, s))
  <1>1. NewRoom(max, s) \in RoomType
    <2>1. NoEntries \in Tables(Client, Ids)
      BY EmptyTable
    <2>2. <<>> \in Seq(Ports)
      OBVIOUS
    <2> QED
      BY <2>1, <2>2 DEF NewRoom, RoomType
  <1>2. NewRoom(max, s).server = <<>> /\ ~NewRoom(max, s).game_start
    BY DEF NewRoom
  <1>3. RoomOK(NewRoom(max, s))
    BY <1>1, <1>2 DEF RoomOK
  <1>4. /\ rt \in Seq(RoomType) /\ Len(rt) = Len(rs) + 1 /\ Len(rs) \in Nat
        /\ \A r \in 1 .. Len(rs) : rt[r] = rs[r]
        /\ rt[Len(rs) + 1] = NewRoom(max, s)
    BY <1>1
  <1>5. MaxRooms \in Nat
    BY LobbyAssumption
  <1> HIDE DEF rt
  <1>6. \A r \in 1 .. Len(rt) : r \in 1 .. Len(rs) \/ r = Len(rs) + 1
    BY <1>4
  <1>7. \A r \in 1 .. Len(rt) : RoomOK(rt[r])
    BY <1>3, <1>4, <1>6
  <1>8. \A r \in 1 .. Len(rt) : rt[r].game_start => r \in 1 .. Len(rs)
    BY <1>2, <1>4, <1>6
  <1>9. Len(rs) <= Len(rt) /\ Len(rt) <= MaxRooms
    BY <1>4, <1>5
  <1>10. Evolves(rs, Settle(rt))
    BY <1>4, <1>7, <1>8, <1>9, EditEvolves
  <1> QED
    BY <1>10 DEF rt

-----------------------------------------------------------------------------
(***************************************************************************)
(* The inductive invariant of the rooms, the queue of waiting rooms, the   *)
(* two channels and the agent.                                             *)
(***************************************************************************)
LaunchOrder == [header : {"CreateServer"}, settings : Settings]

RoomsOK ==
    /\ rooms \in Seq(RoomType) /\ Len(rooms) <= MaxRooms
    /\ \A r \in 1 .. Len(rooms) : RoomOK(rooms[r])

QueueTypes ==
    /\ rooms_wait \in Seq(1 .. Len(rooms))
    /\ toAgent \in Seq(LaunchOrder)
    /\ fromAgent \in Seq(Ports)
    /\ launch_lost \in BOOLEAN
    /\ min_port \in Nat
    /\ servers \in [FirstPort .. min_port - 1 -> Settings]

\* The agent has a port for every order on its way.
PortsLeft ==
    /\ FirstPort <= min_port
    /\ min_port + Len(toAgent) <= LastPort

\* The ports on their way to the lobby are launched ones, each sent once.
Fresh ==
    /\ \A n \in 1 .. Len(fromAgent) : fromAgent[n] < min_port
    /\ \A n, k \in 1 .. Len(fromAgent) : n # k => fromAgent[n] # fromAgent[k]

\* Unless an order was lost, the n-th room in the queue is the one the n-th
\* port, or the order as far behind the ports, was meant for.
Paired ==
    ~launch_lost =>
        /\ Len(rooms_wait) = Len(fromAgent) + Len(toAgent)
        /\ \A n \in 1 .. Len(fromAgent) :
             servers[fromAgent[n]] = rooms[rooms_wait[n]].settings
        /\ \A n \in 1 .. Len(toAgent) :
             toAgent[n].settings = rooms[rooms_wait[Len(fromAgent) + n]].settings

QueueInv ==
    /\ RoomsOK
    /\ QueueTypes
    /\ PortsLeft
    /\ Fresh
    /\ Paired
    /\ FrontExists
    /\ ServersNotShared
    /\ ServerMatchesRoom

\* Sequences over a set are sequences over a larger one.
LEMMA SeqMonotone ==
    ASSUME NEW S, NEW T, S \subseteq T, NEW s \in Seq(S)
    PROVE  s \in Seq(T)
  <1>1. s \in [1 .. Len(s) -> S] /\ Len(s) \in Nat
    OBVIOUS
  <1>2. s \in [1 .. Len(s) -> T]
    BY <1>1
  <1> QED
    BY <1>1, <1>2

\* Functions on 1 .. k are sequences.
LEMMA SeqOf ==
    ASSUME NEW T, NEW k \in Nat, NEW s \in [1 .. k -> T]
    PROVE  s \in Seq(T)
  OBVIOUS

\* The constants.
LEMMA Constants ==
    /\ FirstPort \in Nat /\ LastPort \in Nat /\ FirstPort <= LastPort
    /\ MaxRooms \in Nat /\ MaxId \in Nat
    /\ NoId \in Ids /\ DefaultId \in Ids
  BY LobbyAssumption, PortAssumption DEF NoId, DefaultId, Ids

queueVars == <<rooms_wait, toAgent, fromAgent, launch_lost, min_port, servers>>

\* What a step owes to the rooms and to the ports on their way, when no port
\* is added.
LEMMA RoomsStep ==
    ASSUME QueueInv, Evolves(rooms, rooms'),
           UNCHANGED <<min_port, servers>>, launch_lost => launch_lost',
           fromAgent' \in {fromAgent, <<>>}
    PROVE  /\ RoomsOK' /\ Fresh' /\ ServersNotShared' /\ ServerMatchesRoom'
           /\ 1 .. Len(rooms) \subseteq 1 .. Len(rooms')
           /\ \A r \in 1 .. Len(rooms) : rooms'[r].settings = rooms[r].settings
  <1>1. /\ rooms \in Seq(RoomType) /\ rooms' \in Seq(RoomType)
        /\ Len(rooms) \in Nat /\ Len(rooms') \in Nat
        /\ Len(rooms) <= Len(rooms')
    BY DEF QueueInv, RoomsOK, Evolves
  <1>2. RoomsOK'
    BY DEF Evolves, RoomsOK
  <1>3. 1 .. Len(rooms) \subseteq 1 .. Len(rooms')
    BY <1>1
  <1>4. \A r \in 1 .. Len(rooms) : rooms'[r].settings = rooms[r].settings
    BY DEF Evolves
  <1>5. \A r \in 1 .. Len(rooms') : rooms'[r].game_start =>
          /\ r \in 1 .. Len(rooms) /\ rooms[r].game_start
          /\ rooms'[r].server = rooms[r].server
    BY DEF Evolves
  <1>6. DOMAIN rooms = 1 .. Len(rooms) /\ DOMAIN rooms' = 1 .. Len(rooms')
    BY <1>1
  <1>7. /\ \A n \in 1 .. Len(fromAgent') :
             n \in 1 .. Len(fromAgent) /\ fromAgent'[n] = fromAgent[n]
        /\ DOMAIN fromAgent' \subseteq DOMAIN fromAgent
        /\ \A n \in DOMAIN fromAgent' : fromAgent'[n] = fromAgent[n]
    OBVIOUS
  <1>8. Fresh'
    BY <1>7 DEF QueueInv, Fresh
  <1>9. ServersNotShared'
    BY <1>5, <1>6, <1>7 DEF QueueInv, ServersNotShared, Rooms
  <1>10. ServerMatchesRoom'
    BY <1>4, <1>5, <1>6 DEF QueueInv, ServerMatchesRoom, Rooms
  <1> QED
    BY <1>2, <1>3, <1>4, <1>8, <1>9, <1>10

\* A step that leaves the queues alone.
LEMMA QuietStep ==
    ASSUME QueueInv, Evolves(rooms, rooms'), UNCHANGED queueVars
    PROVE  QueueInv'
  <1> USE DEF queueVars
  <1>1. /\ RoomsOK' /\ Fresh' /\ ServersNotShared' /\ ServerMatchesRoom'
        /\ 1 .. Len(rooms) \subseteq 1 .. Len(rooms')
        /\ \A r \in 1 .. Len(rooms) : rooms'[r].settings = rooms[r].settings
    BY RoomsStep
  <1>2. QueueTypes'
    <2>1. rooms_wait \in Seq(1 .. Len(rooms))
      BY DEF QueueInv, QueueTypes
    <2>2. rooms_wait \in Seq(1 .. Len(rooms'))
      BY <1>1, <2>1, SeqMonotone
    <2> QED
      BY <2>2 DEF QueueInv, QueueTypes
  <1>3. PortsLeft' /\ FrontExists'
    BY DEF QueueInv, PortsLeft, FrontExists
  <1>4. Paired'
    <2> SUFFICES ASSUME ~launch_lost
                 PROVE  Paired'
      BY DEF Paired
    <2>1. /\ rooms_wait \in Seq(1 .. Len(rooms))
          /\ toAgent \in Seq(LaunchOrder) /\ fromAgent \in Seq(Ports)
      BY DEF QueueInv, QueueTypes
    <2>2. Len(rooms_wait) = Len(fromAgent) + Len(toAgent)
      BY DEF QueueInv, Paired
    <2>3. \A n \in 1 .. Len(rooms_wait) : rooms_wait[n] \in 1 .. Len(rooms)
      BY <2>1
    <2>4. \A n \in 1 .. Len(rooms_wait) :
            rooms'[rooms_wait[n]].settings = rooms[rooms_wait[n]].settings
      BY <2>3, <1>1
    <2>5. /\ \A n \in 1 .. Len(fromAgent) : n \in 1 .. Len(rooms_wait)
          /\ \A n \in 1 .. Len(toAgent) : Len(fromAgent) + n \in 1 .. Len(rooms_wait)
      BY <2>1, <2>2
    <2> QED
      BY <2>2, <2>4, <2>5 DEF QueueInv, Paired
  <1> QED
    BY <1>1, <1>2, <1>3, <1>4 DEF QueueInv

\* start_room: a room joins the queue, and its order the channel if the agent
\* is there.
LEMMA LaunchStep ==
    ASSUME QueueInv, Evolves(rooms, rooms'), NEW r \in 1 .. Len(rooms), NEW packets,
           start_room(r, packets), CanLaunch, UNCHANGED <<min_port, servers>>
    PROVE  QueueInv'
  <1> DEFINE order == CreateServerFor(r)
  <1>1. /\ rooms_wait' = Append(rooms_wait, r)
        /\ \/ toAgent' = Append(toAgent, order) /\ launch_lost' = launch_lost
           \/ toAgent' = toAgent /\ launch_lost' = TRUE
        /\ UNCHANGED fromAgent
    BY DEF start_room, Launch, QueueInv, QueueTypes
  <1>2. /\ rooms_wait \in Seq(1 .. Len(rooms)) /\ toAgent \in Seq(LaunchOrder)
        /\ fromAgent \in Seq(Ports) /\ min_port \in Nat /\ LastPort \in Nat
        /\ launch_lost \in BOOLEAN
    BY Constants DEF QueueInv, QueueTypes
  <1>3. /\ RoomsOK' /\ Fresh' /\ ServersNotShared' /\ ServerMatchesRoom'
        /\ 1 .. Len(rooms) \subseteq 1 .. Len(rooms')
        /\ \A q \in 1 .. Len(rooms) : rooms'[q].settings = rooms[q].settings
    BY <1>1, RoomsStep
  <1>4. order \in LaunchOrder /\ order.settings = rooms[r].settings
    <2>1. rooms[r] \in RoomType
      BY DEF QueueInv, RoomsOK
    <2> QED
      BY <2>1 DEF CreateServerFor, LaunchOrder, RoomType
  <1> HIDE DEF order
  <1>5. rooms_wait' \in Seq(1 .. Len(rooms)) /\ Len(rooms_wait') = Len(rooms_wait) + 1
    BY <1>1, <1>2
  <1>6. /\ toAgent' \in Seq(LaunchOrder)
        /\ Len(toAgent') <= Len(toAgent) + 1
        /\ ~launch_lost' => toAgent' = Append(toAgent, order)
    <2>1. CASE toAgent' = Append(toAgent, order) /\ launch_lost' = launch_lost
      <3>1. /\ Append(toAgent, order) \in Seq(LaunchOrder)
            /\ Len(Append(toAgent, order)) = Len(toAgent) + 1
        BY <1>2, <1>4
      <3> QED
        BY <1>2, <2>1, <3>1
    <2>2. CASE toAgent' = toAgent /\ launch_lost' = TRUE
      <3>1. Len(toAgent) <= Len(toAgent) + 1
        BY <1>2
      <3> QED
        BY <1>2, <2>2, <3>1
    <2> QED
      BY <1>1, <2>1, <2>2
  <1>7. QueueTypes'
    <2>1. rooms_wait' \in Seq(1 .. Len(rooms'))
      BY <1>3, <1>5, SeqMonotone
    <2> QED
      BY <1>1, <1>6, <2>1 DEF QueueInv, QueueTypes
  <1>8. PortsLeft' /\ FrontExists'
    BY <1>1, <1>2, <1>5, <1>6 DEF QueueInv, PortsLeft, FrontExists, CanLaunch
  <1>9. Paired'
    <2> SUFFICES ASSUME ~launch_lost'
                 PROVE  Paired'
      BY DEF Paired
    <2>1. ~launch_lost /\ toAgent' = Append(toAgent, order)
      BY <1>1, <1>6
    <2>2. /\ Len(rooms_wait) = Len(fromAgent) + Len(toAgent)
          /\ Len(rooms_wait') = Len(fromAgent') + Len(toAgent')
      BY <1>1, <1>2, <1>5, <2>1 DEF QueueInv, Paired
    <2>3. \A n \in 1 .. Len(rooms_wait) :
            /\ rooms_wait'[n] = rooms_wait[n]
            /\ rooms'[rooms_wait'[n]].settings = rooms[rooms_wait[n]].settings
      BY <1>1, <1>2, <1>3, SMTT(30)
    <2>4. ASSUME NEW n \in 1 .. Len(fromAgent')
          PROVE  servers'[fromAgent'[n]] = rooms'[rooms_wait'[n]].settings
      <3>1. n \in 1 .. Len(rooms_wait) /\ n \in 1 .. Len(fromAgent)
        BY <1>1, <1>2, <2>2
      <3> QED
        BY <1>1, <2>1, <2>3, <3>1 DEF QueueInv, Paired
    <2>5. ASSUME NEW n \in 1 .. Len(toAgent')
          PROVE  toAgent'[n].settings = rooms'[rooms_wait'[Len(fromAgent') + n]].settings
      <3>1. CASE n = Len(toAgent) + 1
        <4>1. toAgent'[n] = order
          BY <1>2, <2>1, <3>1
        <4>2. rooms_wait'[Len(fromAgent') + n] = r
          BY <1>1, <1>2, <2>2, <3>1
        <4> QED
          BY <1>3, <1>4, <4>1, <4>2
      <3>2. CASE n # Len(toAgent) + 1
        <4>1. n \in 1 .. Len(toAgent) /\ toAgent'[n] = toAgent[n]
          BY <1>2, <2>1, <3>2
        <4>2. Len(fromAgent) + n \in 1 .. Len(rooms_wait)
          BY <1>2, <2>2, <4>1
        <4> QED
          BY <1>1, <2>1, <2>3, <4>1, <4>2 DEF QueueInv, Paired
      <3> QED
        BY <3>1, <3>2
    <2> QED
      BY <2>2, <2>4, <2>5 DEF Paired
  <1> QED
    BY <1>3, <1>7, <1>8, <1>9 DEF QueueInv

\* The agent goes away: both channels are empty, and if a room was waiting a
\* launch is lost.
LEMMA LostStep ==
    ASSUME QueueInv, Evolves(rooms, rooms'), toAgent' = <<>>, fromAgent' = <<>>,
           launch_lost' = (launch_lost \/ rooms_wait # <<>>),
           UNCHANGED <<rooms_wait, min_port, servers>>
    PROVE  QueueInv'
  <1>1. /\ RoomsOK' /\ Fresh' /\ ServersNotShared' /\ ServerMatchesRoom'
        /\ 1 .. Len(rooms) \subseteq 1 .. Len(rooms')
    BY RoomsStep DEF QueueInv, QueueTypes
  <1>2. /\ rooms_wait \in Seq(1 .. Len(rooms)) /\ toAgent \in Seq(LaunchOrder)
        /\ min_port \in Nat /\ FirstPort \in Nat /\ LastPort \in Nat
        /\ launch_lost \in BOOLEAN
    BY Constants DEF QueueInv, QueueTypes
  <1>3. QueueTypes'
    <2>1. rooms_wait' \in Seq(1 .. Len(rooms'))
      BY <1>1, <1>2, SeqMonotone
    <2>2. <<>> \in Seq(LaunchOrder) /\ <<>> \in Seq(Ports)
      OBVIOUS
    <2> QED
      BY <1>2, <2>1, <2>2 DEF QueueInv, QueueTypes
  <1>4. PortsLeft' /\ FrontExists'
    BY <1>2 DEF QueueInv, PortsLeft, FrontExists
  <1>5. Paired'
    <2> SUFFICES ASSUME ~launch_lost'
                 PROVE  Paired'
      BY DEF Paired
    <2>1. rooms_wait' = <<>>
      OBVIOUS
    <2>2. Len(rooms_wait') = 0 /\ Len(toAgent') = 0 /\ Len(fromAgent') = 0
      BY <2>1
    <2> QED
      BY <2>2 DEF Paired
  <1> QED
    BY <1>1, <1>3, <1>4, <1>5 DEF QueueInv

\* The lobby takes a port: the first room of the queue starts on it, or has
\* started already and the port is dropped.
LEMMA PortStep ==
    ASSUME QueueInv, ServerPort, UNCHANGED <<min_port, servers>>
    PROVE  /\ QueueInv'
           /\ \A r \in Rooms : /\ rooms'[r].clients = rooms[r].clients
                               /\ rooms[r].game_start => rooms'[r] = rooms[r]
  <1> DEFINE r == Head(rooms_wait)
             port == Head(fromAgent)
             new == WithServer(rooms[r], TRUE, <<port>>)
  <1>1. /\ rooms \in Seq(RoomType) /\ Len(rooms) \in Nat /\ Len(rooms) <= MaxRooms
        /\ \A q \in 1 .. Len(rooms) : RoomOK(rooms[q])
        /\ rooms_wait \in Seq(1 .. Len(rooms))
        /\ toAgent \in Seq(LaunchOrder) /\ fromAgent \in Seq(Ports)
        /\ min_port \in Nat /\ launch_lost \in BOOLEAN /\ FirstPort \in Nat
    BY Constants DEF QueueInv, RoomsOK, QueueTypes
  <1>2. /\ fromAgent # <<>> /\ fromAgent' = Tail(fromAgent)
        /\ rooms_wait' = Tail(rooms_wait)
        /\ UNCHANGED <<toAgent, launch_lost, min_port, servers>>
    BY DEF ServerPort
  <1>3. Len(rooms_wait) \in Nat \ {0} /\ Len(fromAgent) \in Nat \ {0} /\ Len(toAgent) \in Nat
    BY <1>1, <1>2 DEF QueueInv, FrontExists
  <1>4. /\ r \in 1 .. Len(rooms) /\ r = rooms_wait[1]
        /\ port \in Ports /\ port = fromAgent[1]
    BY <1>1, <1>3
  <1>5. /\ rooms_wait' \in Seq(1 .. Len(rooms)) /\ Len(rooms_wait') = Len(rooms_wait) - 1
        /\ \A n \in 1 .. Len(rooms_wait') : rooms_wait'[n] = rooms_wait[n + 1]
        /\ fromAgent' \in Seq(Ports) /\ Len(fromAgent') = Len(fromAgent) - 1
        /\ \A n \in 1 .. Len(fromAgent') : fromAgent'[n] = fromAgent[n + 1]
    BY <1>1, <1>2, <1>3
  <1>6. /\ new \in RoomType /\ new.game_start = TRUE /\ new.server = <<port>>
        /\ new.settings = rooms[r].settings /\ new.clients = rooms[r].clients
    <2>1. <<port>> \in Seq(Ports) /\ TRUE \in BOOLEAN /\ rooms[r] \in RoomType
      BY <1>1, <1>4
    <2> QED
      BY <2>1, WriteServer, ZenonT(40)
  <1>7. RoomOK(new)
    BY <1>6 DEF RoomOK
  <1> HIDE DEF new
  <1>8. rooms' = IF rooms[r].game_start THEN rooms ELSE [rooms EXCEPT ![r] = new]
    <2>1. CASE rooms[r].game_start
      BY <2>1 DEF ServerPort, Adopts
    <2>2. CASE ~rooms[r].game_start
      <3>1. rooms[r].server = <<>>
        BY <1>1, <1>4, <2>2 DEF RoomOK
      <3>2. Append(rooms[r].server, port) = <<port>>
        BY <3>1
      <3>3. rooms' = [rooms EXCEPT ![r] =
                        WithServer(rooms[r], TRUE, Append(rooms[r].server, port))]
        BY <2>2 DEF ServerPort, Adopts
      <3> QED
        BY <2>2, <3>2, <3>3 DEF new
    <2> QED
      BY <2>1, <2>2
  <1> HIDE DEF r, port
  <1>9. /\ rooms' \in Seq(RoomType) /\ Len(rooms') = Len(rooms)
        /\ DOMAIN rooms = 1 .. Len(rooms) /\ DOMAIN rooms' = 1 .. Len(rooms)
    BY <1>1, <1>4, <1>6, <1>8
  <1>10. ASSUME NEW q \in 1 .. Len(rooms)
         PROVE  \/ rooms'[q] = rooms[q]
                \/ q = r /\ ~rooms[q].game_start /\ rooms'[q] = new
    BY <1>1, <1>8
  <1>11. \A q \in 1 .. Len(rooms) :
           /\ RoomOK(rooms'[q])
           /\ rooms'[q].settings = rooms[q].settings
           /\ rooms'[q].clients = rooms[q].clients
           /\ rooms[q].game_start => rooms'[q] = rooms[q]
    BY <1>1, <1>6, <1>7, <1>10
  <1>12. RoomsOK'
    BY <1>1, <1>9, <1>11 DEF RoomsOK
  <1>13. QueueTypes' /\ PortsLeft' /\ FrontExists'
    BY <1>2, <1>3, <1>5, <1>9 DEF QueueInv, QueueTypes, PortsLeft, FrontExists
  <1>14. Fresh'
    BY <1>2, <1>3, <1>5 DEF QueueInv, Fresh
  <1>15. Paired'
    <2> SUFFICES ASSUME ~launch_lost
                 PROVE  Paired'
      BY <1>2 DEF Paired
    <2>1. Len(rooms_wait) = Len(fromAgent) + Len(toAgent)
      BY DEF QueueInv, Paired
    <2>2. Len(rooms_wait') = Len(fromAgent') + Len(toAgent')
      BY <1>2, <1>3, <1>5, <2>1
    <2>3. \A n \in 1 .. Len(rooms_wait') :
            /\ rooms_wait[n + 1] \in 1 .. Len(rooms)
            /\ rooms'[rooms_wait'[n]].settings = rooms[rooms_wait[n + 1]].settings
      <3>1. \A n \in 1 .. Len(rooms_wait') :
              n + 1 \in 1 .. Len(rooms_wait) /\ rooms_wait'[n] = rooms_wait[n + 1]
        BY <1>3, <1>5
      <3>2. \A n \in 1 .. Len(rooms_wait) : rooms_wait[n] \in 1 .. Len(rooms)
        BY <1>1
      <3> QED
        BY <1>11, <3>1, <3>2
    <2>4. ASSUME NEW n \in 1 .. Len(fromAgent')
          PROVE  servers'[fromAgent'[n]] = rooms'[rooms_wait'[n]].settings
      <3>1. n + 1 \in 1 .. Len(fromAgent) /\ n \in 1 .. Len(rooms_wait')
        BY <1>3, <1>5, <2>1
      <3> QED
        BY <1>2, <1>5, <2>3, <3>1 DEF QueueInv, Paired
    <2>5. ASSUME NEW n \in 1 .. Len(toAgent')
          PROVE  toAgent'[n].settings = rooms'[rooms_wait'[Len(fromAgent') + n]].settings
      <3>1. /\ n \in 1 .. Len(toAgent) /\ Len(fromAgent') + n \in 1 .. Len(rooms_wait')
            /\ (Len(fromAgent') + n) + 1 = Len(fromAgent) + n
        BY <1>2, <1>3, <1>5, <2>1
      <3> QED
        BY <1>2, <2>3, <3>1, ZenonT(40) DEF QueueInv, Paired
    <2> QED
      BY <2>2, <2>4, <2>5 DEF Paired
  <1>16. ServersNotShared'
    <2>1. /\ port < min_port
          /\ \A n \in 1 .. Len(fromAgent') : fromAgent'[n] # port
      BY <1>3, <1>4, <1>5 DEF QueueInv, Fresh
    <2>2. \A q \in 1 .. Len(rooms) : rooms[q].game_start => rooms[q].server[1] # port
      BY <1>1, <1>3, <1>4, <1>9 DEF QueueInv, ServersNotShared, Rooms
    <2>3. ASSUME NEW q \in 1 .. Len(rooms), rooms'[q].game_start
          PROVE  \/ q = r /\ rooms'[q].server[1] = port
                 \/ rooms[q].game_start /\ rooms'[q].server[1] = rooms[q].server[1]
      <3>1. CASE rooms'[q] = rooms[q]
        BY <2>3, <3>1
      <3>2. CASE q = r /\ rooms'[q] = new
        BY <1>6, <3>2
      <3> QED
        BY <1>10, <3>1, <3>2
    <2>4. ASSUME NEW q \in 1 .. Len(rooms), rooms[q].game_start
          PROVE  /\ rooms[q].server[1] < min_port
                 /\ \A n \in 1 .. Len(fromAgent) : fromAgent[n] # rooms[q].server[1]
                 /\ \A s \in 1 .. Len(rooms) \ {q} :
                      rooms[s].game_start => rooms[s].server[1] # rooms[q].server[1]
      <3>1. DOMAIN fromAgent = 1 .. Len(fromAgent)
        BY <1>1
      <3> QED
        BY <1>9, <2>4, <3>1 DEF QueueInv, ServersNotShared, Rooms
    <2>5. \A n \in 1 .. Len(fromAgent') :
            n + 1 \in 1 .. Len(fromAgent) /\ fromAgent'[n] = fromAgent[n + 1]
      BY <1>3, <1>5
    <2>6. DOMAIN fromAgent' = 1 .. Len(fromAgent')
      BY <1>5
    <2> QED
      BY <1>2, <1>9, <2>1, <2>2, <2>3, <2>4, <2>5, <2>6 DEF ServersNotShared, Rooms
  <1>17. ServerMatchesRoom'
    <2> SUFFICES ASSUME ~launch_lost, NEW q \in 1 .. Len(rooms), rooms'[q].game_start
                 PROVE  /\ rooms'[q].server[1] \in DOMAIN servers
                        /\ servers[rooms'[q].server[1]] = rooms'[q].settings
      BY <1>2, <1>9 DEF ServerMatchesRoom, Rooms
    <2>1. CASE rooms'[q] = rooms[q]
      BY <1>9, <2>1 DEF QueueInv, ServerMatchesRoom, Rooms
    <2>2. CASE q = r /\ rooms'[q] = new
      <3>1. rooms'[q].server[1] = port /\ rooms'[q].settings = rooms[r].settings
        BY <1>6, <2>2
      <3>2. servers[port] = rooms[r].settings
        BY <1>3, <1>4 DEF QueueInv, Paired
      <3>3. port \in FirstPort .. min_port - 1
        <4>1. 1 \in 1 .. Len(fromAgent)
          BY <1>3
        <4>2. port < min_port
          BY <1>4, <4>1 DEF QueueInv, Fresh
        <4>3. port \in Int /\ FirstPort <= port
          BY <1>1, <1>4, Constants DEF Ports
        <4> QED
          BY <1>1, <4>2, <4>3
      <3> QED
        BY <3>1, <3>2, <3>3 DEF QueueInv, QueueTypes
    <2> QED
      BY <1>10, <2>1, <2>2
  <1> QED
    BY <1>9, <1>11, <1>12, <1>13, <1>14, <1>15, <1>16, <1>17 DEF QueueInv, Rooms

\* The agent serves an order: the port it answers with is new.
LEMMA AgentStep ==
    ASSUME QueueInv, Agent!CreateServer, UNCHANGED <<rooms, rooms_wait, launch_lost>>
    PROVE  QueueInv'
  <1> DEFINE s == Head(toAgent).settings
  <1>1. /\ rooms \in Seq(RoomType) /\ rooms_wait \in Seq(1 .. Len(rooms))
        /\ toAgent \in Seq(LaunchOrder) /\ fromAgent \in Seq(Ports)
        /\ min_port \in Nat /\ FirstPort \in Nat /\ LastPort \in Nat
        /\ servers \in [FirstPort .. min_port - 1 -> Settings]
        /\ DOMAIN rooms = 1 .. Len(rooms) /\ launch_lost \in BOOLEAN
    BY Constants DEF QueueInv, RoomsOK, QueueTypes
  <1>2. /\ toAgent # <<>> /\ toAgent' = Tail(toAgent)
        /\ fromAgent' = Append(fromAgent, min_port)
        /\ min_port' = min_port + 1
        /\ servers' = Put(servers, min_port, s)
    BY DEF Agent!CreateServer, Agent!Put, Put
  <1>3. Len(toAgent) \in Nat \ {0} /\ Len(fromAgent) \in Nat /\ Len(rooms_wait) \in Nat
    BY <1>1, <1>2
  <1>4. s \in Settings /\ s = toAgent[1].settings
    <2>1. toAgent[1] \in LaunchOrder /\ Head(toAgent) = toAgent[1]
      BY <1>1, <1>3
    <2> QED
      BY <2>1 DEF LaunchOrder
  <1> HIDE DEF s
  <1>5. /\ FirstPort <= min_port /\ min_port + Len(toAgent) <= LastPort
        /\ min_port \in Ports
    BY <1>1, <1>3 DEF QueueInv, PortsLeft, Ports
  <1>6. /\ toAgent' \in Seq(LaunchOrder) /\ Len(toAgent') = Len(toAgent) - 1
        /\ \A n \in 1 .. Len(toAgent') : toAgent'[n] = toAgent[n + 1]
    BY <1>1, <1>2, <1>3
  <1>7. /\ fromAgent' \in Seq(Ports) /\ Len(fromAgent') = Len(fromAgent) + 1
        /\ \A n \in 1 .. Len(fromAgent) : fromAgent'[n] = fromAgent[n]
        /\ fromAgent'[Len(fromAgent) + 1] = min_port
    BY <1>1, <1>2, <1>5
  <1>8. /\ servers' \in [FirstPort .. min_port' - 1 -> Settings]
        /\ \A k \in FirstPort .. min_port - 1 : servers'[k] = servers[k]
        /\ servers'[min_port] = s
    <2>1. DOMAIN servers = FirstPort .. min_port - 1
      BY <1>1
    <2>2. FirstPort .. min_port' - 1 = (FirstPort .. min_port - 1) \cup {min_port}
      BY <1>1, <1>2, <1>5
    <2> QED
      BY <1>1, <1>2, <1>4, <1>5, <2>1, <2>2 DEF Put
  <1>9. QueueTypes' /\ RoomsOK'
    BY <1>1, <1>2, <1>6, <1>7, <1>8 DEF QueueInv, QueueTypes, RoomsOK
  <1>10. PortsLeft' /\ FrontExists'
    BY <1>1, <1>2, <1>3, <1>5, <1>6, <1>7, SMTT(30) DEF QueueInv, PortsLeft, FrontExists
  <1>11. \A n \in 1 .. Len(fromAgent) : fromAgent[n] \in FirstPort .. min_port - 1
    BY <1>1 DEF QueueInv, Fresh, Ports
  <1>12. ASSUME NEW n \in 1 .. Len(fromAgent')
         PROVE  \/ n \in 1 .. Len(fromAgent) /\ fromAgent'[n] = fromAgent[n]
                \/ n = Len(fromAgent) + 1 /\ fromAgent'[n] = min_port
    BY <1>3, <1>7
  <1>13. Fresh'
    BY <1>1, <1>2, <1>11, <1>12, SMTT(30) DEF QueueInv, Fresh
  <1>14. Paired'
    <2> SUFFICES ASSUME ~launch_lost
                 PROVE  Paired'
      BY DEF Paired
    <2>1. /\ Len(rooms_wait) = Len(fromAgent) + Len(toAgent)
          /\ Len(rooms_wait') = Len(fromAgent') + Len(toAgent')
      <3>1. Len(rooms_wait) = Len(fromAgent) + Len(toAgent)
        BY DEF QueueInv, Paired
      <3>2. rooms_wait' = rooms_wait
        OBVIOUS
      <3> QED
        BY <1>3, <1>6, <1>7, <3>1, <3>2
    <2>2. ASSUME NEW n \in 1 .. Len(fromAgent')
          PROVE  servers'[fromAgent'[n]] = rooms'[rooms_wait'[n]].settings
      <3>1. CASE n \in 1 .. Len(fromAgent) /\ fromAgent'[n] = fromAgent[n]
        BY <1>8, <1>11, <3>1 DEF QueueInv, Paired
      <3>2. CASE n = Len(fromAgent) + 1 /\ fromAgent'[n] = min_port
        <4>1. 1 \in 1 .. Len(toAgent)
          BY <1>3
        <4>2. toAgent[1].settings = rooms[rooms_wait[Len(fromAgent) + 1]].settings
          BY <4>1 DEF QueueInv, Paired
        <4> QED
          BY <1>4, <1>8, <3>2, <4>2
      <3> QED
        BY <1>12, <3>1, <3>2
    <2>3. ASSUME NEW n \in 1 .. Len(toAgent')
          PROVE  toAgent'[n].settings = rooms'[rooms_wait'[Len(fromAgent') + n]].settings
      <3>1. /\ n + 1 \in 1 .. Len(toAgent)
            /\ Len(fromAgent') + n = Len(fromAgent) + (n + 1)
        BY <1>3, <1>6, <1>7
      <3> QED
        BY <1>6, <3>1 DEF QueueInv, Paired
    <2> QED
      BY <2>1, <2>2, <2>3 DEF Paired
  <1>15. ASSUME NEW q \in 1 .. Len(rooms), rooms[q].game_start
         PROVE  /\ rooms[q].server[1] \in Int /\ rooms[q].server[1] < min_port
                /\ FirstPort <= rooms[q].server[1]
    <2>1. rooms[q].server \in Seq(Ports) /\ Len(rooms[q].server) = 1
      BY <1>15 DEF QueueInv, RoomsOK, RoomOK, RoomType
    <2>2. rooms[q].server[1] \in Ports
      BY <2>1
    <2>3. rooms[q].server[1] < min_port
      BY <1>1, <1>15 DEF QueueInv, ServersNotShared, Rooms
    <2> QED
      BY <1>1, <2>2, <2>3 DEF Ports
  <1>16. ServersNotShared'
    <2>1. /\ DOMAIN fromAgent' = 1 .. Len(fromAgent')
          /\ DOMAIN fromAgent = 1 .. Len(fromAgent)
      BY <1>1, <1>7
    <2>2. ASSUME NEW q \in 1 .. Len(rooms), rooms[q].game_start
          PROVE  /\ rooms[q].server[1] < min_port'
                 /\ \A n \in 1 .. Len(fromAgent') : fromAgent'[n] # rooms[q].server[1]
                 /\ \A t \in 1 .. Len(rooms) \ {q} :
                      rooms[t].game_start => rooms[t].server[1] # rooms[q].server[1]
      <3>1. rooms[q].server[1] < min_port' /\ rooms[q].server[1] # min_port
        BY <1>1, <1>2, <1>15, <2>2
      <3>2. /\ \A n \in 1 .. Len(fromAgent) : fromAgent[n] # rooms[q].server[1]
            /\ \A t \in 1 .. Len(rooms) \ {q} :
                      rooms[t].game_start => rooms[t].server[1] # rooms[q].server[1]
        BY <1>1, <2>1, <2>2 DEF QueueInv, ServersNotShared, Rooms
      <3> QED
        BY <1>12, <3>1, <3>2
    <2> QED
      BY <1>1, <2>1, <2>2 DEF ServersNotShared, Rooms
  <1>17. ServerMatchesRoom'
    <2> SUFFICES ASSUME ~launch_lost, NEW q \in 1 .. Len(rooms), rooms[q].game_start
                 PROVE  /\ rooms[q].server[1] \in DOMAIN servers'
                        /\ servers'[rooms[q].server[1]] = rooms[q].settings
      BY <1>1 DEF ServerMatchesRoom, Rooms
    <2>1. rooms[q].server[1] \in FirstPort .. min_port - 1
      BY <1>1, <1>15
    <2>2. servers[rooms[q].server[1]] = rooms[q].settings
      BY <1>1 DEF QueueInv, ServerMatchesRoom, Rooms
    <2>3. DOMAIN servers' = FirstPort .. min_port' - 1
      BY <1>8
    <2> QED
      BY <1>1, <1>2, <1>8, <2>1, <2>2, <2>3
  <1> QED
    BY <1>9, <1>10, <1>13, <1>14, <1>16, <1>17 DEF QueueInv

-----------------------------------------------------------------------------
(***************************************************************************)
(* What each action of Next does to the rooms and the queues.              *)
(***************************************************************************)

\* What the handlers need of the clients' tables.
TablesOK ==
    /\ wait_room \in Tables(Client, Ids)
    /\ id_counter \in 0 .. MaxId
    /\ id \in [Peer -> Ids]

Quietly == Evolves(rooms, rooms') /\ UNCHANGED queueVars
Launching ==
    /\ Evolves(rooms, rooms') /\ CanLaunch /\ UNCHANGED <<min_port, servers>>
    /\ \E r \in 1 .. Len(rooms) : \E packets : start_room(r, packets)
Losing ==
    /\ Evolves(rooms, rooms') /\ toAgent' = <<>> /\ fromAgent' = <<>>
    /\ launch_lost' = (launch_lost \/ rooms_wait # <<>>)
    /\ UNCHANGED <<rooms_wait, min_port, servers>>
TakingPort == ServerPort /\ UNCHANGED <<min_port, servers>>
Serving == Agent!CreateServer /\ UNCHANGED <<rooms, rooms_wait, launch_lost>>

\* Every step is one of the five.
LEMMA StepKinds ==
    ASSUME QueueInv, TablesOK, [Next]_vars
    PROVE  Quietly \/ Launching \/ Losing \/ TakingPort \/ Serving
  <1>1. /\ rooms \in Seq(RoomType) /\ Len(rooms) \in Nat /\ Len(rooms) <= MaxRooms
        /\ \A r \in 1 .. Len(rooms) : RoomOK(rooms[r])
        /\ DOMAIN rooms = 1 .. Len(rooms)
    BY DEF QueueInv, RoomsOK
  <1>2. Evolves(rooms, Settle(rooms))
    BY <1>1, SettleEvolves
  <1>3. rooms' = rooms => Evolves(rooms, rooms')
    BY <1>1 DEF Evolves
  <1>4. ASSUME NEW r \in 1 .. Len(rooms), NEW p
        PROVE  rooms[r].clients \in Tables(Client, Ids)
    <2>1. rooms[r] \in RoomType
      BY <1>1
    <2> QED
      BY <2>1 DEF RoomType
  <1> USE DEF queueVars, Queues, LobbyKeeps
  <1>5. CASE Boot
    <2>1. UNCHANGED <<rooms, queueVars>>
      BY <1>5 DEF Boot, BootAgent, BootFail, BootClient, Arrive
    <2> QED
      BY <1>3, <2>1 DEF Quietly
  <1>6. CASE ClientConnects
    BY <1>2, <1>6 DEF ClientConnects, Connect, Greet, Arrive, Quietly
  <1>7. CASE ClientGreets
    BY <1>2, <1>7 DEF ClientGreets, ClientAbout, Quietly
  <1>8. CASE ClientListsRooms
    BY <1>2, <1>8 DEF ClientListsRooms, RoomList, Quietly
  <1>9. CASE ClientCreatesRoom
    <2>1. PICK p \in Client, max \in Capacity, t \in Settings :
            NewRoomInfo(p, max, t) /\ LobbyKeeps
      BY <1>9 DEF ClientCreatesRoom
    <2>2. Len(rooms) < MaxRooms /\ rooms' = Settle(Append(rooms, NewRoom(max, t)))
      BY <2>1 DEF NewRoomInfo
    <2>3. Evolves(rooms, rooms')
      BY <1>1, <2>2, AppendEvolves
    <2> QED
      BY <2>1, <2>3 DEF NewRoomInfo, Quietly
  <1>10. CASE ClientJoins
    <2>1. PICK p \in Client, r \in Rooms :
            /\ Starts(p, r) => CanLaunch
            /\ Join(p, r)
            /\ UNCHANGED <<min_port, servers>>
      BY <1>10 DEF ClientJoins
    <2> DEFINE c == Put(rooms[r].clients, p, At(wait_room, p, DefaultId))
    <2>2. r \in 1 .. Len(rooms)
      BY <1>1 DEF Rooms
    <2>3. c \in Tables(Client, Ids)
      <3>1. At(wait_room, p, DefaultId) \in Ids
        BY Constants, AtTable DEF TablesOK
      <3> QED
        BY <1>4, <2>2, <3>1, PutTable
    <2>4. rooms' = Settle([rooms EXCEPT ![r] = WithClients(@, c)])
      <3>1. [rooms EXCEPT ![r] = WithClients(@, c)]
              = [rooms EXCEPT ![r] = WithClients(@, Put(@.clients, p, At(wait_room, p, DefaultId)))]
        BY <1>1
      <3> QED
        BY <2>1, <3>1 DEF Join
    <2> HIDE DEF c
    <2>5. Evolves(rooms, rooms')
      BY <1>1, <2>2, <2>3, <2>4, EditOneEvolves
    <2>6. \/ Starts(p, r) /\ \E packets : start_room(r, packets)
          \/ UNCHANGED Queues
      BY <2>1 DEF Join
    <2> QED
      BY <2>1, <2>2, <2>5, <2>6 DEF Quietly, Launching
  <1>11. CASE ClientRefused
    BY <1>2, <1>11 DEF ClientRefused, JoinRefused, LeaveRefused, Refuse, Quietly
  <1>12. CASE ClientLeaves
    <2>1. PICK p \in Client, r \in Rooms : Leave(p, r) /\ LobbyKeeps
      BY <1>12 DEF ClientLeaves
    <2> DEFINE c == Erase(rooms[r].clients, p)
    <2>2. r \in 1 .. Len(rooms)
      BY <1>1 DEF Rooms
    <2>3. c \in Tables(Client, Ids)
      BY <1>4, <2>2, EraseTable
    <2>4. rooms' = Settle([rooms EXCEPT ![r] = WithClients(@, c)])
      <3>1. [rooms EXCEPT ![r] = WithClients(@, c)]
              = [rooms EXCEPT ![r] = WithClients(@, Erase(@.clients, p))]
        BY <1>1
      <3> QED
        BY <2>1, <3>1 DEF Leave
    <2> HIDE DEF c
    <2>5. Evolves(rooms, rooms')
      BY <1>1, <2>2, <2>3, <2>4, EditOneEvolves
    <2> QED
      BY <2>1, <2>5 DEF Leave, Quietly
  <1>13. ASSUME NEW p, Forget(p)
         PROVE  Evolves(rooms, rooms')
    BY <1>1, <1>13, EraseEvolves DEF Forget
  <1>14. CASE ClientDisconnects
    <2>1. PICK p \in Peer : Disconnect(p) /\ Arrive(p, NoId)
      BY <1>14 DEF ClientDisconnects
    <2>2. Forget(p) /\ UNCHANGED queueVars
      BY <2>1 DEF Disconnect, Forget, Arrive
    <2> QED
      BY <1>13, <2>2 DEF Quietly
  <1>15. CASE AgentLink
    <2>1. CASE AgentConnect /\ LobbyKeeps
      BY <1>2, <2>1 DEF AgentConnect, Greet, Quietly
    <2>2. CASE AgentLost /\ LobbyKeeps
      <3>1. Evolves(rooms, rooms')
        BY <1>13, <2>2 DEF AgentLost
      <3> QED
        BY <2>2, <3>1 DEF AgentLost, Forget, Losing
    <2> QED
      BY <1>15, <2>1, <2>2 DEF AgentLink
  <1>16. CASE LobbyServesAgent
    BY <1>16 DEF LobbyServesAgent, TakingPort
  <1>17. CASE AgentLaunches
    BY <1>17 DEF AgentLaunches, Serving
  <1>18. CASE Idle \/ UNCHANGED vars
    <2>1. UNCHANGED <<rooms, queueVars>>
      BY <1>18 DEF Idle, vars, lobbyVars
    <2> QED
      BY <1>3, <2>1 DEF Quietly
  <1> QED
    BY <1>5, <1>6, <1>7, <1>8, <1>9, <1>10, <1>11, <1>12, <1>14, <1>15, <1>16,
       <1>17, <1>18 DEF Next

\* The queue invariant is kept by every step.
LEMMA QueueKept ==
    ASSUME QueueInv, TablesOK, [Next]_vars
    PROVE  QueueInv'
  <1>1. CASE Quietly
    BY <1>1, QuietStep DEF Quietly
  <1>2. CASE Launching
    BY <1>2, LaunchStep DEF Launching
  <1>3. CASE Losing
    BY <1>3, LostStep DEF Losing
  <1>4. CASE TakingPort
    BY <1>4, PortStep DEF TakingPort
  <1>5. CASE Serving
    BY <1>5, AgentStep DEF Serving
  <1> QED
    BY <1>1, <1>2, <1>3, <1>4, <1>5, StepKinds

-----------------------------------------------------------------------------
(***************************************************************************)
(* Packets and what clients read from them.                                *)
(***************************************************************************)
PacketSeqs == [Peer -> Seq(Packets)]

LEMMA PacketTypes ==
    /\ \A h \in {"Key", "RoomList", "ResultSuccess", "ResultFailed"} : Message(h) \in Packets
    /\ \A h \in {"ClientId", "ClientAbout", "DiscClientAbout"}, i \in Ids : About(h, i) \in Packets
    /\ \A w \in Seq(Ports) : ServerInfo(w) \in Packets
  BY DEF Packets, Message, About, ServerInfo

LEMMA QuietTypes == Quiet \in PacketSeqs
  <1>1. <<>> \in Seq(Packets)
    OBVIOUS
  <1> QED
    BY <1>1 DEF Quiet, PacketSeqs

LEMMA ToTypes ==
    ASSUME NEW p \in Peer, NEW packets \in Seq(Packets)
    PROVE  To(p, packets) \in PacketSeqs
  BY QuietTypes DEF To, PacketSeqs

\* Appending to one peer's packets.
LEMMA AppendTypes ==
    ASSUME NEW f \in PacketSeqs, NEW p \in Peer, NEW packet \in Packets
    PROVE  [f EXCEPT ![p] = Append(@, packet)] \in PacketSeqs
  <1>1. f[p] \in Seq(Packets)
    BY DEF PacketSeqs
  <1>2. Append(f[p], packet) \in Seq(Packets)
    BY <1>1
  <1> QED
    BY <1>2 DEF PacketSeqs

\* What clients learn has the type of what they know.
LEMMA ReadTypes ==
    ASSUME out' \in PacketSeqs, Read,
           others \in [Peer -> SUBSET Ids], address \in [Peer -> Seq(Ports)]
    PROVE  others' \in [Peer -> SUBSET Ids] /\ address' \in [Peer -> Seq(Ports)]
  <1>1. ASSUME NEW p \in Peer, NEW n \in DOMAIN out'[p]
        PROVE  /\ out'[p][n].header \in {"ClientAbout", "DiscClientAbout"} => out'[p][n].id \in Ids
               /\ out'[p][n].header = "ServerInfo" => out'[p][n].address \in Seq(Ports)
    <2>1. out'[p] \in Seq(Packets)
      BY DEF PacketSeqs
    <2>2. out'[p][n] \in Packets
      BY <2>1
    <2> QED
      BY <2>2 DEF Packets
  <1>2. ASSUME NEW p \in Peer
        PROVE  Named(p, "ClientAbout") \subseteq Ids /\ Told(p) \subseteq Seq(Ports)
    BY <1>1 DEF Named, Told
  <1>3. ASSUME NEW p \in Peer, Told(p) # {}
        PROVE  (CHOOSE a \in Told(p) : TRUE) \in Seq(Ports)
    BY <1>2, <1>3
  <1>4. others' \in [Peer -> SUBSET Ids]
    BY <1>2 DEF Read
  <1>5. address' \in [Peer -> Seq(Ports)]
    BY <1>3 DEF Read
  <1> QED
    BY <1>4, <1>5

\* The packets of a join.
LEMMA IntroductionTypes ==
    ASSUME NEW p \in Peer, NEW i \in Ids, NEW r \in Rooms,
           rooms[r].clients \in Tables(Client, Ids),
           NEW order \in Orders(Members(r) \ {p})
    PROVE  Introductions(p, i, r, order) \in PacketSeqs
  <1> DEFINE S == Members(r) \ {p}
             known == [n \in DOMAIN order |-> About("ClientAbout", rooms[r].clients[order[n]])]
  <1>1. /\ Members(r) \in SUBSET Client
        /\ \A q \in Members(r) : rooms[r].clients[q] \in Ids
    BY DEF Members, Tables
  <1>2. Cardinality(S) \in Nat
    <2>1. IsFiniteSet(Peer) /\ S \subseteq Peer
      BY <1>1, LobbyAssumption DEF Client
    <2>2. IsFiniteSet(S)
      BY <2>1, FS_Subset
    <2> QED
      BY <2>2, FS_CardinalityType
  <1>3. order \in [1 .. Cardinality(S) -> S]
    BY DEF Orders
  <1>4. \A n \in 1 .. Cardinality(S) : About("ClientAbout", rooms[r].clients[order[n]]) \in Packets
    BY <1>1, <1>3, PacketTypes
  <1>5. known \in Seq(Packets)
    <2>1. DOMAIN order = 1 .. Cardinality(S)
      BY <1>3
    <2>2. known \in [1 .. Cardinality(S) -> Packets]
      BY <1>4, <2>1
    <2> QED
      BY <1>2, <2>2, SeqOf
  <1> HIDE DEF known, S
  <1>6. <<Message("ResultSuccess")>> \in Seq(Packets)
    BY PacketTypes
  <1>7. <<Message("ResultSuccess")>> \o known \in Seq(Packets)
    BY <1>5, <1>6
  <1>8. <<About("ClientAbout", i)>> \in Seq(Packets)
    BY PacketTypes
  <1>9. <<>> \in Seq(Packets)
    OBVIOUS
  <1> QED
    BY <1>7, <1>8, <1>9 DEF Introductions, PacketSeqs, known

-----------------------------------------------------------------------------
(***************************************************************************)
(* The variables about the clients.                                        *)
(***************************************************************************)
LinkTypes ==
    /\ running \in BOOLEAN
    /\ agent \in {"connecting", "up", "down"}
    /\ conn \in [Peer -> {"none", "connected", "greeted"}]
    /\ strayed \in BOOLEAN

KnowledgeTypes ==
    /\ others \in [Peer -> SUBSET Ids]
    /\ address \in [Peer -> Seq(Ports)]

ClientInv == LinkTypes /\ TablesOK /\ KnowledgeTypes /\ out \in PacketSeqs

\* A slot is taken by a new client process.
LEMMA ArriveTypes ==
    ASSUME ClientInv, NEW p \in Peer, NEW i \in Ids, Arrive(p, i)
    PROVE  id' \in [Peer -> Ids] /\ KnowledgeTypes' /\ strayed' \in BOOLEAN
  <1>1. {} \in SUBSET Ids /\ <<>> \in Seq(Ports)
    OBVIOUS
  <1> QED
    BY <1>1 DEF ClientInv, TablesOK, KnowledgeTypes, LinkTypes, Arrive, LobbyKeeps

LEMMA GreetTypes ==
    ASSUME ClientInv, NEW p \in Peer, Greet(p)
    PROVE  out' \in PacketSeqs /\ id_counter' \in 0 .. MaxId /\ id_counter \in Ids
  <1>1. id_counter \in 0 .. MaxId /\ MaxId \in Nat /\ id_counter < MaxId
    BY Constants DEF ClientInv, TablesOK, Greet
  <1>2. id_counter \in Ids
    BY <1>1 DEF Ids
  <1>3. <<Message("Key"), About("ClientId", id_counter), Message("RoomList")>> \in Seq(Packets)
    <2>1. /\ Message("Key") \in Packets /\ Message("RoomList") \in Packets
          /\ About("ClientId", id_counter) \in Packets
      BY <1>2, PacketTypes
    <2> QED
      BY <2>1
  <1>4. Greeting(p) \in PacketSeqs
    BY <1>3, ToTypes DEF Greeting
  <1> QED
    BY <1>1, <1>2, <1>4 DEF Greet

\* A peer is forgotten.
LEMMA ForgetTypes ==
    ASSUME ClientInv, NEW p, Forget(p)
    PROVE  out' \in PacketSeqs /\ wait_room' \in Tables(Client, Ids)
  BY QuietTypes, EraseTable DEF ClientInv, TablesOK, Forget

\* start_room adds a packet for whoever sits in the agent's slot.
LEMMA LaunchTypes ==
    ASSUME ClientInv, NEW r \in 1 .. Len(rooms), rooms[r] \in RoomType,
           NEW packets \in PacketSeqs, start_room(r, packets)
    PROVE  out' \in PacketSeqs
  <1>1. CreateServerFor(r) \in Packets
    BY DEF CreateServerFor, RoomType, Packets
  <1>2. <<CreateServerFor(r)>> \in Seq(Packets)
    BY <1>1
  <1>3. [packets EXCEPT ![AgentSlot] = <<CreateServerFor(r)>>] \in PacketSeqs
    BY <1>2 DEF PacketSeqs
  <1> QED
    BY <1>3 DEF start_room, Launch

LEMMA JoinTypes ==
    ASSUME QueueInv, ClientInv, NEW p \in Client, NEW r \in Rooms, Join(p, r)
    PROVE  out' \in PacketSeqs /\ wait_room' \in Tables(Client, Ids)
  <1> DEFINE i == At(wait_room, p, DefaultId)
  <1>1. r \in 1 .. Len(rooms) /\ rooms[r] \in RoomType
    BY DEF QueueInv, RoomsOK, Rooms
  <1>2. rooms[r].clients \in Tables(Client, Ids) /\ rooms[r].server \in Seq(Ports)
    BY <1>1 DEF RoomType
  <1>3. i \in Ids
    BY Constants, AtTable DEF ClientInv, TablesOK
  <1>4. wait_room' = Erase(wait_room, p)
    BY DEF Join
  <1>5. wait_room' \in Tables(Client, Ids)
    BY <1>4, EraseTable DEF ClientInv, TablesOK
  <1>6. PICK order \in Orders(Members(r) \ {p}) :
          IF Starts(p, r) THEN start_room(r, Introductions(p, i, r, order))
          ELSE out' = Welcome(p, r, Introductions(p, i, r, order)) /\ UNCHANGED Queues
    BY DEF Join
  <1> HIDE DEF i
  <1>7. Introductions(p, i, r, order) \in PacketSeqs
    <2>1. p \in Peer
      BY DEF Client
    <2> QED
      BY <1>2, <1>3, <2>1, IntroductionTypes
  <1>8. Welcome(p, r, Introductions(p, i, r, order)) \in PacketSeqs
    <2>1. ServerInfo(rooms[r].server) \in Packets /\ p \in Peer
      BY <1>2, PacketTypes DEF Client
    <2> QED
      BY <1>7, <2>1, AppendTypes DEF Welcome
  <1> QED
    BY <1>1, <1>5, <1>6, <1>7, <1>8, LaunchTypes

LEMMA LeaveTypes ==
    ASSUME QueueInv, ClientInv, NEW p \in Client, NEW r \in Rooms, Leave(p, r)
    PROVE  out' \in PacketSeqs /\ wait_room' \in Tables(Client, Ids)
  <1>1. r \in 1 .. Len(rooms) /\ rooms[r] \in RoomType
    BY DEF QueueInv, RoomsOK, Rooms
  <1>2. rooms[r].clients[p] \in Ids
    BY <1>1 DEF RoomType, Tables, Leave, Members
  <1>3. wait_room' \in Tables(Client, Ids)
    BY <1>2, PutTable DEF ClientInv, TablesOK, Leave, ToWaitRoom
  <1>4. /\ <<Message("ResultSuccess")>> \in Seq(Packets)
        /\ <<About("DiscClientAbout", rooms[r].clients[p])>> \in Seq(Packets)
        /\ <<>> \in Seq(Packets)
    <2>1. /\ Message("ResultSuccess") \in Packets
          /\ About("DiscClientAbout", rooms[r].clients[p]) \in Packets
      BY <1>2, PacketTypes
    <2> QED
      BY <2>1
  <1> QED
    BY <1>3, <1>4 DEF Leave, PacketSeqs

LEMMA PortTypes ==
    ASSUME QueueInv, ClientInv, ServerPort
    PROVE  out' \in PacketSeqs
  <1> DEFINE r == Head(rooms_wait)
             where == Append(rooms[r].server, Head(fromAgent))
  <1>1. r \in 1 .. Len(rooms)
    <2>1. /\ Len(rooms_wait) # 0 /\ rooms_wait \in Seq(1 .. Len(rooms))
      BY DEF QueueInv, QueueTypes, FrontExists, ServerPort
    <2> QED
      BY <2>1
  <1>2. rooms[r] \in RoomType
    BY <1>1 DEF QueueInv, RoomsOK
  <1>3. Head(fromAgent) \in Ports
    BY DEF QueueInv, QueueTypes, ServerPort
  <1>4. where \in Seq(Ports)
    <2>1. rooms[r].server \in Seq(Ports)
      BY <1>2 DEF RoomType
    <2> QED
      BY <1>3, <2>1
  <1>5. <<ServerInfo(where)>> \in Seq(Packets) /\ <<>> \in Seq(Packets)
    <2>1. ServerInfo(where) \in Packets
      BY <1>4, PacketTypes
    <2> QED
      BY <2>1
  <1> QED
    BY <1>5, QuietTypes DEF ServerPort, PacketSeqs

\* The types of the clients' variables are kept by every step.
LEMMA ClientKept ==
    ASSUME QueueInv, ClientInv, [Next]_vars
    PROVE  ClientInv'
  <1>1. /\ LinkTypes /\ TablesOK /\ KnowledgeTypes /\ out \in PacketSeqs
        /\ others \in [Peer -> SUBSET Ids] /\ address \in [Peer -> Seq(Ports)]
        /\ id \in [Peer -> Ids]
    BY DEF ClientInv, KnowledgeTypes, TablesOK
  <1>2. /\ AgentSlot \in Peer /\ NoId \in Ids /\ Quiet \in PacketSeqs
        /\ \A p \in Client : p \in Peer
    BY LobbyAssumption, Constants, QuietTypes DEF Client
  <1>3. \A h \in {"RoomList", "ResultSuccess", "ResultFailed"}, p \in Client :
          To(p, <<Message(h)>>) \in PacketSeqs
    <2>1. \A h \in {"RoomList", "ResultSuccess", "ResultFailed"} : <<Message(h)>> \in Seq(Packets)
      BY PacketTypes
    <2> QED
      BY <1>2, <2>1, ToTypes
  <1>4. ASSUME out' \in PacketSeqs, Read
        PROVE  KnowledgeTypes' /\ id' = id
    BY <1>1, <1>4, ReadTypes DEF KnowledgeTypes, Read
  <1>5. CASE Boot
    <2>1. CASE (BootAgent \/ BootFail) /\ UNCHANGED knowledge /\ LobbyKeeps
      BY <1>1, <1>2, <2>1 DEF BootAgent, BootFail, knowledge, LobbyKeeps, ClientInv,
         LinkTypes, TablesOK, KnowledgeTypes
    <2>2. ASSUME NEW p \in Client, BootClient(p), Arrive(p, NoId)
          PROVE  ClientInv'
      <3>1. id' \in [Peer -> Ids] /\ KnowledgeTypes' /\ strayed' \in BOOLEAN
        BY <1>2, <2>2, ArriveTypes
      <3> QED
        BY <1>1, <1>2, <2>2, <3>1 DEF BootClient, ClientInv, LinkTypes, TablesOK
    <2> QED
      BY <1>5, <2>1, <2>2 DEF Boot
  <1>6. CASE ClientConnects
    <2>1. PICK p \in Peer : Connect(p) /\ Arrive(p, id_counter)
      BY <1>6 DEF ClientConnects
    <2>2. out' \in PacketSeqs /\ id_counter' \in 0 .. MaxId /\ id_counter \in Ids
      BY <2>1, GreetTypes DEF Connect
    <2>3. id' \in [Peer -> Ids] /\ KnowledgeTypes' /\ strayed' \in BOOLEAN
      BY <2>1, <2>2, ArriveTypes
    <2> QED
      BY <1>1, <2>1, <2>2, <2>3 DEF Connect, Greet, Queues, ClientInv, LinkTypes, TablesOK
  <1>7. CASE ClientGreets
    <2>1. PICK p \in Client : ClientAbout(p, id[p]) /\ Read /\ LobbyKeeps
      BY <1>7 DEF ClientGreets
    <2>2. out' \in PacketSeqs
      BY <1>2, <2>1 DEF ClientAbout
    <2>3. wait_room' \in Tables(Client, Ids)
      BY <1>1, <1>2, <2>1, PutTable DEF ClientAbout, TablesOK
    <2> QED
      BY <1>1, <1>4, <2>1, <2>2, <2>3 DEF ClientAbout, LobbyKeeps, ClientInv, LinkTypes, TablesOK
  <1>8. CASE ClientListsRooms
    <2>1. PICK p \in Client : RoomList(p) /\ Read /\ LobbyKeeps
      BY <1>8 DEF ClientListsRooms
    <2>2. out' \in PacketSeqs
      BY <1>3, <2>1 DEF RoomList
    <2> QED
      BY <1>1, <1>4, <2>1, <2>2 DEF RoomList, Requests, Links, LobbyKeeps, ClientInv,
         LinkTypes, TablesOK
  <1>9. CASE ClientCreatesRoom
    <2>1. PICK p \in Client, max \in Capacity, t \in Settings :
            NewRoomInfo(p, max, t) /\ Read /\ LobbyKeeps
      BY <1>9 DEF ClientCreatesRoom
    <2>2. out' \in PacketSeqs
      BY <1>3, <2>1 DEF NewRoomInfo
    <2> QED
      BY <1>1, <1>4, <2>1, <2>2 DEF NewRoomInfo, Requests, Links, LobbyKeeps, ClientInv,
         LinkTypes, TablesOK
  <1>10. CASE ClientJoins
    <2>1. PICK p \in Client, r \in Rooms :
            /\ Join(p, r) /\ Read
            /\ strayed' = (strayed \/ InSomeRoom(p))
      BY <1>10 DEF ClientJoins
    <2>2. out' \in PacketSeqs /\ wait_room' \in Tables(Client, Ids)
      BY <2>1, JoinTypes
    <2>3. strayed' \in BOOLEAN
      BY <1>1, <2>1 DEF LinkTypes
    <2> QED
      BY <1>1, <1>4, <2>1, <2>2, <2>3 DEF Join, Requests, Links, ClientInv, LinkTypes, TablesOK
  <1>11. CASE ClientRefused
    <2>1. PICK p \in Client, r \in 1 .. MaxRooms + 1 :
            (JoinRefused(p, r) \/ LeaveRefused(p, r)) /\ Read /\ LobbyKeeps
      BY <1>11 DEF ClientRefused
    <2>2. Requests(p) /\ Refuse(p)
      BY <2>1 DEF JoinRefused, LeaveRefused
    <2>3. out' \in PacketSeqs
      BY <1>3, <2>2 DEF Refuse
    <2> QED
      BY <1>1, <1>4, <2>1, <2>2, <2>3 DEF Refuse, Requests, Links, LobbyKeeps, ClientInv,
         LinkTypes, TablesOK
  <1>12. CASE ClientLeaves
    <2>1. PICK p \in Client, r \in Rooms :
            /\ Leave(p, r)
            /\ others' = [q \in Peer |-> IF q = p THEN {}
                                         ELSE others[q] \ Named(q, "DiscClientAbout")]
            /\ UNCHANGED <<id, address>>
            /\ LobbyKeeps
      BY <1>12 DEF ClientLeaves
    <2>2. out' \in PacketSeqs /\ wait_room' \in Tables(Client, Ids)
      BY <2>1, LeaveTypes
    <2>3. others' \in [Peer -> SUBSET Ids]
      BY <1>1, <2>1
    <2> QED
      BY <1>1, <2>1, <2>2, <2>3 DEF Leave, Requests, Links, LobbyKeeps, ClientInv,
         LinkTypes, TablesOK, KnowledgeTypes
  <1>13. CASE ClientDisconnects
    <2>1. PICK p \in Peer : Disconnect(p) /\ Arrive(p, NoId)
      BY <1>13 DEF ClientDisconnects
    <2>2. out' \in PacketSeqs /\ wait_room' \in Tables(Client, Ids)
      BY <2>1, ForgetTypes DEF Disconnect
    <2>3. id' \in [Peer -> Ids] /\ KnowledgeTypes' /\ strayed' \in BOOLEAN
      BY <1>2, <2>1, ArriveTypes
    <2> QED
      BY <1>1, <2>1, <2>2, <2>3 DEF Disconnect, Forget, ClientInv, LinkTypes, TablesOK
  <1>14. CASE AgentLink
    <2>1. CASE AgentConnect /\ Read /\ LobbyKeeps
      <3>1. out' \in PacketSeqs /\ id_counter' \in 0 .. MaxId
        BY <1>2, <2>1, GreetTypes DEF AgentConnect
      <3> QED
        BY <1>1, <1>4, <2>1, <3>1 DEF AgentConnect, Greet, LobbyKeeps, ClientInv,
           LinkTypes, TablesOK
    <2>2. CASE AgentLost /\ Read /\ LobbyKeeps
      <3>1. out' \in PacketSeqs /\ wait_room' \in Tables(Client, Ids)
        BY <2>2, ForgetTypes DEF AgentLost
      <3> QED
        BY <1>1, <1>4, <2>2, <3>1 DEF AgentLost, Forget, LobbyKeeps, ClientInv,
           LinkTypes, TablesOK
    <2> QED
      BY <1>14, <2>1, <2>2 DEF AgentLink
  <1>15. CASE LobbyServesAgent
    <2>1. out' \in PacketSeqs
      BY <1>15, PortTypes DEF LobbyServesAgent
    <2> QED
      BY <1>1, <1>4, <1>15, <2>1 DEF LobbyServesAgent, ServerPort, Links, LobbyKeeps,
         ClientInv, LinkTypes, TablesOK
  <1>16. CASE AgentLaunches
    BY <1>1, <1>16 DEF AgentLaunches, knowledge, ClientInv, LinkTypes, TablesOK, KnowledgeTypes
  <1>17. CASE Idle \/ UNCHANGED vars
    BY <1>1, <1>17 DEF Idle, vars, lobbyVars, knowledge, ClientInv, LinkTypes, TablesOK,
       KnowledgeTypes
  <1> QED
    BY <1>5, <1>6, <1>7, <1>8, <1>9, <1>10, <1>11, <1>12, <1>13, <1>14, <1>15,
       <1>16, <1>17 DEF Next

-----------------------------------------------------------------------------
(***************************************************************************)
(* The theorems.                                                           *)
(***************************************************************************)
IInv == QueueInv /\ ClientInv

LEMMA Start == Init => IInv
  <1> SUFFICES ASSUME Init
               PROVE  QueueInv /\ ClientInv
    BY DEF IInv
  <1>1. /\ rooms = <<>> /\ rooms_wait = <<>> /\ toAgent = <<>> /\ fromAgent = <<>>
        /\ launch_lost = FALSE /\ min_port = FirstPort /\ servers = NoEntries
    BY DEF Init, LobbyInit, Agent!Init, Agent!NoEntries, NoEntries
  <1>2. /\ Len(rooms) = 0 /\ Len(rooms_wait) = 0 /\ Len(toAgent) = 0 /\ Len(fromAgent) = 0
    BY <1>1
  <1>3. RoomsOK
    <2>1. rooms \in Seq(RoomType)
      BY <1>1
    <2> QED
      BY <1>2, <2>1, Constants DEF RoomsOK
  <1>4. QueueTypes
    <2>1. /\ rooms_wait \in Seq(1 .. Len(rooms)) /\ toAgent \in Seq(LaunchOrder)
          /\ fromAgent \in Seq(Ports)
      BY <1>1
    <2>2. servers \in [FirstPort .. min_port - 1 -> Settings]
      <3>1. FirstPort .. min_port - 1 = {}
        BY <1>1, Constants
      <3> QED
        BY <1>1, <3>1 DEF NoEntries
    <2> QED
      BY <1>1, <2>1, <2>2, Constants DEF QueueTypes
  <1>5. PortsLeft /\ Fresh /\ Paired /\ FrontExists
    BY <1>1, <1>2, Constants DEF PortsLeft, Fresh, Paired, FrontExists
  <1>6. ServersNotShared /\ ServerMatchesRoom
    <2>1. Rooms = {}
      BY <1>1 DEF Rooms
    <2> QED
      BY <2>1 DEF ServersNotShared, ServerMatchesRoom
  <1>7. QueueInv
    BY <1>3, <1>4, <1>5, <1>6 DEF QueueInv
  <1>8. ClientInv
    <2>1. wait_room \in Tables(Client, Ids)
      BY EmptyTable DEF Init, LobbyInit
    <2>2. {} \in SUBSET Ids /\ <<>> \in Seq(Ports) /\ 0 \in 0 .. MaxId
      BY Constants
    <2> QED
      BY <2>1, <2>2, QuietTypes, Constants DEF Init, LobbyInit, ClientInv, LinkTypes,
         TablesOK, KnowledgeTypes
  <1> QED
    BY <1>7, <1>8

\* The inductive invariant holds in every execution of the lobby, the agent
\* and the clients.
THEOREM Invariance == Spec => []IInv
  <1>1. IInv /\ [Next]_vars => IInv'
    BY QueueKept, ClientKept DEF IInv, ClientInv
  <1> QED
    BY <1>1, Start, PTL DEF Spec

\* What the lobby and the agent keep in their tables, queues and channels has
\* its type, rooms_wait names existing rooms only, and the agent is never
\* asked for a port it does not have.
THEOREM Types == Spec => []TypeOK
  <1>1. IInv => TypeOK
    <2> SUFFICES ASSUME IInv
                 PROVE  TypeOK
      OBVIOUS
    <2>1. servers \in Tables(Ports, Settings)
      <3>1. /\ servers \in [FirstPort .. min_port - 1 -> Settings]
            /\ min_port \in Nat /\ Len(toAgent) \in Nat
            /\ min_port + Len(toAgent) <= LastPort
        BY DEF IInv, QueueInv, QueueTypes, PortsLeft
      <3>2. FirstPort .. min_port - 1 \subseteq Ports
        BY <3>1, Constants DEF Ports
      <3> QED
        BY <3>1, <3>2 DEF Tables
    <2> QED
      BY <2>1 DEF IInv, QueueInv, RoomsOK, QueueTypes, LaunchOrder, ClientInv, LinkTypes,
         TablesOK, KnowledgeTypes, PacketSeqs, TypeOK
  <1> QED
    BY <1>1, Invariance, PTL

\* The lobby never takes the front of an empty queue when a ServerPort comes.
THEOREM FrontAlwaysExists == Spec => []FrontExists
  <1>1. IInv => FrontExists
    BY DEF IInv, QueueInv
  <1> QED
    BY <1>1, Invariance, PTL

\* No two running rooms are ever on one game server.
THEOREM ServersNeverShared == Spec => []ServersNotShared
  <1>1. IInv => ServersNotShared
    BY DEF IInv, QueueInv
  <1> QED
    BY <1>1, Invariance, PTL

\* As long as no CreateServer is lost, rooms get the servers launched with
\* their settings: pairing ports with rooms by arrival order alone is right.
THEOREM PairingIsRight == Spec => []ServerMatchesRoom
  <1>1. IInv => ServerMatchesRoom
    BY DEF IInv, QueueInv
  <1> QED
    BY <1>1, Invariance, PTL

\* The address string a client gets always has exactly one port.
THEOREM AddressesWellFormed == Spec => []AddressWellFormed
  <1>1. IInv => AddressWellFormed
    <2> SUFFICES ASSUME IInv, NEW r \in Rooms
                 PROVE  Len(rooms[r].server) = IF rooms[r].game_start THEN 1 ELSE 0
      BY DEF AddressWellFormed
    <2>1. RoomOK(rooms[r])
      BY DEF IInv, QueueInv, RoomsOK, Rooms
    <2> QED
      BY <2>1 DEF RoomOK, RoomType
  <1> QED
    BY <1>1, Invariance, PTL

\* No step moves the game of a room that keeps a member.
THEOREM ServerIsKept == Spec => ServerKeptWhileOccupied
  <1> DEFINE Keeps(r) ==
        (rooms[r].game_start /\ Members(r) # {} /\ DOMAIN rooms'[r].clients # {})
            => rooms'[r].server = rooms[r].server
  <1>1. ASSUME IInv, Next, NEW r \in Rooms
        PROVE  Keeps(r)
    <2>1. QueueInv /\ TablesOK /\ [Next]_vars
      BY <1>1 DEF IInv, ClientInv
    <2>2. r \in 1 .. Len(rooms) /\ Len(rooms) \in Nat
      BY <2>1 DEF QueueInv, RoomsOK, Rooms
    <2>3. CASE Evolves(rooms, rooms')
      <3>1. r \in 1 .. Len(rooms')
        BY <2>2, <2>3 DEF Evolves
      <3> QED
        BY <2>2, <2>3, <3>1 DEF Evolves
    <2>4. CASE TakingPort
      BY <2>1, <2>4, PortStep DEF TakingPort
    <2>5. CASE Serving
      BY <2>5 DEF Serving
    <2> QED
      BY <2>1, <2>3, <2>4, <2>5, StepKinds DEF Quietly, Launching, Losing
  <1>2. IInv /\ [Next]_vars => [\A r \in Rooms : Keeps(r)]_vars
    BY <1>1
  <1> QED
    BY <1>2, Invariance, PTL DEF Spec, ServerKeptWhileOccupied
-----------------------------------------------------------------------------
(***************************************************************************)
(* A room with enough members is running or waits for a port.              *)
(***************************************************************************)

\* No room gains a member.
NoneJoins ==
    \A r \in Rooms' : Members(r)' \subseteq (IF r \in Rooms THEN Members(r) ELSE {})

\* The tail over the rooms moves nobody.
LEMMA SettleMembers ==
    ASSUME NEW rs \in Seq(RoomType), NEW r \in DOMAIN rs
    PROVE  /\ DOMAIN Settle(rs) = DOMAIN rs
           /\ Settle(rs)[r].clients = rs[r].clients
  <1>1. rs[r] \in RoomType /\ <<>> \in Seq(Ports) /\ FALSE \in BOOLEAN
    OBVIOUS
  <1>2. WithServer(rs[r], FALSE, <<>>).clients = rs[r].clients
    BY <1>1, WriteServer
  <1> QED
    BY <1>1, <1>2 DEF Settle

\* Rooms are finite in size, and fewer members do not fill a room.
LEMMA FewerNotFull ==
    ASSUME NEW S, NEW T, T \subseteq Client, S \subseteq T, Cardinality(S) >= StartLevel
    PROVE  Cardinality(T) >= StartLevel /\ S # {}
  <1>1. IsFiniteSet(T)
    <2>1. IsFiniteSet(Peer) /\ T \subseteq Peer
      BY LobbyAssumption DEF Client
    <2> QED
      BY <2>1, FS_Subset
  <1>2. /\ Cardinality(S) \in Nat /\ Cardinality(T) \in Nat
        /\ Cardinality(S) <= Cardinality(T)
    BY <1>1, FS_Subset, FS_CardinalityType
  <1>3. S # {}
    BY FS_EmptySet, LobbyAssumption
  <1> QED
    BY <1>2, <1>3, LobbyAssumption

\* Only Join adds a member to a room.
LEMMA OnlyJoinsAdd ==
    ASSUME IInv, [Next]_vars
    PROVE  NoneJoins \/ ClientJoins
  <1>1. /\ rooms \in Seq(RoomType) /\ Len(rooms) \in Nat
        /\ Rooms = 1 .. Len(rooms)
        /\ \A r \in Rooms : rooms[r].clients \in Tables(Client, Ids)
    <2>1. rooms \in Seq(RoomType)
      BY DEF IInv, QueueInv, RoomsOK
    <2>2. \A r \in 1 .. Len(rooms) : rooms[r] \in RoomType
      BY <2>1
    <2> QED
      BY <2>1, <2>2, SMTT(30) DEF Rooms, RoomType
  <1>2. rooms' = rooms => NoneJoins
    BY DEF NoneJoins, Rooms, Members
  <1>3. rooms' = Settle(rooms) => NoneJoins
    <2> SUFFICES ASSUME rooms' = Settle(rooms)
                 PROVE  NoneJoins
      OBVIOUS
    <2>1. DOMAIN rooms' = Rooms
      BY DEF Settle, Rooms
    <2>2. \A r \in Rooms : rooms'[r].clients = rooms[r].clients
      BY <1>1, SettleMembers DEF Rooms
    <2> QED
      BY <2>1, <2>2 DEF NoneJoins, Rooms, Members
  <1>4. CASE ClientCreatesRoom
    <2>1. PICK p \in Client, max \in Capacity, t \in Settings : NewRoomInfo(p, max, t)
      BY <1>4 DEF ClientCreatesRoom
    <2> DEFINE rt == Append(rooms, NewRoom(max, t))
    <2>2. NewRoom(max, t) \in RoomType /\ NewRoom(max, t).clients = NoEntries
      <3>1. NoEntries \in Tables(Client, Ids) /\ <<>> \in Seq(Ports)
        BY EmptyTable
      <3> QED
        BY <3>1 DEF NewRoom, RoomType
    <2>3. /\ rt \in Seq(RoomType) /\ DOMAIN rt = 1 .. Len(rooms) + 1
          /\ \A r \in Rooms : rt[r] = rooms[r]
          /\ rt[Len(rooms) + 1] = NewRoom(max, t)
      BY <1>1, <2>2
    <2>4. rooms' = Settle(rt)
      BY <2>1 DEF NewRoomInfo
    <2> HIDE DEF rt
    <2>5. DOMAIN rooms' = 1 .. Len(rooms) + 1
      BY <1>1, <2>3, <2>4 DEF Settle
    <2>6. ASSUME NEW r \in 1 .. Len(rooms) + 1
          PROVE  rooms'[r].clients = rt[r].clients
      BY <2>3, <2>4, SettleMembers
    <2>7. DOMAIN NoEntries = {}
      BY DEF NoEntries
    <2>8. \A r \in 1 .. Len(rooms) + 1 : r \in Rooms \/ r = Len(rooms) + 1
      BY <1>1
    <2> QED
      BY <2>2, <2>3, <2>5, <2>6, <2>7, <2>8 DEF NoneJoins, Rooms, Members
  <1>5. CASE ClientLeaves
    <2>1. PICK p \in Client, r \in Rooms : Leave(p, r)
      BY <1>5 DEF ClientLeaves
    <2> DEFINE c == Erase(rooms[r].clients, p)
               new == WithClients(rooms[r], c)
               rt == [rooms EXCEPT ![r] = new]
    <2>2. c \in Tables(Client, Ids) /\ DOMAIN c \subseteq Members(r)
      <3>1. rooms[r].clients \in Tables(Client, Ids)
        BY <1>1
      <3>2. c \in Tables(Client, Ids)
        BY <3>1, EraseTable
      <3>3. DOMAIN c = DOMAIN rooms[r].clients \ {p}
        BY DEF Erase
      <3> QED
        BY <3>2, <3>3 DEF Members
    <2>3. new \in RoomType /\ new.clients = c
      BY <1>1, <2>2, WriteClients DEF Rooms
    <2>4. rooms' = Settle(rt)
      BY <2>1 DEF Leave
    <2> HIDE DEF c, new
    <2>5. rt \in Seq(RoomType) /\ DOMAIN rt = Rooms
          /\ \A q \in Rooms : rt[q] = IF q = r THEN new ELSE rooms[q]
      BY <1>1, <2>3
    <2> HIDE DEF rt
    <2>6. DOMAIN rooms' = Rooms /\ \A q \in Rooms : rooms'[q].clients = rt[q].clients
      BY <2>4, <2>5, SettleMembers
    <2> QED
      BY <2>2, <2>3, <2>5, <2>6 DEF NoneJoins, Rooms, Members
  <1>6. ASSUME NEW p, Forget(p)
        PROVE  NoneJoins
    <2> DEFINE rt == [r \in DOMAIN rooms |-> WithClients(rooms[r], Erase(rooms[r].clients, p))]
    <2>1. ASSUME NEW r \in Rooms
          PROVE  rt[r] \in RoomType /\ DOMAIN rt[r].clients \subseteq Members(r)
      <3> DEFINE c == Erase(rooms[r].clients, p)
      <3>1. c \in Tables(Client, Ids) /\ DOMAIN c \subseteq Members(r)
        <4>1. rooms[r].clients \in Tables(Client, Ids)
          BY <1>1
        <4>2. c \in Tables(Client, Ids)
          BY <4>1, EraseTable
        <4>3. DOMAIN c = DOMAIN rooms[r].clients \ {p}
          BY DEF Erase
        <4> QED
          BY <4>2, <4>3 DEF Members
      <3>2. WithClients(rooms[r], c) \in RoomType /\ WithClients(rooms[r], c).clients = c
        BY <1>1, <3>1, WriteClients
      <3>3. rt[r] = WithClients(rooms[r], c)
        BY DEF Rooms
      <3> QED
        BY <3>1, <3>2, <3>3
    <2>2. rt \in [1 .. Len(rooms) -> RoomType] /\ DOMAIN rt = Rooms
      BY <1>1, <2>1 DEF Rooms
    <2>3. rooms' = Settle(rt)
      BY <1>6 DEF Forget
    <2> HIDE DEF rt
    <2>4. rt \in Seq(RoomType)
      BY <1>1, <2>2, SeqOf
    <2>5. DOMAIN rooms' = Rooms /\ \A q \in Rooms : rooms'[q].clients = rt[q].clients
      <3>1. DOMAIN rooms' = Rooms
        BY <2>2, <2>3 DEF Settle
      <3> QED
        BY <2>2, <2>3, <2>4, <3>1, SettleMembers
    <2> QED
      BY <2>1, <2>5 DEF NoneJoins, Rooms, Members
  <1>7. CASE Boot
    BY <1>2, <1>7 DEF Boot, BootAgent, BootFail, BootClient
  <1>8. CASE ClientConnects
    BY <1>3, <1>8 DEF ClientConnects, Connect, Greet
  <1>9. CASE ClientGreets
    BY <1>3, <1>9 DEF ClientGreets, ClientAbout
  <1>10. CASE ClientListsRooms
    BY <1>3, <1>10 DEF ClientListsRooms, RoomList
  <1>11. CASE ClientRefused
    BY <1>3, <1>11 DEF ClientRefused, JoinRefused, LeaveRefused, Refuse
  <1>12. CASE ClientDisconnects
    BY <1>6, <1>12 DEF ClientDisconnects, Disconnect
  <1>13. CASE AgentLink
    BY <1>3, <1>6, <1>13 DEF AgentLink, AgentConnect, Greet, AgentLost
  <1>14. CASE LobbyServesAgent
    <2>1. TakingPort /\ QueueInv
      BY <1>14 DEF LobbyServesAgent, LobbyKeeps, TakingPort, IInv
    <2>2. \A r \in Rooms : rooms'[r].clients = rooms[r].clients
      BY <2>1, PortStep DEF TakingPort
    <2>3. DOMAIN rooms' = DOMAIN rooms
      BY <2>1 DEF TakingPort, ServerPort
    <2> QED
      BY <2>2, <2>3 DEF NoneJoins, Rooms, Members
  <1>15. CASE AgentLaunches
    BY <1>2, <1>15 DEF AgentLaunches
  <1>16. CASE Idle \/ UNCHANGED vars
    BY <1>2, <1>16 DEF Idle, vars, lobbyVars
  <1> QED
    BY <1>4, <1>5, <1>7, <1>8, <1>9, <1>10, <1>11, <1>12, <1>13, <1>14, <1>15,
       <1>16 DEF Next

\* What a room that is full owes to a step in which nobody joins.
Launched(r) == rooms[r].game_start \/ \E n \in DOMAIN rooms_wait : rooms_wait[n] = r

\* A room that runs or waits does so after the step, unless it is empty then.
LEMMA LaunchedStays ==
    ASSUME IInv, [Next]_vars, NEW r \in Rooms, Launched(r), DOMAIN rooms'[r].clients # {}
    PROVE  Launched(r)'
  <1>1. /\ rooms_wait \in Seq(1 .. Len(rooms)) /\ Rooms = 1 .. Len(rooms)
        /\ QueueInv /\ TablesOK
    BY DEF IInv, ClientInv, QueueInv, RoomsOK, QueueTypes, Rooms
  <1>2. Evolves(rooms, rooms') /\ rooms[r].game_start => rooms'[r].game_start
    BY <1>1 DEF Evolves
  <1>3. CASE Quietly
    BY <1>2, <1>3 DEF Quietly, queueVars, Launched
  <1>4. CASE Losing
    BY <1>2, <1>4 DEF Losing, Launched
  <1>5. CASE Serving
    BY <1>5 DEF Serving, Launched
  <1>6. CASE Launching
    <2>1. PICK q \in 1 .. Len(rooms) : rooms_wait' = Append(rooms_wait, q)
      BY <1>6 DEF Launching, start_room
    <2>2. \A n \in DOMAIN rooms_wait : n \in DOMAIN rooms_wait' /\ rooms_wait'[n] = rooms_wait[n]
      BY <1>1, <2>1
    <2> QED
      BY <1>2, <1>6, <2>2 DEF Launching, Launched
  <1>7. CASE TakingPort
    <2>1. rooms[r].game_start => rooms'[r].game_start
      BY <1>1, <1>7, PortStep DEF TakingPort
    <2>2. /\ rooms_wait' = Tail(rooms_wait) /\ Len(rooms_wait) \in Nat \ {0}
      <3>1. fromAgent # <<>> /\ fromAgent \in Seq(Ports) /\ toAgent \in Seq(LaunchOrder)
        BY <1>1, <1>7 DEF TakingPort, ServerPort, QueueInv, QueueTypes
      <3>2. Len(toAgent) + Len(fromAgent) <= Len(rooms_wait)
        BY <1>1 DEF QueueInv, FrontExists
      <3> QED
        BY <1>1, <1>7, <3>1, <3>2 DEF TakingPort, ServerPort
    <2>3. CASE rooms_wait[1] = r
      <3>1. Head(rooms_wait) = r
        BY <1>1, <2>2, <2>3
      <3>2. rooms'[r].game_start
        <4>1. CASE rooms[r].game_start
          BY <2>1, <4>1
        <4>2. CASE ~rooms[r].game_start
          <5> DEFINE where == Append(rooms[r].server, Head(fromAgent))
                     new == WithServer(rooms[r], TRUE, where)
          <5>1. rooms' = [rooms EXCEPT ![r] = new]
            BY <1>7, <3>1, <4>2 DEF TakingPort, ServerPort, Adopts
          <5>2. rooms[r] \in RoomType /\ rooms[r].server \in Seq(Ports)
                /\ fromAgent # <<>> /\ fromAgent \in Seq(Ports) /\ TRUE \in BOOLEAN
            <6>1. rooms[r] \in RoomType
              BY <1>1 DEF QueueInv, RoomsOK
            <6>2. rooms[r].server \in Seq(Ports)
              BY <6>1 DEF RoomType
            <6> QED
              BY <1>1, <1>7, <6>1, <6>2 DEF QueueInv, QueueTypes, TakingPort, ServerPort
          <5>3. where \in Seq(Ports)
            BY <5>2
          <5> HIDE DEF where
          <5>4. new.game_start = TRUE
            BY <5>2, <5>3, WriteServer
          <5> HIDE DEF new
          <5> QED
            BY <5>1, <5>4 DEF Rooms
        <4> QED
          BY <4>1, <4>2
      <3> QED
        BY <3>2 DEF Launched
    <2>4. ASSUME NEW n \in DOMAIN rooms_wait, rooms_wait[n] = r, rooms_wait[1] # r
          PROVE  \E k \in DOMAIN rooms_wait' : rooms_wait'[k] = r
      <3>1. n \in 2 .. Len(rooms_wait)
        BY <1>1, <2>2, <2>4
      <3>2. n - 1 \in DOMAIN Tail(rooms_wait) /\ Tail(rooms_wait)[n - 1] = rooms_wait[n]
        BY <1>1, <2>2, <3>1
      <3> QED
        BY <2>2, <2>4, <3>2
    <2> QED
      BY <2>1, <2>3, <2>4 DEF Launched
  <1> QED
    BY <1>1, <1>3, <1>4, <1>5, <1>6, <1>7, StepKinds

-----------------------------------------------------------------------------
LaunchInv == IInv /\ FullRoomHasLaunch

\* The step of a join: the room that fills up runs already or is queued.
LEMMA JoinLaunches ==
    ASSUME LaunchInv, Next, ClientJoins
    PROVE  FullRoomHasLaunch'
  <1>1. PICK p \in Client, q \in Rooms : Join(p, q)
    BY DEF ClientJoins
  <1> DEFINE i == At(wait_room, p, DefaultId)
             c == Put(rooms[q].clients, p, i)
             new == WithClients(rooms[q], c)
             rt == [rooms EXCEPT ![q] = new]
  <1>2. /\ rooms \in Seq(RoomType) /\ Rooms = 1 .. Len(rooms) /\ Len(rooms) \in Nat
        /\ rooms_wait \in Seq(1 .. Len(rooms)) /\ wait_room \in Tables(Client, Ids)
    BY DEF LaunchInv, IInv, ClientInv, TablesOK, QueueInv, RoomsOK, QueueTypes, Rooms
  <1>3. ASSUME NEW r \in Rooms
        PROVE  rooms[r] \in RoomType /\ rooms[r].clients \in Tables(Client, Ids)
               /\ Members(r) \subseteq Client
    <2>1. rooms[r] \in RoomType
      BY <1>2
    <2> QED
      BY <2>1 DEF RoomType, Members, Tables
  <1>4. i \in Ids
    BY <1>2, AtTable, Constants
  <1> HIDE DEF i
  <1>5. c \in Tables(Client, Ids)
    BY <1>3, <1>4, PutTable
  <1>6. DOMAIN c = Members(q) \cup {p}
    BY DEF Put, Members
  <1> HIDE DEF c
  <1>7. new \in RoomType /\ new.clients = c
    BY <1>3, <1>5, WriteClients
  <1>8. rooms' = Settle(rt)
    BY <1>1 DEF Join, c, i
  <1> HIDE DEF new
  <1>9. rt \in Seq(RoomType) /\ DOMAIN rt = Rooms
        /\ \A r \in Rooms : rt[r] = IF r = q THEN new ELSE rooms[r]
    BY <1>2, <1>7
  <1> HIDE DEF rt
  <1>10. DOMAIN rooms' = Rooms
    BY <1>8, <1>9 DEF Settle
  <1>11. ASSUME NEW r \in Rooms
         PROVE  Members(r)' = IF r = q THEN Members(q) \cup {p} ELSE Members(r)
    <2>1. rooms'[r].clients = rt[r].clients
      BY <1>8, <1>9, SettleMembers
    <2> QED
      BY <1>6, <1>7, <1>9, <2>1 DEF Members
  <1>12. ASSUME NEW r \in Rooms', Full(r)'
         PROVE  Launched(r)'
    <2>1. r \in Rooms /\ DOMAIN rooms'[r].clients # {}
      <3>1. r \in Rooms
        BY <1>10 DEF Rooms
      <3>2. /\ Members(r)' \subseteq Client
            /\ Cardinality(Members(r)') >= StartLevel
        BY <1>3, <1>11, <1>12, <3>1 DEF Full
      <3> QED
        BY <3>1, <3>2, FewerNotFull DEF Members
    <2>2. CASE r = q
      <3>1. Cardinality(Members(q) \cup {p}) >= StartLevel
        BY <1>11, <1>12, <2>2 DEF Full
      <3>2. CASE rooms[q].game_start
        BY <2>1, <2>2, <3>2, LaunchedStays DEF LaunchInv, Launched
      <3>3. CASE ~rooms[q].game_start
        <4>1. Starts(p, q)
          BY <3>1, <3>3 DEF Starts
        <4>2. rooms_wait' = Append(rooms_wait, q)
          BY <1>1, <4>1 DEF Join, start_room
        <4>3. Len(rooms_wait) + 1 \in DOMAIN rooms_wait' /\ rooms_wait'[Len(rooms_wait) + 1] = q
          BY <1>2, <4>2
        <4> QED
          BY <2>2, <4>3 DEF Launched
      <3> QED
        BY <3>2, <3>3
    <2>3. CASE r # q
      <3>1. Full(r)
        BY <1>11, <1>12, <2>1, <2>3 DEF Full
      <3>2. Launched(r)
        BY <2>1, <3>1 DEF LaunchInv, FullRoomHasLaunch, Launched
      <3> QED
        BY <2>1, <3>2, LaunchedStays DEF LaunchInv
    <2> QED
      BY <2>2, <2>3
  <1> QED
    BY <1>12 DEF FullRoomHasLaunch, Launched

\* The other steps: a room that is full after the step was full before it.
LEMMA OthersKeepLaunches ==
    ASSUME LaunchInv, [Next]_vars, NoneJoins
    PROVE  FullRoomHasLaunch'
  <1>1. ASSUME NEW r \in Rooms', Full(r)'
        PROVE  Launched(r)'
    <2>1. Cardinality(Members(r)') >= StartLevel
      BY <1>1 DEF Full
    <2>2. Members(r)' \subseteq (IF r \in Rooms THEN Members(r) ELSE {})
      BY DEF NoneJoins
    <2>3. (IF r \in Rooms THEN Members(r) ELSE {}) \subseteq Client
      <3>1. CASE r \in Rooms
        <4>1. rooms[r] \in RoomType
          BY <3>1 DEF LaunchInv, IInv, QueueInv, RoomsOK, Rooms
        <4> QED
          BY <3>1, <4>1 DEF RoomType, Tables, Members
      <3>2. CASE r \notin Rooms
        BY <3>2
      <3> QED
        BY <3>1, <3>2
    <2>4. /\ Cardinality(IF r \in Rooms THEN Members(r) ELSE {}) >= StartLevel
          /\ Members(r)' # {}
      BY <2>1, <2>2, <2>3, FewerNotFull
    <2>5. r \in Rooms /\ Full(r)
      BY <2>2, <2>4 DEF Full
    <2>6. Launched(r)
      BY <2>5 DEF LaunchInv, FullRoomHasLaunch, Launched
    <2> QED
      BY <2>4, <2>5, <2>6, LaunchedStays DEF LaunchInv, Members
  <1> QED
    BY <1>1 DEF FullRoomHasLaunch, Launched

\* Joins, leaves, disconnects, resets and late ports never leave a room with
\* enough members without a game and without a port on order.
THEOREM FullRoomsHaveLaunches == Spec => []FullRoomHasLaunch
  <1>1. Init => LaunchInv
    <2>1. Init => Rooms = {}
      BY DEF Init, LobbyInit, Rooms
    <2> QED
      BY <2>1, Start DEF LaunchInv, FullRoomHasLaunch
  <1>2. LaunchInv /\ [Next]_vars => FullRoomHasLaunch'
    <2> SUFFICES ASSUME LaunchInv, [Next]_vars
                 PROVE  FullRoomHasLaunch'
      OBVIOUS
    <2>1. CASE NoneJoins
      BY <2>1, OthersKeepLaunches
    <2>2. CASE ClientJoins
      BY <2>2, JoinLaunches DEF Next
    <2> QED
      BY <2>1, <2>2, OnlyJoinsAdd DEF LaunchInv
  <1>3. LaunchInv /\ [Next]_vars => LaunchInv'
    <2>1. IInv /\ [Next]_vars => IInv'
      BY QueueKept, ClientKept DEF IInv, ClientInv
    <2> QED
      BY <1>2, <2>1 DEF LaunchInv
  <1>4. LaunchInv => FullRoomHasLaunch
    BY DEF LaunchInv
  <1> QED
    BY <1>1, <1>3, <1>4, PTL DEF Spec

-----------------------------------------------------------------------------
(***************************************************************************)
(* The lobby and the agent implement the matchmaker of Matchmaker.tla: the *)
(* initial states map to its initial state and every step maps to one of   *)
(* its steps or to none.                                                   *)
(***************************************************************************)

\* The tail over the rooms has run: no room without members has a game.
Swept == \A r \in Rooms' : Members(r)' = {} => ~rooms'[r].game_start

\* Only p entered or left rooms.
OnlyMoves(p) == \A r \in Places : RoomPlayers'[r] \ {p} = RoomPlayers[r] \ {p}

\* Rooms and members after a handler that wrote rt and ran the tail.
LEMMA SweepStep ==
    ASSUME NEW rt \in Seq(RoomType), rooms' = Settle(rt)
    PROVE  /\ Swept
           /\ Rooms' = DOMAIN rt
           /\ \A r \in DOMAIN rt : Members(r)' = DOMAIN rt[r].clients
  <1>1. Rooms' = DOMAIN rt
    BY DEF Settle, Rooms
  <1>2. ASSUME NEW r \in DOMAIN rt
        PROVE  /\ rooms'[r].clients = rt[r].clients
               /\ DOMAIN rt[r].clients = {} => ~rooms'[r].game_start
    <2>1. rt[r] \in RoomType /\ <<>> \in Seq(Ports) /\ FALSE \in BOOLEAN
      OBVIOUS
    <2>2. /\ WithServer(rt[r], FALSE, <<>>).clients = rt[r].clients
          /\ WithServer(rt[r], FALSE, <<>>).game_start = FALSE
      BY <2>1, WriteServer
    <2> QED
      BY <2>1, <2>2 DEF Settle
  <1> QED
    BY <1>1, <1>2 DEF Swept, Members

\* What the members of the rooms are, as the matchmaker sees them.
LEMMA PlayersStep ==
    ASSUME IInv, NEW rt \in Seq(RoomType), rooms' = Settle(rt), NEW p,
           Rooms \subseteq DOMAIN rt,
           \A r \in DOMAIN rt : DOMAIN rt[r].clients \ {p}
                                  = (IF r \in Rooms THEN Members(r) ELSE {}) \ {p}
    PROVE  Swept /\ OnlyMoves(p)
  <1>1. Swept /\ Rooms' = DOMAIN rt /\ \A r \in DOMAIN rt : Members(r)' = DOMAIN rt[r].clients
    BY SweepStep
  <1>2. ASSUME NEW r \in Places
        PROVE  RoomPlayers'[r] \ {p} = RoomPlayers[r] \ {p}
    <2>1. /\ RoomPlayers[r] = IF r \in Rooms THEN Members(r) ELSE {}
          /\ RoomPlayers'[r] = IF r \in Rooms' THEN Members(r)' ELSE {}
      BY DEF RoomPlayers, Places
    <2>2. CASE r \in DOMAIN rt
      BY <1>1, <2>1, <2>2
    <2>3. CASE r \notin DOMAIN rt
      BY <1>1, <2>1, <2>3
    <2> QED
      BY <2>2, <2>3
  <1> QED
    BY <1>1, <1>2 DEF OnlyMoves

\* Rooms of the inductive invariant.
LEMMA RoomFacts ==
    ASSUME IInv
    PROVE  /\ rooms \in Seq(RoomType) /\ Len(rooms) \in Nat /\ Len(rooms) <= MaxRooms
           /\ Rooms = 1 .. Len(rooms) /\ Rooms \subseteq Places
           /\ \A r \in Rooms : /\ RoomOK(rooms[r]) /\ rooms[r] \in RoomType
                               /\ rooms[r].clients \in Tables(Client, Ids)
                               /\ Members(r) \subseteq Client
  <1>1. rooms \in Seq(RoomType) /\ Len(rooms) <= MaxRooms /\ Rooms = 1 .. Len(rooms)
        /\ \A r \in 1 .. Len(rooms) : RoomOK(rooms[r])
    BY DEF IInv, QueueInv, RoomsOK, Rooms
  <1>2. \A r \in Rooms : rooms[r] \in RoomType
    BY <1>1
  <1>3. \A r \in Rooms : rooms[r].clients \in Tables(Client, Ids)
    BY <1>2 DEF RoomType
  <1>4. \A r \in Rooms : Members(r) \subseteq Client
    BY <1>3 DEF Members, Tables
  <1>5. Rooms \subseteq Places
    BY <1>1, LobbyAssumption DEF Places
  <1> QED
    BY <1>1, <1>2, <1>3, <1>4, <1>5

\* A peer that is no client leaves nothing behind.
LEMMA NobodyMoves ==
    ASSUME IInv, NEW p, p \notin Client, OnlyMoves(p), Swept,
           \A r \in Rooms' : Members(r)' \subseteq Client
    PROVE  RoomPlayers' = RoomPlayers
  <1>1. \A r \in Places : RoomPlayers[r] \subseteq Client /\ RoomPlayers'[r] \subseteq Client
    BY RoomFacts DEF RoomPlayers
  <1>2. \A r \in Places : RoomPlayers'[r] = RoomPlayers[r]
    BY <1>1 DEF OnlyMoves
  <1> QED
    BY <1>2 DEF RoomPlayers

\* One room's members change, by p at most.
LEMMA EditStep ==
    ASSUME IInv, NEW r \in Rooms, NEW p, NEW c \in Tables(Client, Ids),
           DOMAIN c \ {p} = Members(r) \ {p},
           rooms' = Settle([rooms EXCEPT ![r] = WithClients(@, c)])
    PROVE  Swept /\ OnlyMoves(p)
  <1> DEFINE new == WithClients(rooms[r], c)
             rt == [rooms EXCEPT ![r] = new]
  <1>1. /\ rooms \in Seq(RoomType) /\ Rooms = 1 .. Len(rooms) /\ Len(rooms) \in Nat
        /\ rooms[r] \in RoomType
    BY RoomFacts
  <1>2. new \in RoomType /\ new.clients = c
    BY <1>1, WriteClients
  <1>3. rooms' = Settle(rt)
    OBVIOUS
  <1> HIDE DEF new
  <1>4. rt \in Seq(RoomType) /\ DOMAIN rt = Rooms
        /\ \A q \in Rooms : rt[q] = IF q = r THEN new ELSE rooms[q]
    BY <1>1, <1>2
  <1> HIDE DEF rt
  <1>5. \A q \in DOMAIN rt : DOMAIN rt[q].clients \ {p}
                               = (IF q \in Rooms THEN Members(q) ELSE {}) \ {p}
    BY <1>2, <1>4 DEF Members
  <1> QED
    BY <1>3, <1>4, <1>5, PlayersStep

\* The tail alone: nobody moves.
LEMMA TailStep ==
    ASSUME IInv, rooms' = Settle(rooms)
    PROVE  Swept /\ RoomPlayers' = RoomPlayers
  <1>1. rooms \in Seq(RoomType) /\ Rooms = DOMAIN rooms
    BY RoomFacts DEF Rooms
  <1>2. /\ Swept /\ Rooms' = Rooms
        /\ \A r \in Rooms : Members(r)' = DOMAIN rooms[r].clients
    BY <1>1, SweepStep
  <1>3. \A r \in Rooms : Members(r)' = Members(r)
    BY <1>2 DEF Members
  <1> QED
    BY <1>2, <1>3 DEF RoomPlayers

\* A peer leaves every room.
LEMMA ForgetStep ==
    ASSUME IInv, NEW p \in Peer, Forget(p)
    PROVE  Swept /\ OnlyMoves(p) /\ (p \notin Client => RoomPlayers' = RoomPlayers)
  <1> DEFINE rt == [r \in DOMAIN rooms |-> WithClients(rooms[r], Erase(rooms[r].clients, p))]
  <1>1. ASSUME NEW r \in Rooms
        PROVE  rt[r] \in RoomType /\ DOMAIN rt[r].clients = Members(r) \ {p}
    <2> DEFINE c == Erase(rooms[r].clients, p)
    <2>1. c \in Tables(Client, Ids) /\ rooms[r] \in RoomType
      BY RoomFacts, EraseTable
    <2>2. DOMAIN c = Members(r) \ {p}
      BY DEF Erase, Members
    <2>3. WithClients(rooms[r], c) \in RoomType /\ WithClients(rooms[r], c).clients = c
      BY <2>1, WriteClients
    <2>4. rt[r] = WithClients(rooms[r], c)
      BY DEF Rooms
    <2> QED
      BY <2>2, <2>3, <2>4
  <1>2. rt \in [1 .. Len(rooms) -> RoomType] /\ DOMAIN rt = Rooms /\ Len(rooms) \in Nat
        /\ Rooms = 1 .. Len(rooms)
    BY <1>1, RoomFacts DEF Rooms
  <1>3. rooms' = Settle(rt)
    BY DEF Forget
  <1> HIDE DEF rt
  <1>4. rt \in Seq(RoomType)
    BY <1>2, SeqOf
  <1>5. Swept /\ OnlyMoves(p)
    BY <1>1, <1>2, <1>3, <1>4, PlayersStep
  <1>6. \A r \in Rooms' : Members(r)' \subseteq Client
    BY <1>1, <1>2, <1>3, <1>4, SweepStep, RoomFacts
  <1> QED
    BY <1>5, <1>6, NobodyMoves

\* A new room has nobody in it.
LEMMA CreateStep ==
    ASSUME IInv, NEW p \in Client, NEW max \in Capacity, NEW s \in Settings,
           NewRoomInfo(p, max, s)
    PROVE  Swept /\ RoomPlayers' = RoomPlayers
  <1> DEFINE rt == Append(rooms, NewRoom(max, s))
  <1>1. NewRoom(max, s) \in RoomType /\ NewRoom(max, s).clients = NoEntries
    <2>1. NoEntries \in Tables(Client, Ids) /\ <<>> \in Seq(Ports)
      BY EmptyTable
    <2> QED
      BY <2>1 DEF NewRoom, RoomType
  <1>2. rooms \in Seq(RoomType) /\ Rooms = 1 .. Len(rooms) /\ Len(rooms) \in Nat
    BY RoomFacts
  <1>3. /\ rt \in Seq(RoomType) /\ DOMAIN rt = 1 .. Len(rooms) + 1
        /\ \A r \in Rooms : rt[r] = rooms[r]
        /\ rt[Len(rooms) + 1] = NewRoom(max, s)
    BY <1>1, <1>2
  <1>4. rooms' = Settle(rt)
    BY DEF NewRoomInfo
  <1> HIDE DEF rt
  <1>5. Swept /\ Rooms' = DOMAIN rt /\ \A r \in DOMAIN rt : Members(r)' = DOMAIN rt[r].clients
    BY <1>3, <1>4, SweepStep
  <1>6. \A r \in Rooms' : Members(r)' = IF r \in Rooms THEN Members(r) ELSE {}
    <2>1. \A r \in Rooms' : r \in Rooms \/ (r = Len(rooms) + 1 /\ r \notin Rooms)
      BY <1>2, <1>3, <1>5
    <2>2. DOMAIN NoEntries = {}
      BY DEF NoEntries
    <2> QED
      BY <1>1, <1>3, <1>5, <2>1, <2>2 DEF Members
  <1>7. Rooms \subseteq Rooms'
    BY <1>2, <1>3, <1>5
  <1> QED
    BY <1>5, <1>6, <1>7 DEF RoomPlayers

\* Every step but the two that move ports leaves the rooms alone, only runs
\* the tail, or moves one client and runs it.
RoomsAlone == UNCHANGED rooms
TailOnly == Swept /\ RoomPlayers' = RoomPlayers
ClientMoves == \E p \in Client : Swept /\ OnlyMoves(p)

LEMMA StepMoves ==
    ASSUME IInv, [Next]_vars
    PROVE  RoomsAlone \/ TailOnly \/ ClientMoves \/ LobbyServesAgent
  <1>1. rooms' = Settle(rooms) => TailOnly
    BY TailStep DEF TailOnly
  <1>2. CASE Boot
    BY <1>2 DEF Boot, BootAgent, BootFail, BootClient, RoomsAlone
  <1>3. CASE ClientConnects
    BY <1>1, <1>3 DEF ClientConnects, Connect, Greet
  <1>4. CASE ClientGreets
    BY <1>1, <1>4 DEF ClientGreets, ClientAbout
  <1>5. CASE ClientListsRooms
    BY <1>1, <1>5 DEF ClientListsRooms, RoomList
  <1>6. CASE ClientRefused
    BY <1>1, <1>6 DEF ClientRefused, JoinRefused, LeaveRefused, Refuse
  <1>7. CASE ClientCreatesRoom
    <2>1. PICK p \in Client, max \in Capacity, s \in Settings : NewRoomInfo(p, max, s)
      BY <1>7 DEF ClientCreatesRoom
    <2> QED
      BY <2>1, CreateStep DEF TailOnly
  <1>8. CASE ClientJoins
    <2>1. PICK p \in Client, r \in Rooms : Join(p, r)
      BY <1>8 DEF ClientJoins
    <2> DEFINE i == At(wait_room, p, DefaultId)
               c == Put(rooms[r].clients, p, i)
    <2>2. i \in Ids
      BY AtTable, Constants DEF IInv, ClientInv, TablesOK
    <2>3. c \in Tables(Client, Ids)
      BY <2>2, RoomFacts, PutTable
    <2>4. DOMAIN c \ {p} = Members(r) \ {p}
      BY DEF Put, Members
    <2>5. rooms' = Settle([rooms EXCEPT ![r] = WithClients(@, c)])
      <3>1. [rooms EXCEPT ![r] = WithClients(@, c)]
              = [rooms EXCEPT ![r] = WithClients(@, Put(@.clients, p, i))]
        BY DEF Rooms
      <3> QED
        BY <2>1, <3>1 DEF Join
    <2> HIDE DEF c
    <2> QED
      BY <2>3, <2>4, <2>5, EditStep DEF ClientMoves
  <1>9. CASE ClientLeaves
    <2>1. PICK p \in Client, r \in Rooms : Leave(p, r)
      BY <1>9 DEF ClientLeaves
    <2> DEFINE c == Erase(rooms[r].clients, p)
    <2>2. c \in Tables(Client, Ids)
      BY RoomFacts, EraseTable
    <2>3. DOMAIN c \ {p} = Members(r) \ {p}
      BY DEF Erase, Members
    <2>4. rooms' = Settle([rooms EXCEPT ![r] = WithClients(@, c)])
      <3>1. [rooms EXCEPT ![r] = WithClients(@, c)]
              = [rooms EXCEPT ![r] = WithClients(@, Erase(@.clients, p))]
        BY DEF Rooms
      <3> QED
        BY <2>1, <3>1 DEF Leave
    <2> HIDE DEF c
    <2> QED
      BY <2>2, <2>3, <2>4, EditStep DEF ClientMoves
  <1>10. CASE ClientDisconnects
    <2>1. PICK p \in Peer : Disconnect(p)
      BY <1>10 DEF ClientDisconnects
    <2>2. Forget(p)
      BY <2>1 DEF Disconnect
    <2> QED
      BY <2>2, ForgetStep DEF ClientMoves, TailOnly
  <1>11. CASE AgentLink
    <2>1. CASE AgentConnect
      BY <1>1, <2>1 DEF AgentConnect, Greet
    <2>2. CASE AgentLost
      <3>1. AgentSlot \in Peer /\ AgentSlot \notin Client /\ Forget(AgentSlot)
        BY <2>2, LobbyAssumption DEF AgentLost, Client
      <3> QED
        BY <3>1, ForgetStep DEF TailOnly
    <2> QED
      BY <1>11, <2>1, <2>2 DEF AgentLink
  <1>12. CASE AgentLaunches
    BY <1>12 DEF AgentLaunches, RoomsAlone
  <1>13. CASE Idle \/ UNCHANGED vars
    BY <1>13 DEF Idle, vars, lobbyVars, RoomsAlone
  <1> QED
    BY <1>2, <1>3, <1>4, <1>5, <1>6, <1>7, <1>8, <1>9, <1>10, <1>11, <1>12,
       <1>13 DEF Next

\* When the tail has run, the games left are those of rooms with players.
LEMMA GamesKept ==
    ASSUME IInv, Swept, Evolves(rooms, rooms')
    PROVE  /\ RoomGames' = Promise!Kept(RoomPlayers')
           /\ RoomPlayers' \in [Places -> SUBSET Client]
  <1>1. /\ rooms' \in Seq(RoomType) /\ Len(rooms) <= Len(rooms') /\ Len(rooms) \in Nat
        /\ Len(rooms') \in Nat /\ Rooms = 1 .. Len(rooms) /\ Rooms' = 1 .. Len(rooms')
    BY RoomFacts DEF Evolves, Rooms
  <1>2. \A r \in Rooms' : Members(r)' \subseteq Client
    <2>1. \A r \in Rooms' : rooms'[r] \in RoomType
      BY <1>1
    <2> QED
      BY <2>1 DEF RoomType, Tables, Members
  <1>3. ASSUME NEW r \in Places
        PROVE  RoomGames'[r] = IF RoomPlayers'[r] = {} THEN <<>> ELSE RoomGames[r]
    <2>1. /\ RoomPlayers'[r] = IF r \in Rooms' THEN Members(r)' ELSE {}
          /\ RoomGames'[r] = IF r \in Rooms' /\ rooms'[r].game_start
                             THEN rooms'[r].server ELSE <<>>
          /\ RoomGames[r] = IF r \in Rooms /\ rooms[r].game_start
                            THEN rooms[r].server ELSE <<>>
      BY DEF RoomPlayers, RoomGames, Places
    <2>2. CASE r \notin Rooms' \/ Members(r)' = {}
      BY <2>1, <2>2 DEF Swept
    <2>3. CASE r \in Rooms' /\ Members(r)' # {}
      <3>1. rooms'[r].game_start => /\ r \in Rooms /\ rooms[r].game_start
                                    /\ rooms'[r].server = rooms[r].server
        BY <1>1, <2>3 DEF Evolves
      <3>2. r \in Rooms /\ rooms[r].game_start => rooms'[r].game_start
        BY <1>1, <2>3 DEF Evolves, Members
      <3> QED
        BY <2>1, <2>3, <3>1, <3>2
    <2> QED
      BY <2>2, <2>3
  <1>4. RoomGames' = [r \in Places |-> RoomGames'[r]] /\ DOMAIN RoomPlayers' = Places
    BY DEF RoomGames, RoomPlayers, Places
  <1>5. RoomGames' = Promise!Kept(RoomPlayers')
    BY <1>3, <1>4 DEF Promise!Kept, Promise!NoGame
  <1> QED
    BY <1>2, <1>5 DEF RoomPlayers

-----------------------------------------------------------------------------
(***************************************************************************)
(* Ports.                                                                  *)
(***************************************************************************)
LEMMA PortFacts ==
    ASSUME IInv
    PROVE  /\ fromAgent \in Seq(Ports) /\ min_port \in Nat
           /\ Ports = FirstPort .. LastPort - 1 /\ FirstPort \in Nat /\ LastPort \in Nat
           /\ \A port \in Ports : port \in Nat
           /\ \A n \in DOMAIN fromAgent : fromAgent[n] < min_port
           /\ \A n, k \in DOMAIN fromAgent : n # k => fromAgent[n] # fromAgent[k]
  <1>1. fromAgent \in Seq(Ports) /\ min_port \in Nat
    BY DEF IInv, QueueInv, QueueTypes
  <1>2. DOMAIN fromAgent = 1 .. Len(fromAgent)
    BY <1>1
  <1>3. Fresh
    BY DEF IInv, QueueInv
  <1>4. /\ Ports = FirstPort .. LastPort - 1 /\ FirstPort \in Nat /\ LastPort \in Nat
        /\ \A port \in Ports : port \in Nat
    BY PortAssumption DEF Ports
  <1> QED
    BY <1>1, <1>2, <1>3, <1>4 DEF Fresh

\* A new port goes straight onto the channel: none is spent.
LEMMA LaunchSpends ==
    ASSUME IInv, AgentLaunches
    PROVE  SpentPorts' = SpentPorts
  <1>1. fromAgent' = Append(fromAgent, min_port) /\ min_port' = min_port + 1
    BY DEF AgentLaunches, Agent!CreateServer
  <1>2. /\ DOMAIN fromAgent' = 1 .. Len(fromAgent) + 1 /\ DOMAIN fromAgent = 1 .. Len(fromAgent)
        /\ Len(fromAgent) \in Nat
        /\ \A n \in 1 .. Len(fromAgent) : fromAgent'[n] = fromAgent[n]
        /\ fromAgent'[Len(fromAgent) + 1] = min_port
    BY <1>1, PortFacts
  <1>3. ASSUME NEW port \in Ports
        PROVE  (port < min_port' /\ \A n \in DOMAIN fromAgent' : fromAgent'[n] # port)
                 <=> (port < min_port /\ \A n \in DOMAIN fromAgent : fromAgent[n] # port)
    <2>1. port \in Nat /\ min_port \in Nat
      BY PortFacts
    <2>2. (\A n \in DOMAIN fromAgent' : fromAgent'[n] # port)
            <=> (\A n \in DOMAIN fromAgent : fromAgent[n] # port) /\ port # min_port
      <3>1. \A n \in DOMAIN fromAgent' : n \in 1 .. Len(fromAgent) \/ n = Len(fromAgent) + 1
        BY <1>2
      <3>2. DOMAIN fromAgent \subseteq DOMAIN fromAgent' /\ Len(fromAgent) + 1 \in DOMAIN fromAgent'
        BY <1>2
      <3> QED
        BY <1>2, <3>1, <3>2
    <2>3. port < min_port' <=> port < min_port \/ port = min_port
      BY <1>1, <2>1
    <2>4. port < min_port => port # min_port
      BY <2>1
    <2> QED
      BY <2>2, <2>3, <2>4
  <1> QED
    BY <1>3 DEF SpentPorts, Ports

\* The port the lobby reads is spent by that and was not before.
LEMMA TakingSpends ==
    ASSUME IInv, LobbyServesAgent
    PROVE  /\ Head(fromAgent) \in Ports /\ Head(fromAgent) \notin SpentPorts
           /\ SpentPorts' = SpentPorts \cup {Head(fromAgent)}
  <1>1. /\ fromAgent # <<>> /\ fromAgent' = Tail(fromAgent) /\ min_port' = min_port
    BY DEF LobbyServesAgent, ServerPort, LobbyKeeps
  <1>2. /\ Len(fromAgent) \in Nat \ {0} /\ DOMAIN fromAgent = 1 .. Len(fromAgent)
        /\ Head(fromAgent) = fromAgent[1] /\ Head(fromAgent) \in Ports
        /\ DOMAIN fromAgent' = 1 .. Len(fromAgent) - 1
        /\ \A n \in 1 .. Len(fromAgent) - 1 : fromAgent'[n] = fromAgent[n + 1]
    BY <1>1, PortFacts
  <1>3. 1 \in DOMAIN fromAgent /\ Head(fromAgent) < min_port
    <2>1. 1 \in DOMAIN fromAgent
      BY <1>2
    <2> QED
      BY <1>2, <2>1, PortFacts
  <1>4. Head(fromAgent) \notin SpentPorts
    BY <1>2, <1>3 DEF SpentPorts
  <1>5. ASSUME NEW port \in Ports
        PROVE  (\A n \in DOMAIN fromAgent' : fromAgent'[n] # port)
                 <=> (\A n \in DOMAIN fromAgent : fromAgent[n] # port) \/ port = Head(fromAgent)
    <2>1. ASSUME \A n \in DOMAIN fromAgent' : fromAgent'[n] # port, port # Head(fromAgent),
                 NEW n \in DOMAIN fromAgent
          PROVE  fromAgent[n] # port
      <3>1. CASE n = 1
        BY <1>2, <2>1, <3>1
      <3>2. CASE n # 1
        <4>1. n - 1 \in DOMAIN fromAgent' /\ fromAgent'[n - 1] = fromAgent[n]
          BY <1>2, <3>2
        <4> QED
          BY <2>1, <4>1
      <3> QED
        BY <3>1, <3>2
    <2>2. ASSUME port = Head(fromAgent), NEW n \in DOMAIN fromAgent'
          PROVE  fromAgent'[n] # port
      <3>1. n + 1 \in DOMAIN fromAgent /\ n + 1 # 1 /\ fromAgent'[n] = fromAgent[n + 1]
        BY <1>2
      <3> QED
        BY <1>2, <1>3, <2>2, <3>1, PortFacts
    <2>3. ASSUME \A n \in DOMAIN fromAgent : fromAgent[n] # port, NEW n \in DOMAIN fromAgent'
          PROVE  fromAgent'[n] # port
      <3>1. n + 1 \in DOMAIN fromAgent /\ fromAgent'[n] = fromAgent[n + 1]
        BY <1>2
      <3> QED
        BY <2>3, <3>1
    <2> QED
      BY <2>1, <2>2, <2>3
  <1>6. SpentPorts' = {port \in Ports : /\ port < min_port
                                        /\ \A n \in DOMAIN fromAgent' : fromAgent'[n] # port}
    BY <1>1 DEF SpentPorts, Ports
  <1>7. SpentPorts' = SpentPorts \cup {Head(fromAgent)}
    BY <1>2, <1>3, <1>5, <1>6 DEF SpentPorts
  <1> QED
    BY <1>2, <1>4, <1>7

\* Losing the agent loses the ports on their way.
LEMMA LosingSpends ==
    ASSUME IInv, fromAgent' = <<>>, min_port' = min_port
    PROVE  \E P \in SUBSET Ports : SpentPorts' = SpentPorts \cup P
  <1>1. SpentPorts' = {port \in Ports : port < min_port}
    BY DEF SpentPorts, Ports
  <1>2. SpentPorts \subseteq SpentPorts' /\ SpentPorts' \subseteq Ports
    BY <1>1 DEF SpentPorts
  <1>3. SpentPorts' \in SUBSET Ports /\ SpentPorts' = SpentPorts \cup SpentPorts'
    BY <1>2
  <1> QED
    BY <1>3

\* Serving the agent: the oldest waiting room begins its game on the port, or
\* the port is wasted.
LEMMA ServingMaps ==
    ASSUME IInv, LobbyServesAgent
    PROVE  Promise!Next
  <1> DEFINE r == Head(rooms_wait)
             port == Head(fromAgent)
             new == WithServer(rooms[r], TRUE, Append(rooms[r].server, port))
  <1>1. /\ port \in Ports /\ port \notin SpentPorts /\ SpentPorts' = SpentPorts \cup {port}
    BY TakingSpends
  <1>2. /\ ServerPort /\ UNCHANGED <<min_port, servers>> /\ QueueInv
    BY DEF LobbyServesAgent, LobbyKeeps, IInv
  <1>3. \A q \in Rooms : rooms'[q].clients = rooms[q].clients
    BY <1>2, PortStep
  <1>4. Rooms' = Rooms
    BY <1>2 DEF ServerPort, Rooms
  <1>5. RoomPlayers' = RoomPlayers
    BY <1>3, <1>4 DEF RoomPlayers, Members
  <1>6. CASE ~Adopts(r)
    <2>1. rooms' = rooms
      BY <1>2, <1>6 DEF ServerPort
    <2>2. RoomGames' = RoomGames
      BY <2>1 DEF RoomGames, Rooms
    <2>3. {port} \in SUBSET Ports /\ Promise!Waste({port})
      BY <1>1, <1>5, <2>2 DEF Promise!Waste
    <2> QED
      BY <2>3 DEF Promise!Next
  <1>7. CASE Adopts(r)
    <2>1. rooms' = [rooms EXCEPT ![r] = new] /\ ~rooms[r].game_start
      BY <1>2, <1>7 DEF ServerPort, Adopts
    <2>2. r \in Rooms
      <3>1. /\ rooms_wait \in Seq(1 .. Len(rooms)) /\ fromAgent \in Seq(Ports)
            /\ toAgent \in Seq(LaunchOrder)
        BY <1>2 DEF QueueInv, QueueTypes
      <3>2. Len(toAgent) + Len(fromAgent) <= Len(rooms_wait) /\ fromAgent # <<>>
        BY <1>2 DEF QueueInv, FrontExists, ServerPort
      <3>3. rooms_wait # <<>>
        BY <3>1, <3>2
      <3> QED
        BY <3>1, <3>3, RoomFacts
    <2>3. rooms[r].server = <<>> /\ rooms[r] \in RoomType
      BY <2>1, <2>2, RoomFacts DEF RoomOK
    <2>4. new.game_start = TRUE /\ new.server = <<port>>
      <3>1. <<port>> \in Seq(Ports) /\ TRUE \in BOOLEAN
        BY <1>1
      <3>2. Append(rooms[r].server, port) = <<port>>
        BY <2>3
      <3>3. new = WithServer(rooms[r], TRUE, <<port>>)
        BY <3>2
      <3> HIDE DEF new
      <3> QED
        BY <2>3, <3>1, <3>3, WriteServer
    <2> HIDE DEF new
    <2>5. ASSUME NEW q \in Rooms
          PROVE  rooms'[q] = IF q = r THEN new ELSE rooms[q]
      BY <2>1 DEF Rooms
    <2>6. RoomGames' = [RoomGames EXCEPT ![r] = <<port>>]
      <3> HIDE DEF r, port
      <3>1. ASSUME NEW q \in Places
            PROVE  RoomGames'[q] = IF q = r THEN <<port>> ELSE RoomGames[q]
        <4>1. /\ RoomGames[q] = IF q \in Rooms /\ rooms[q].game_start
                                THEN rooms[q].server ELSE <<>>
              /\ RoomGames'[q] = IF q \in Rooms /\ rooms'[q].game_start
                                 THEN rooms'[q].server ELSE <<>>
          BY <1>4 DEF RoomGames, Places
        <4> QED
          BY <2>2, <2>4, <2>5, <4>1
      <3>2. RoomGames' = [q \in Places |-> RoomGames'[q]]
            /\ RoomGames = [q \in Places |-> RoomGames[q]]
        BY DEF RoomGames, Places
      <3> QED
        BY <3>1, <3>2
    <2> HIDE DEF r, port
    <2>7. r \in Places /\ RoomGames[r] = <<>>
      <3>1. r \in Places
        BY <2>2, RoomFacts
      <3> QED
        BY <2>1, <3>1 DEF RoomGames
    <2>8. Promise!Begin(r, port)
      BY <1>1, <1>5, <2>6, <2>7 DEF Promise!Begin, Promise!NoGame
    <2> QED
      BY <1>1, <2>7, <2>8 DEF Promise!Next
  <1> QED
    BY <1>6, <1>7

\* A step that leaves the ports on their way alone starts no game.
LEMMA QuietEvolves ==
    ASSUME IInv, [Next]_vars, fromAgent' = fromAgent
    PROVE  Evolves(rooms, rooms')
  <1>1. fromAgent \in Seq(Ports)
    BY PortFacts
  <1>2. ~Serving
    <2>1. Append(fromAgent, min_port) # fromAgent
      BY <1>1
    <2> QED
      BY <2>1 DEF Serving, Agent!CreateServer
  <1>3. ~TakingPort
    <2>1. fromAgent # <<>> => Tail(fromAgent) # fromAgent
      BY <1>1
    <2> QED
      BY <2>1 DEF TakingPort, ServerPort
  <1> QED
    BY <1>2, <1>3, StepKinds DEF Quietly, Launching, Losing, IInv, ClientInv

\* The steps that neither lose the agent nor move a port.
LEMMA QuietMaps ==
    ASSUME IInv, [Next]_vars, fromAgent' = fromAgent, min_port' = min_port,
           ~LobbyServesAgent
    PROVE  Promise!Next \/ UNCHANGED Promise!vars
  <1>1. SpentPorts' = SpentPorts
    BY DEF SpentPorts, Ports
  <1>2. Evolves(rooms, rooms')
    BY QuietEvolves
  <1>3. CASE RoomsAlone
    <2>1. RoomPlayers' = RoomPlayers /\ RoomGames' = RoomGames
      BY <1>3 DEF RoomsAlone, RoomPlayers, RoomGames, Rooms, Members
    <2> QED
      BY <1>1, <2>1 DEF Promise!vars
  <1>4. CASE TailOnly
    <2>1. RoomGames' = Promise!Kept(RoomPlayers)
      BY <1>2, <1>4, GamesKept DEF TailOnly
    <2>2. Promise!Waste({})
      BY <1>1, <1>4, <2>1 DEF Promise!Waste, TailOnly
    <2> QED
      BY <2>2 DEF Promise!Next
  <1>5. CASE ClientMoves
    <2>1. PICK p \in Client : Swept /\ OnlyMoves(p)
      BY <1>5 DEF ClientMoves
    <2>2. RoomGames' = Promise!Kept(RoomPlayers') /\ RoomPlayers' \in [Places -> SUBSET Client]
      BY <1>2, <2>1, GamesKept
    <2>3. Promise!Move(p)
      BY <1>1, <2>1, <2>2 DEF Promise!Move, OnlyMoves
    <2> QED
      BY <2>3 DEF Promise!Next
  <1> QED
    BY <1>3, <1>4, <1>5, StepMoves

\* Losing the agent.
LEMMA LostMaps ==
    ASSUME IInv, AgentLost, LobbyKeeps
    PROVE  Promise!Next
  <1>1. AgentSlot \in Peer /\ AgentSlot \notin Client /\ Forget(AgentSlot)
    BY LobbyAssumption DEF AgentLost, Client
  <1>2. Swept /\ RoomPlayers' = RoomPlayers
    BY <1>1, ForgetStep
  <1>3. Evolves(rooms, rooms')
    BY <1>1, EraseEvolves DEF Forget, IInv, QueueInv, RoomsOK
  <1>4. RoomGames' = Promise!Kept(RoomPlayers)
    BY <1>2, <1>3, GamesKept
  <1>5. PICK P \in SUBSET Ports : SpentPorts' = SpentPorts \cup P
    BY LosingSpends DEF AgentLost, LobbyKeeps
  <1>6. Promise!Waste(P)
    BY <1>2, <1>4, <1>5 DEF Promise!Waste
  <1> QED
    BY <1>6 DEF Promise!Next

\* Every step maps to a step of the matchmaker or to none.
LEMMA StepMaps ==
    ASSUME IInv, [Next]_vars
    PROVE  Promise!Next \/ UNCHANGED Promise!vars
  <1>1. CASE LobbyServesAgent
    BY <1>1, ServingMaps
  <1>2. CASE AgentLaunches
    <2>1. RoomPlayers' = RoomPlayers /\ RoomGames' = RoomGames
      BY <1>2 DEF AgentLaunches, RoomPlayers, RoomGames, Rooms, Members
    <2> QED
      BY <1>2, <2>1, LaunchSpends DEF Promise!vars
  <1>3. CASE AgentLost /\ LobbyKeeps
    BY <1>3, LostMaps
  <1>4. CASE fromAgent' = fromAgent /\ min_port' = min_port /\ ~LobbyServesAgent
    BY <1>4, QuietMaps
  <1>5. \/ LobbyServesAgent
        \/ AgentLaunches
        \/ AgentLost /\ LobbyKeeps
        \/ fromAgent' = fromAgent /\ min_port' = min_port
    <2> USE DEF Queues, LobbyKeeps
    <2>1. CASE Boot
      BY <2>1 DEF Boot, BootAgent, BootFail, BootClient, Arrive
    <2>2. CASE ClientConnects
      BY <2>2 DEF ClientConnects, Connect, Greet, Arrive
    <2>3. CASE ClientGreets \/ ClientListsRooms \/ ClientCreatesRoom
      BY <2>3 DEF ClientGreets, ClientAbout, ClientListsRooms, RoomList, ClientCreatesRoom,
         NewRoomInfo
    <2>4. CASE ClientJoins
      BY <2>4 DEF ClientJoins, Join, start_room, Launch
    <2>5. CASE ClientRefused \/ ClientLeaves
      BY <2>5 DEF ClientRefused, JoinRefused, LeaveRefused, Refuse, ClientLeaves, Leave
    <2>6. CASE ClientDisconnects
      BY <2>6 DEF ClientDisconnects, Disconnect, Arrive
    <2>7. CASE AgentLink
      BY <2>7 DEF AgentLink, AgentConnect, Greet
    <2>8. CASE Idle \/ UNCHANGED vars
      BY <2>8 DEF Idle, vars, lobbyVars
    <2> QED
      BY <2>1, <2>2, <2>3, <2>4, <2>5, <2>6, <2>7, <2>8 DEF Next
  <1> QED
    BY <1>1, <1>2, <1>3, <1>4, <1>5

\* The event loops of the lobby and the agent, with their queues, their late
\* answers and the loss of the agent, implement the matchmaker: a game gets a
\* port nobody had, keeps it while its room has players, and no step moves
\* more than one client.
THEOREM PromiseIsKept == Spec => KeepsPromise
  <1>1. Init => Promise!Init
    <2> SUFFICES ASSUME Init
                 PROVE  Promise!Init
      OBVIOUS
    <2>1. Rooms = {} /\ fromAgent = <<>> /\ min_port = FirstPort
      BY DEF Init, LobbyInit, Rooms, Agent!Init
    <2>2. SpentPorts = {}
      <3>1. \A port \in Ports : ~(port < FirstPort)
        BY Constants DEF Ports
      <3> QED
        BY <2>1, <3>1 DEF SpentPorts
    <2> QED
      BY <2>1, <2>2 DEF Promise!Init, Promise!NoGame, RoomPlayers, RoomGames
  <1>2. IInv /\ [Next]_vars => [Promise!Next]_(Promise!vars)
    BY StepMaps
  <1> QED
    BY <1>1, <1>2, Invariance, PTL DEF Spec, KeepsPromise, Promise!Spec

-----------------------------------------------------------------------------
(***************************************************************************)
(* Who is who in the lobby: the tables never mix up its clients, and the   *)
(* members of a room know of each other and of the room's server, as long  *)
(* as no client joins a room while it is in another one.                   *)
(***************************************************************************)

-----------------------------------------------------------------------------
(***************************************************************************)
(* The inductive invariant.                                                *)
(***************************************************************************)

\* Nobody is connected before the prologue is over, and clients that are
\* connected have ids of their own, below the counter.
OwnNumbers ==
    /\ ~running => \A p \in Peer : conn[p] = "none"
    /\ \A p \in Peer : id[p] < id_counter
    /\ \A p, q \in Peer :
         p # q /\ conn[p] # "none" /\ conn[q] # "none" => id[p] # id[q]

In(q, r) == r \in Rooms /\ q \in Members(r)

\* A client that has introduced itself is in one place, under its id.
Placed(q) ==
    /\ conn[q] = "greeted" => q \in DOMAIN wait_room \/ \E r \in Rooms : In(q, r)
    /\ q \in DOMAIN wait_room => /\ conn[q] = "greeted" /\ wait_room[q] = id[q]
                                 /\ \A r \in Rooms : ~In(q, r)
    /\ \A r \in Rooms : In(q, r) => /\ conn[q] = "greeted"
                                    /\ rooms[r].clients[q] = id[q]
                                    /\ \A s \in Rooms : In(q, s) => s = r

\* What a member knows: its room's server and the others in it.
Knowing(q) ==
    \A r \in Rooms : In(q, r) =>
        /\ rooms[r].game_start => address[q] = rooms[r].server
        /\ \A s \in Members(r) \ {q} : rooms[r].clients[s] \in others[q]

Orderly == \A q \in Client : Placed(q) /\ Knowing(q)

IdInv == IInv /\ OwnNumbers /\ (~strayed => Orderly)

-----------------------------------------------------------------------------
(***************************************************************************)
(* What handlers do to the tables.                                         *)
(***************************************************************************)
SameWait(q) ==
    /\ q \in DOMAIN wait_room' <=> q \in DOMAIN wait_room
    /\ q \in DOMAIN wait_room => wait_room'[q] = wait_room[q]

\* q is in no room it was not in before.
Remains(q) ==
    \A r \in Rooms' : In(q, r)' => In(q, r) /\ rooms'[r].clients[q] = rooms[r].clients[q]

SameRooms(q) == Remains(q) /\ \A r \in Rooms : In(q, r) => In(q, r)'

SameKnowledge(q) == others'[q] = others[q] /\ address'[q] = address[q]

\* The members of the rooms after a handler that wrote rt and ran the tail.
LEMMA AfterTail ==
    ASSUME NEW rt \in Seq(RoomType), rooms' = Settle(rt)
    PROVE  Rooms' = DOMAIN rt /\ \A r \in DOMAIN rt : rooms'[r].clients = rt[r].clients
  <1>1. Rooms' = DOMAIN rt
    BY DEF Settle, Rooms
  <1>2. ASSUME NEW r \in DOMAIN rt
        PROVE  rooms'[r].clients = rt[r].clients
    <2>1. rt[r] \in RoomType /\ <<>> \in Seq(Ports) /\ FALSE \in BOOLEAN
      OBVIOUS
    <2>2. WithServer(rt[r], FALSE, <<>>).clients = rt[r].clients
      BY <2>1, WriteServer
    <2> QED
      BY <2>1, <2>2 DEF Settle
  <1> QED
    BY <1>1, <1>2

\* Rooms that keep their tables.
LEMMA SameTables ==
    ASSUME Rooms' = Rooms, \A r \in Rooms : rooms'[r].clients = rooms[r].clients
    PROVE  \A q : SameRooms(q)
  BY DEF SameRooms, Remains, In, Members

\* The tail alone.
LEMMA TailTables ==
    ASSUME IInv, rooms' = Settle(rooms)
    PROVE  \A q : SameRooms(q)
  <1>1. rooms \in Seq(RoomType)
    BY RoomFacts
  <1>2. Rooms' = Rooms /\ \A r \in Rooms : rooms'[r].clients = rooms[r].clients
    BY <1>1, AfterTail DEF Rooms
  <1> QED
    BY <1>2, SameTables

\* One room's table is written.
LEMMA EditTables ==
    ASSUME IInv, NEW r \in Rooms, NEW c \in Tables(Client, Ids),
           rooms' = Settle([rooms EXCEPT ![r] = WithClients(@, c)])
    PROVE  /\ Rooms' = Rooms
           /\ \A s \in Rooms : rooms'[s].clients = IF s = r THEN c ELSE rooms[s].clients
  <1> DEFINE new == WithClients(rooms[r], c)
             rt == [rooms EXCEPT ![r] = new]
  <1>1. /\ rooms \in Seq(RoomType) /\ Rooms = 1 .. Len(rooms) /\ Len(rooms) \in Nat
        /\ rooms[r] \in RoomType
    BY RoomFacts
  <1>2. new \in RoomType /\ new.clients = c
    BY <1>1, WriteClients
  <1>3. rooms' = Settle(rt)
    OBVIOUS
  <1> HIDE DEF new
  <1>4. rt \in Seq(RoomType) /\ DOMAIN rt = Rooms
        /\ \A q \in Rooms : rt[q] = IF q = r THEN new ELSE rooms[q]
    BY <1>1, <1>2
  <1> HIDE DEF rt
  <1> QED
    BY <1>2, <1>3, <1>4, AfterTail

\* A peer is erased from every room.
LEMMA ForgetTables ==
    ASSUME IInv, NEW p, Forget(p)
    PROVE  /\ \A r \in Rooms' : ~In(p, r)'
           /\ p \notin DOMAIN wait_room'
           /\ \A q : Remains(q)
           /\ \A q : q # p => SameRooms(q) /\ SameWait(q)
  <1> DEFINE rt == [r \in DOMAIN rooms |-> WithClients(rooms[r], Erase(rooms[r].clients, p))]
  <1>1. ASSUME NEW r \in Rooms
        PROVE  rt[r] \in RoomType /\ rt[r].clients = Erase(rooms[r].clients, p)
    <2> DEFINE c == Erase(rooms[r].clients, p)
    <2>1. c \in Tables(Client, Ids) /\ rooms[r] \in RoomType
      BY RoomFacts, EraseTable
    <2>2. WithClients(rooms[r], c) \in RoomType /\ WithClients(rooms[r], c).clients = c
      BY <2>1, WriteClients
    <2>3. rt[r] = WithClients(rooms[r], c)
      BY DEF Rooms
    <2> QED
      BY <2>2, <2>3
  <1>2. rt \in [1 .. Len(rooms) -> RoomType] /\ DOMAIN rt = Rooms /\ Len(rooms) \in Nat
        /\ Rooms = 1 .. Len(rooms)
    BY <1>1, RoomFacts DEF Rooms
  <1>3. rooms' = Settle(rt)
    BY DEF Forget
  <1> HIDE DEF rt
  <1>4. rt \in Seq(RoomType)
    BY <1>2, SeqOf
  <1>5. Rooms' = Rooms /\ \A r \in Rooms : rooms'[r].clients = Erase(rooms[r].clients, p)
    BY <1>1, <1>2, <1>3, <1>4, AfterTail
  <1>6. \A r \in Rooms : /\ Members(r)' = Members(r) \ {p}
                         /\ \A q \in Members(r) \ {p} : rooms'[r].clients[q] = rooms[r].clients[q]
    BY <1>5 DEF Members, Erase
  <1>7. wait_room' = [x \in DOMAIN wait_room \ {p} |-> wait_room[x]]
    BY DEF Forget, Erase
  <1>8. /\ p \notin DOMAIN wait_room'
        /\ \A q : q # p => SameWait(q)
    BY <1>7 DEF SameWait
  <1>9. /\ \A r \in Rooms' : ~In(p, r)'
        /\ \A q : Remains(q)
        /\ \A q : q # p => SameRooms(q)
    BY <1>5, <1>6 DEF In, Remains, SameRooms
  <1> QED
    BY <1>8, <1>9

\* A new room.
LEMMA CreateTables ==
    ASSUME IInv, NEW p, NEW max \in Capacity, NEW s \in Settings, NewRoomInfo(p, max, s)
    PROVE  \A q : SameRooms(q)
  <1> DEFINE rt == Append(rooms, NewRoom(max, s))
  <1>1. NewRoom(max, s) \in RoomType /\ NewRoom(max, s).clients = NoEntries
    <2>1. NoEntries \in Tables(Client, Ids) /\ <<>> \in Seq(Ports)
      BY EmptyTable
    <2> QED
      BY <2>1 DEF NewRoom, RoomType
  <1>2. rooms \in Seq(RoomType) /\ Rooms = 1 .. Len(rooms) /\ Len(rooms) \in Nat
    BY RoomFacts
  <1>3. /\ rt \in Seq(RoomType) /\ DOMAIN rt = 1 .. Len(rooms) + 1
        /\ \A r \in Rooms : rt[r] = rooms[r]
        /\ rt[Len(rooms) + 1] = NewRoom(max, s)
    BY <1>1, <1>2
  <1>4. rooms' = Settle(rt)
    BY DEF NewRoomInfo
  <1> HIDE DEF rt
  <1>5. Rooms' = DOMAIN rt /\ \A r \in DOMAIN rt : rooms'[r].clients = rt[r].clients
    BY <1>3, <1>4, AfterTail
  <1>6. \A r \in Rooms : r \in Rooms' /\ rooms'[r].clients = rooms[r].clients
    BY <1>2, <1>3, <1>5
  <1>7. \A r \in Rooms' : r \in Rooms \/ Members(r)' = {}
    <2>1. \A r \in Rooms' : r \in Rooms \/ r = Len(rooms) + 1
      BY <1>2, <1>3, <1>5
    <2>2. DOMAIN NoEntries = {}
      BY DEF NoEntries
    <2> QED
      BY <1>1, <1>3, <1>5, <2>1, <2>2 DEF Members
  <1> QED
    BY <1>6, <1>7 DEF SameRooms, Remains, In, Members

-----------------------------------------------------------------------------
(***************************************************************************)
(* Steps in which nobody joins a room and no game starts.                  *)
(***************************************************************************)
LEMMA PlacedStays ==
    ASSUME NEW q, Placed(q), SameWait(q), SameRooms(q), conn'[q] = conn[q], id'[q] = id[q]
    PROVE  Placed(q)'
  <1>1. \A r : In(q, r)' <=> In(q, r)
    BY DEF SameRooms, Remains, In
  <1>2. \A r : In(q, r) => rooms'[r].clients[q] = rooms[r].clients[q]
    BY <1>1 DEF SameRooms, Remains, In
  <1> QED
    BY <1>1, <1>2 DEF Placed, SameWait, In

LEMMA KnowingStays ==
    ASSUME IInv, NEW q, Knowing(q), Evolves(rooms, rooms'), \A s : Remains(s),
           (\E r \in Rooms' : In(q, r)') => SameKnowledge(q)
    PROVE  Knowing(q)'
  <1> SUFFICES ASSUME NEW r \in Rooms', In(q, r)'
               PROVE  /\ rooms'[r].game_start => address'[q] = rooms'[r].server
                      /\ \A s \in Members(r)' \ {q} : rooms'[r].clients[s] \in others'[q]
    BY DEF Knowing
  <1>1. In(q, r) /\ SameKnowledge(q) /\ r \in Rooms
    BY DEF Remains, In
  <1>2. rooms'[r].game_start => rooms[r].game_start /\ rooms'[r].server = rooms[r].server
    <2>1. rooms' \in Seq(RoomType)
      BY DEF Evolves
    <2>2. r \in 1 .. Len(rooms')
      BY <2>1 DEF Rooms
    <2> QED
      BY <2>2 DEF Evolves
  <1>3. \A s \in Members(r)' : s \in Members(r) /\ rooms'[r].clients[s] = rooms[r].clients[s]
    <2>1. \A s \in Members(r)' : In(s, r)'
      BY DEF In
    <2> QED
      BY <2>1 DEF Remains, In
  <1> QED
    BY <1>1, <1>2, <1>3 DEF Knowing, SameKnowledge

\* Only p may have moved, and it has not moved into a room.
LEMMA OrderlyStays ==
    ASSUME IInv, Orderly, Evolves(rooms, rooms'), NEW p,
           \A q : Remains(q),
           \A q \in Client : q # p => /\ SameRooms(q) /\ SameWait(q)
                                      /\ conn'[q] = conn[q] /\ id'[q] = id[q],
           p \in Client => Placed(p)',
           \A q \in Client : (\E r \in Rooms' : In(q, r)') => SameKnowledge(q)
    PROVE  Orderly'
  <1> SUFFICES ASSUME NEW q \in Client PROVE Placed(q)' /\ Knowing(q)'
    BY DEF Orderly
  <1>1. Placed(q) /\ Knowing(q)
    BY DEF Orderly
  <1>2. Placed(q)'
    BY <1>1, PlacedStays
  <1>3. Knowing(q)'
    BY <1>1, KnowingStays
  <1> QED
    BY <1>2, <1>3

-----------------------------------------------------------------------------
(***************************************************************************)
(* What clients read.                                                      *)
(***************************************************************************)
News == {"ClientAbout", "DiscClientAbout", "ServerInfo"}

LEMMA NoNews ==
    ASSUME IInv, Read, NEW q \in Peer, \A n \in DOMAIN out'[q] : out'[q][n].header \notin News
    PROVE  SameKnowledge(q)
  <1>1. Named(q, "ClientAbout") = {} /\ Named(q, "DiscClientAbout") = {} /\ Told(q) = {}
    BY DEF Named, Told, News
  <1>2. others'[q] = (others[q] \ Named(q, "DiscClientAbout")) \cup Named(q, "ClientAbout")
    BY DEF Read
  <1>3. address'[q] = IF Told(q) = {} THEN address[q] ELSE CHOOSE a \in Told(q) : TRUE
    BY DEF Read
  <1> QED
    BY <1>1, <1>2, <1>3 DEF SameKnowledge

\* Handlers that answer one peer, or nobody, with nothing of the kind.
LEMMA AnswerNews ==
    ASSUME IInv, Read,
           \/ out' = Quiet
           \/ \E p \in Peer, h \in {"RoomList", "ResultSuccess", "ResultFailed"} :
                out' = To(p, <<Message(h)>>)
           \/ \E p \in Peer : out' = Greeting(p)
    PROVE  \A q \in Peer : SameKnowledge(q)
  <1> SUFFICES ASSUME NEW q \in Peer PROVE \A n \in DOMAIN out'[q] : out'[q][n].header \notin News
    BY NoNews
  <1>1. CASE out' = Quiet
    BY <1>1 DEF Quiet
  <1>2. ASSUME NEW p \in Peer, NEW h \in {"RoomList", "ResultSuccess", "ResultFailed"},
               out' = To(p, <<Message(h)>>)
        PROVE  \A n \in DOMAIN out'[q] : out'[q][n].header \notin News
    <2>1. out'[q] = IF q = p THEN <<Message(h)>> ELSE <<>>
      BY <1>2 DEF To, Quiet
    <2>2. Message(h).header \notin News
      BY <1>2 DEF Message, News
    <2> QED
      BY <2>1, <2>2
  <1>3. ASSUME NEW p \in Peer, out' = Greeting(p)
        PROVE  \A n \in DOMAIN out'[q] : out'[q][n].header \notin News
    <2> DEFINE greeting == <<Message("Key"), About("ClientId", id_counter), Message("RoomList")>>
    <2>1. out'[q] = IF q = p THEN greeting ELSE <<>>
      BY <1>3 DEF Greeting, To, Quiet
    <2>2. \A n \in DOMAIN greeting : greeting[n].header \notin News
      <3>1. /\ Message("Key").header \notin News /\ Message("RoomList").header \notin News
            /\ About("ClientId", id_counter).header \notin News
        BY DEF Message, About, News
      <3>2. DOMAIN greeting = {1, 2, 3}
        OBVIOUS
      <3>3. /\ greeting[1] = Message("Key") /\ greeting[2] = About("ClientId", id_counter)
            /\ greeting[3] = Message("RoomList")
        OBVIOUS
      <3> QED
        BY <3>1, <3>2, <3>3
    <2> HIDE DEF greeting
    <2> QED
      BY <2>1, <2>2
  <1> QED
    BY <1>1, <1>2, <1>3

\* The tail, or nothing, is done to the rooms.
LEMMA TailEvolves ==
    ASSUME IInv, rooms' = Settle(rooms) \/ rooms' = rooms
    PROVE  /\ Evolves(rooms, rooms')
           /\ \A q : SameRooms(q) /\ Remains(q)
  <1>1. /\ rooms \in Seq(RoomType) /\ Len(rooms) <= MaxRooms /\ Len(rooms) \in Nat
        /\ \A r \in 1 .. Len(rooms) : RoomOK(rooms[r])
    BY DEF IInv, QueueInv, RoomsOK
  <1>2. Evolves(rooms, rooms')
    BY <1>1, SettleEvolves DEF Evolves
  <1>3. \A q : SameRooms(q)
    <2>1. CASE rooms' = Settle(rooms)
      BY <2>1, TailTables
    <2>2. CASE rooms' = rooms
      BY <2>2 DEF SameRooms, Remains, In, Members, Rooms
    <2> QED
      BY <2>1, <2>2
  <1> QED
    BY <1>2, <1>3 DEF SameRooms

\* A slot whose client has not introduced itself is in no table.
LEMMA Unlisted ==
    ASSUME NEW q, Placed(q), conn[q] # "greeted"
    PROVE  q \notin DOMAIN wait_room /\ \A r \in Rooms : ~In(q, r)
  BY DEF Placed

-----------------------------------------------------------------------------
(***************************************************************************)
(* The actions, one by one.                                                *)
(***************************************************************************)

\* Types the steps below need.
LEMMA IdTypes ==
    ASSUME IInv
    PROVE  /\ id \in [Peer -> Ids] /\ conn \in [Peer -> {"none", "connected", "greeted"}]
           /\ others \in [Peer -> SUBSET Ids] /\ address \in [Peer -> Seq(Ports)]
           /\ id_counter \in Nat /\ wait_room \in Tables(Client, Ids)
           /\ \A i \in Ids : i \in Int
           /\ running \in BOOLEAN /\ strayed \in BOOLEAN
  <1>1. \A i \in Ids : i \in Int
    BY Constants DEF Ids
  <1>2. id_counter \in Nat
    BY Constants DEF IInv, ClientInv, TablesOK
  <1> QED
    BY <1>1, <1>2 DEF IInv, ClientInv, LinkTypes, TablesOK, KnowledgeTypes

\* A new client takes a slot, and nothing else happens to the tables.
LEMMA ArrivalOrderly ==
    ASSUME IdInv, Orderly, NEW p \in Peer, NEW i \in Ids, Arrive(p, i), conn[p] = "none",
           conn' = [conn EXCEPT ![p] = "connected"], wait_room' = wait_room,
           rooms' = Settle(rooms) \/ rooms' = rooms
    PROVE  Orderly'
  <1>1. IInv
    BY DEF IdInv
  <1>2. Evolves(rooms, rooms') /\ \A q : SameRooms(q) /\ Remains(q)
    BY <1>1, TailEvolves
  <1>3. \A q \in Client : q \in Peer
    BY DEF Client
  <1>4. \A q \in Peer : q # p => conn'[q] = conn[q] /\ id'[q] = id[q] /\ SameKnowledge(q)
    BY <1>1, IdTypes DEF Arrive, SameKnowledge
  <1>5. \A q : SameWait(q)
    BY DEF SameWait
  <1>6. ASSUME p \in Client PROVE Placed(p)' /\ \A r \in Rooms' : ~In(p, r)'
    <2>1. p \notin DOMAIN wait_room' /\ \A r \in Rooms : ~In(p, r)
      BY <1>6, Unlisted DEF Orderly
    <2>2. \A r \in Rooms' : ~In(p, r)'
      BY <1>2, <2>1 DEF Remains, In
    <2>3. conn'[p] = "connected"
      BY <1>1, IdTypes
    <2> QED
      BY <2>1, <2>2, <2>3 DEF Placed, In
  <1>7. \A q \in Client : (\E r \in Rooms' : In(q, r)') => SameKnowledge(q)
    BY <1>3, <1>4, <1>6
  <1> QED
    BY <1>1, <1>2, <1>3, <1>4, <1>5, <1>6, <1>7, OrderlyStays

\* Nothing happens to the tables, and nobody learns anything.
LEMMA NothingOrderly ==
    ASSUME IdInv, Orderly, wait_room' = wait_room, conn' = conn, id' = id,
           Evolves(rooms, rooms'), \A q : SameRooms(q), \A q \in Peer : SameKnowledge(q)
    PROVE  Orderly'
  <1>1. IInv /\ AgentSlot \notin Client /\ \A q \in Client : q \in Peer
    BY DEF IdInv, Client
  <1>2. \A q : SameWait(q) /\ Remains(q)
    BY DEF SameWait, SameRooms
  <1> QED
    BY <1>1, <1>2, OrderlyStays

LEMMA BootOrderly ==
    ASSUME IdInv, Orderly, Boot
    PROVE  Orderly'
  <1>1. CASE (BootAgent \/ BootFail) /\ UNCHANGED knowledge
    <2>1. rooms' = rooms /\ wait_room' = wait_room /\ conn' = conn /\ id' = id
          /\ others' = others /\ address' = address
      BY <1>1 DEF BootAgent, BootFail, knowledge
    <2>2. IInv
      BY DEF IdInv
    <2> QED
      BY <2>1, <2>2, TailEvolves, NothingOrderly DEF SameKnowledge
  <1>2. ASSUME NEW p \in Client, BootClient(p), Arrive(p, NoId) PROVE Orderly'
    <2>1. rooms' = rooms /\ wait_room' = wait_room /\ ~running
          /\ conn' = [conn EXCEPT ![p] = "connected"]
      BY <1>2 DEF BootClient
    <2>2. p \in Peer /\ NoId \in Ids /\ conn[p] = "none"
      BY <2>1, Constants DEF IdInv, OwnNumbers, Client
    <2> QED
      BY <1>2, <2>1, <2>2, ArrivalOrderly
  <1> QED
    BY <1>1, <1>2 DEF Boot

LEMMA ConnectOrderly ==
    ASSUME IdInv, Orderly, ClientConnects
    PROVE  Orderly'
  <1>1. PICK p \in Peer : Connect(p) /\ Arrive(p, id_counter)
    BY DEF ClientConnects
  <1>2. rooms' = Settle(rooms) /\ wait_room' = wait_room /\ conn[p] = "none"
        /\ conn' = [conn EXCEPT ![p] = "connected"]
    BY <1>1 DEF Connect, Greet
  <1>3. id_counter \in Ids
    BY <1>1, GreetTypes DEF IdInv, IInv, Connect
  <1> QED
    BY <1>1, <1>2, <1>3, ArrivalOrderly

LEMMA GreetsOrderly ==
    ASSUME IdInv, Orderly, ClientGreets
    PROVE  Orderly'
  <1>1. PICK p \in Client : ClientAbout(p, id[p]) /\ Read /\ LobbyKeeps
    BY DEF ClientGreets
  <1>2. /\ rooms' = Settle(rooms) /\ out' = Quiet /\ id' = id /\ conn[p] = "connected"
        /\ conn' = [conn EXCEPT ![p] = "greeted"]
        /\ wait_room' = Put(wait_room, p, id[p])
    BY <1>1 DEF ClientAbout, Read
  <1>3. IInv /\ p \in Peer /\ \A q \in Client : q \in Peer
    BY DEF IdInv, Client
  <1>4. Evolves(rooms, rooms') /\ \A q : SameRooms(q) /\ Remains(q)
    BY <1>2, <1>3, TailEvolves
  <1>5. \A q \in Peer : SameKnowledge(q)
    BY <1>1, <1>2, <1>3, AnswerNews
  <1>6. \A q : q # p => SameWait(q)
    BY <1>2 DEF Put, SameWait
  <1>7. \A q \in Client : q # p => conn'[q] = conn[q] /\ id'[q] = id[q]
    BY <1>2, <1>3, IdTypes
  <1>8. Placed(p)'
    <2>1. \A r \in Rooms : ~In(p, r)
      BY <1>2, Unlisted DEF Orderly
    <2>2. \A r \in Rooms' : ~In(p, r)'
      BY <1>4, <2>1 DEF Remains, In
    <2>3. p \in DOMAIN wait_room' /\ wait_room'[p] = id'[p] /\ conn'[p] = "greeted"
      BY <1>2, <1>3, IdTypes DEF Put
    <2> QED
      BY <2>2, <2>3 DEF Placed, In
  <1> QED
    BY <1>3, <1>4, <1>5, <1>6, <1>7, <1>8, OrderlyStays

LEMMA RequestsOrderly ==
    ASSUME IdInv, Orderly, ClientListsRooms \/ ClientCreatesRoom \/ ClientRefused
    PROVE  Orderly'
  <1>1. IInv /\ \A q \in Client : q \in Peer
    BY DEF IdInv, Client
  <1>2. CASE ClientListsRooms
    <2>1. PICK p \in Client : RoomList(p) /\ Read
      BY <1>2 DEF ClientListsRooms
    <2>2. /\ rooms' = Settle(rooms) /\ wait_room' = wait_room /\ conn' = conn /\ id' = id
          /\ out' = To(p, <<Message("RoomList")>>)
      BY <2>1 DEF RoomList, Requests, Links, Read
    <2>3. \A q \in Peer : SameKnowledge(q)
      BY <1>1, <2>1, <2>2, AnswerNews
    <2> QED
      BY <1>1, <2>2, <2>3, TailEvolves, NothingOrderly
  <1>3. CASE ClientCreatesRoom
    <2>1. PICK p \in Client, max \in Capacity, s \in Settings : NewRoomInfo(p, max, s) /\ Read
      BY <1>3 DEF ClientCreatesRoom
    <2>2. /\ rooms' = Settle(Append(rooms, NewRoom(max, s))) /\ Len(rooms) < MaxRooms
          /\ wait_room' = wait_room /\ conn' = conn /\ id' = id
          /\ out' = To(p, <<Message("ResultSuccess")>>)
      BY <2>1 DEF NewRoomInfo, Requests, Links, Read
    <2>3. \A q \in Peer : SameKnowledge(q)
      BY <1>1, <2>1, <2>2, AnswerNews
    <2>4. Evolves(rooms, rooms')
      BY <1>1, <2>2, AppendEvolves DEF IInv, QueueInv, RoomsOK
    <2>5. \A q : SameRooms(q)
      BY <1>1, <2>1, CreateTables
    <2> QED
      BY <2>2, <2>3, <2>4, <2>5, NothingOrderly
  <1>4. CASE ClientRefused
    <2>1. PICK p \in Client, r \in 1 .. MaxRooms + 1 :
            (JoinRefused(p, r) \/ LeaveRefused(p, r)) /\ Read
      BY <1>4 DEF ClientRefused
    <2>2. /\ rooms' = Settle(rooms) /\ wait_room' = wait_room /\ conn' = conn /\ id' = id
          /\ out' = To(p, <<Message("ResultFailed")>>)
      BY <2>1 DEF JoinRefused, LeaveRefused, Refuse, Requests, Links, Read
    <2>3. \A q \in Peer : SameKnowledge(q)
      BY <1>1, <2>1, <2>2, AnswerNews
    <2> QED
      BY <1>1, <2>2, <2>3, TailEvolves, NothingOrderly
  <1> QED
    BY <1>2, <1>3, <1>4

LEMMA GoneOrderly ==
    ASSUME IdInv, Orderly, ClientDisconnects
    PROVE  Orderly'
  <1>1. PICK p \in Peer : Disconnect(p) /\ Arrive(p, NoId)
    BY DEF ClientDisconnects
  <1>2. Forget(p) /\ conn' = [conn EXCEPT ![p] = "none"]
    BY <1>1 DEF Disconnect
  <1>3. IInv /\ \A q \in Client : q \in Peer
    BY DEF IdInv, Client
  <1>4. Evolves(rooms, rooms')
    BY <1>2, <1>3, EraseEvolves DEF Forget, IInv, QueueInv, RoomsOK
  <1>5. /\ \A r \in Rooms' : ~In(p, r)'
        /\ p \notin DOMAIN wait_room'
        /\ \A q : Remains(q)
        /\ \A q : q # p => SameRooms(q) /\ SameWait(q)
    BY <1>2, <1>3, ForgetTables
  <1>6. \A q \in Peer : q # p => conn'[q] = conn[q] /\ id'[q] = id[q] /\ SameKnowledge(q)
    BY <1>1, <1>2, <1>3, IdTypes DEF Arrive, SameKnowledge
  <1>7. conn'[p] = "none"
    BY <1>2, <1>3, IdTypes
  <1>8. Placed(p)'
    BY <1>5, <1>7 DEF Placed, In
  <1>9. \A q \in Client : (\E r \in Rooms' : In(q, r)') => SameKnowledge(q)
    BY <1>3, <1>5, <1>6
  <1> QED
    BY <1>3, <1>4, <1>5, <1>6, <1>8, <1>9, OrderlyStays

LEMMA AgentOrderly ==
    ASSUME IdInv, Orderly, AgentLink \/ AgentLaunches \/ Idle \/ UNCHANGED vars
    PROVE  Orderly'
  <1>1. IInv /\ AgentSlot \in Peer /\ AgentSlot \notin Client /\ \A q \in Client : q \in Peer
    BY LobbyAssumption DEF IdInv, Client
  <1>2. CASE AgentConnect /\ Read
    <2>1. /\ rooms' = Settle(rooms) /\ wait_room' = wait_room /\ conn' = conn /\ id' = id
          /\ out' = Greeting(AgentSlot)
      BY <1>2 DEF AgentConnect, Greet, Read
    <2>2. \A q \in Peer : SameKnowledge(q)
      BY <1>1, <1>2, <2>1, AnswerNews
    <2> QED
      BY <1>1, <2>1, <2>2, TailEvolves, NothingOrderly
  <1>3. CASE AgentLost /\ Read
    <2>1. Forget(AgentSlot) /\ conn' = conn /\ id' = id /\ out' = Quiet
      BY <1>3 DEF AgentLost, Forget, Read
    <2>2. \A q \in Peer : SameKnowledge(q)
      BY <1>1, <1>3, <2>1, AnswerNews
    <2>3. Evolves(rooms, rooms')
      BY <1>1, <2>1, EraseEvolves DEF Forget, IInv, QueueInv, RoomsOK
    <2>4. /\ \A q : Remains(q)
          /\ \A q : q # AgentSlot => SameRooms(q) /\ SameWait(q)
      BY <1>1, <2>1, ForgetTables
    <2> QED
      BY <1>1, <2>1, <2>2, <2>3, <2>4, OrderlyStays
  <1>4. CASE AgentLaunches \/ Idle \/ UNCHANGED vars
    <2>1. rooms' = rooms /\ wait_room' = wait_room /\ conn' = conn /\ id' = id
          /\ others' = others /\ address' = address
      BY <1>4 DEF AgentLaunches, Idle, vars, lobbyVars, knowledge
    <2> QED
      BY <1>1, <2>1, TailEvolves, NothingOrderly DEF SameKnowledge
  <1> QED
    BY <1>2, <1>3, <1>4 DEF AgentLink

\* A port for a room: its members, and they alone, are told where it is.
LEMMA PortOrderly ==
    ASSUME IdInv, Orderly, LobbyServesAgent
    PROVE  Orderly'
  <1> DEFINE r == Head(rooms_wait)
             where == Append(rooms[r].server, Head(fromAgent))
  <1>1. /\ IInv /\ QueueInv /\ ServerPort /\ Read /\ UNCHANGED <<min_port, servers>>
        /\ \A q \in Client : q \in Peer
    BY DEF IdInv, IInv, LobbyServesAgent, LobbyKeeps, Client
  <1>2. /\ wait_room' = wait_room /\ conn' = conn /\ id' = id
    BY <1>1 DEF ServerPort, Links, Read
  <1>3. \A s \in Rooms : /\ rooms'[s].clients = rooms[s].clients
                         /\ rooms[s].game_start => rooms'[s] = rooms[s]
    BY <1>1, PortStep
  <1>4. \/ /\ Adopts(r) /\ rooms' = [rooms EXCEPT ![r] = WithServer(@, TRUE, where)]
           /\ out' = [q \in Peer |-> IF q \in Members(r) THEN <<ServerInfo(where)>> ELSE <<>>]
        \/ rooms' = rooms /\ out' = Quiet
    BY <1>1 DEF ServerPort
  <1> HIDE DEF where
  <1>5. Rooms' = Rooms /\ \A s \in Rooms : s # r => rooms'[s] = rooms[s]
    BY <1>4 DEF Rooms
  <1>6. \A q : SameRooms(q) /\ SameWait(q)
    BY <1>2, <1>3, <1>5, SameTables DEF SameWait
  <1>7. \A q \in Client : Placed(q)'
    BY <1>2, <1>6, PlacedStays DEF Orderly
  <1>8. ASSUME NEW q \in Client, q \notin Members(r) PROVE SameKnowledge(q)
    <2>1. out'[q] = <<>>
      BY <1>1, <1>4, <1>8 DEF Quiet
    <2> QED
      BY <1>1, <2>1, NoNews
  <1>9. ASSUME NEW q \in Client PROVE others'[q] = others[q]
    <2>1. \A n \in DOMAIN out'[q] : out'[q][n].header \notin {"ClientAbout", "DiscClientAbout"}
      <3>1. ServerInfo(where).header \notin {"ClientAbout", "DiscClientAbout"}
        BY DEF ServerInfo
      <3>2. out'[q] = <<>> \/ out'[q] = <<ServerInfo(where)>>
        BY <1>1, <1>4 DEF Quiet
      <3> QED
        BY <3>1, <3>2
    <2>2. Named(q, "ClientAbout") = {} /\ Named(q, "DiscClientAbout") = {}
      BY <2>1 DEF Named
    <2>3. others'[q] = (others[q] \ Named(q, "DiscClientAbout")) \cup Named(q, "ClientAbout")
      BY <1>1 DEF Read
    <2> QED
      BY <2>2, <2>3
  <1>10. ASSUME NEW q \in Client, NEW s \in Rooms, In(q, s), rooms'[s].game_start
         PROVE  address'[q] = rooms'[s].server
    <2>1. CASE rooms'[s] = rooms[s]
      <3>1. address[q] = rooms[s].server
        BY <1>10, <2>1 DEF Orderly, Knowing
      <3>2. CASE q \notin Members(r)
        BY <1>8, <2>1, <3>1, <3>2 DEF SameKnowledge
      <3>3. CASE q \in Members(r) /\ r \in Rooms
        <4>1. s = r
          BY <1>10, <3>3 DEF Orderly, Placed, In
        <4>2. ~Adopts(r)
          BY <1>10, <2>1, <4>1 DEF Adopts
        <4>3. out' = Quiet
          BY <1>4, <4>2
        <4>4. SameKnowledge(q)
          BY <1>1, <4>3, AnswerNews
        <4> QED
          BY <2>1, <3>1, <4>4 DEF SameKnowledge
      <3>4. r \in Rooms
        <4>1. rooms_wait \in Seq(1 .. Len(rooms)) /\ rooms_wait # <<>>
          BY <1>1 DEF QueueInv, QueueTypes, FrontExists, ServerPort
        <4>2. r \in 1 .. Len(rooms)
          BY <4>1
        <4> QED
          BY <1>1, <4>2, RoomFacts
      <3> QED
        BY <3>2, <3>3, <3>4
    <2>2. CASE rooms'[s] # rooms[s]
      <3>1. /\ s = r
            /\ rooms' = [rooms EXCEPT ![r] = WithServer(@, TRUE, where)]
            /\ out' = [d \in Peer |-> IF d \in Members(r) THEN <<ServerInfo(where)>> ELSE <<>>]
        BY <1>4, <1>5, <1>10, <2>2
      <3>2. rooms'[s] = WithServer(rooms[s], TRUE, where)
        BY <1>10, <3>1 DEF Rooms
      <3>3. rooms[s] \in RoomType
        BY <1>1, <1>10, RoomFacts
      <3>4. rooms'[s].server = where
        BY <3>2, <3>3 DEF WithServer, RoomType
      <3>5. out'[q] = <<ServerInfo(where)>>
        BY <1>1, <1>10, <3>1 DEF In
      <3>6. Told(q) = {where}
        <4>1. ServerInfo(where).header = "ServerInfo" /\ ServerInfo(where).address = where
          BY DEF ServerInfo
        <4> QED
          BY <3>5, <4>1 DEF Told
      <3>7. address'[q] = IF Told(q) = {} THEN address[q] ELSE CHOOSE a \in Told(q) : TRUE
        BY <1>1 DEF Read
      <3>8. address'[q] \in Told(q)
        BY <3>6, <3>7
      <3> QED
        BY <3>4, <3>6, <3>8
    <2> QED
      BY <2>1, <2>2
  <1>11. ASSUME NEW q \in Client PROVE Knowing(q)'
    <2> SUFFICES ASSUME NEW s \in Rooms', In(q, s)'
                 PROVE  /\ rooms'[s].game_start => address'[q] = rooms'[s].server
                        /\ \A d \in Members(s)' \ {q} : rooms'[s].clients[d] \in others'[q]
      BY DEF Knowing
    <2>1. s \in Rooms /\ In(q, s)
      BY <1>5, <1>6 DEF SameRooms, Remains
    <2>2. Members(s)' = Members(s)
      BY <1>3, <2>1 DEF Members
    <2>3. \A d \in Members(s) \ {q} : rooms[s].clients[d] \in others[q]
      BY <2>1 DEF Orderly, Knowing
    <2> QED
      BY <1>3, <1>9, <1>10, <2>1, <2>2, <2>3
  <1> QED
    BY <1>7, <1>11 DEF Orderly

-----------------------------------------------------------------------------
(***************************************************************************)
(* Leaving a room.                                                         *)
(***************************************************************************)
LEMMA LeaveTables ==
    ASSUME IInv, NEW p \in Client, NEW r \in Rooms, Leave(p, r)
    PROVE  /\ Evolves(rooms, rooms') /\ Rooms' = Rooms
           /\ \A s \in Rooms \ {r} : rooms'[s].clients = rooms[s].clients
           /\ Members(r)' = Members(r) \ {p}
           /\ \A q \in Members(r) \ {p} : rooms'[r].clients[q] = rooms[r].clients[q]
           /\ p \in DOMAIN wait_room' /\ wait_room'[p] = rooms[r].clients[p]
           /\ \A q : q # p => SameWait(q)
  <1> DEFINE c == Erase(rooms[r].clients, p)
  <1>1. c \in Tables(Client, Ids)
    BY RoomFacts, EraseTable
  <1>2. rooms' = Settle([rooms EXCEPT ![r] = WithClients(@, c)])
    <2>1. [rooms EXCEPT ![r] = WithClients(@, c)]
            = [rooms EXCEPT ![r] = WithClients(@, Erase(@.clients, p))]
      BY DEF Rooms
    <2> QED
      BY <2>1 DEF Leave
  <1>3. DOMAIN c = Members(r) \ {p} /\ \A q \in DOMAIN c : c[q] = rooms[r].clients[q]
    BY DEF Erase, Members
  <1> HIDE DEF c
  <1>4. Evolves(rooms, rooms')
    <2>1. /\ rooms \in Seq(RoomType) /\ Len(rooms) <= MaxRooms
          /\ \A q \in 1 .. Len(rooms) : RoomOK(rooms[q])
      BY DEF IInv, QueueInv, RoomsOK
    <2>2. r \in 1 .. Len(rooms)
      BY RoomFacts
    <2> QED
      BY <1>1, <1>2, <2>1, <2>2, EditOneEvolves
  <1>5. /\ Rooms' = Rooms
        /\ \A s \in Rooms : rooms'[s].clients = IF s = r THEN c ELSE rooms[s].clients
    BY <1>1, <1>2, EditTables
  <1>6. /\ Members(r)' = Members(r) \ {p}
        /\ \A q \in Members(r) \ {p} : rooms'[r].clients[q] = rooms[r].clients[q]
    BY <1>3, <1>5 DEF Members
  <1>7. wait_room' = Put(wait_room, p, rooms[r].clients[p])
    BY DEF Leave, ToWaitRoom
  <1> QED
    BY <1>4, <1>5, <1>6, <1>7 DEF Put, SameWait

\* Those who stay strike the leaver off their lists.
LEMMA LeaveReads ==
    ASSUME IInv, NEW p \in Client, NEW r \in Rooms, Leave(p, r), NEW q \in Client, q # p,
           others'[q] = others[q] \ Named(q, "DiscClientAbout")
    PROVE  others'[q] = IF q \in Members(r) THEN others[q] \ {rooms[r].clients[p]}
                        ELSE others[q]
  <1>1. q \in Peer
    BY DEF Client
  <1>2. out'[q] = IF q \in Members(r) THEN <<About("DiscClientAbout", rooms[r].clients[p])>>
                  ELSE <<>>
    BY <1>1 DEF Leave
  <1> DEFINE packet == About("DiscClientAbout", rooms[r].clients[p])
  <1>3. packet.header = "DiscClientAbout" /\ packet.id = rooms[r].clients[p]
    BY DEF About
  <1>4. q \in Members(r) => Named(q, "DiscClientAbout") = {rooms[r].clients[p]}
    BY <1>2, <1>3 DEF Named
  <1>5. q \notin Members(r) => Named(q, "DiscClientAbout") = {}
    BY <1>2 DEF Named
  <1> QED
    BY <1>4, <1>5

LEMMA LeaveOrderly ==
    ASSUME IdInv, Orderly, ClientLeaves
    PROVE  Orderly'
  <1>1. PICK p \in Client, r \in Rooms :
          /\ Leave(p, r)
          /\ others' = [q \in Peer |-> IF q = p THEN {}
                                       ELSE others[q] \ Named(q, "DiscClientAbout")]
          /\ UNCHANGED <<id, address>>
    BY DEF ClientLeaves
  <1>2. /\ IInv /\ conn' = conn /\ id' = id /\ address' = address
        /\ conn[p] = "greeted" /\ In(p, r) /\ \A q \in Client : q \in Peer
    BY <1>1 DEF IdInv, Leave, Requests, Links, In, Client
  <1>3. /\ Evolves(rooms, rooms') /\ Rooms' = Rooms
        /\ \A s \in Rooms \ {r} : rooms'[s].clients = rooms[s].clients
        /\ Members(r)' = Members(r) \ {p}
        /\ \A q \in Members(r) \ {p} : rooms'[r].clients[q] = rooms[r].clients[q]
        /\ p \in DOMAIN wait_room' /\ wait_room'[p] = rooms[r].clients[p]
        /\ \A q : q # p => SameWait(q)
    BY <1>1, <1>2, LeaveTables
  <1>4. \A q : q # p => SameRooms(q)
    BY <1>3 DEF SameRooms, Remains, In, Members
  <1>5. \A s \in Rooms : ~In(p, s)'
    <2>1. \A s \in Rooms : In(p, s) => s = r
      BY <1>2 DEF Orderly, Placed, In
    <2> QED
      BY <1>3, <2>1 DEF In, Members
  <1>6. Placed(p)'
    <2>1. rooms[r].clients[p] = id[p]
      BY <1>2 DEF Orderly, Placed, In
    <2> QED
      BY <1>2, <1>3, <1>5, <2>1 DEF Placed, In
  <1>7. ASSUME NEW q \in Client PROVE Placed(q)'
    <2>1. CASE q = p
      BY <1>6, <2>1
    <2>2. CASE q # p
      BY <1>2, <1>3, <1>4, <2>2, PlacedStays DEF Orderly
    <2> QED
      BY <2>1, <2>2
  <1>8. ASSUME NEW q \in Client PROVE Knowing(q)'
    <2> SUFFICES ASSUME NEW s \in Rooms, In(q, s)'
                 PROVE  /\ rooms'[s].game_start => address'[q] = rooms'[s].server
                        /\ \A d \in Members(s)' \ {q} : rooms'[s].clients[d] \in others'[q]
      BY <1>3 DEF Knowing
    <2>1. q # p
      BY <1>5
    <2>2. In(q, s)
      BY <1>4, <2>1, <1>3 DEF SameRooms, Remains
    <2>3. /\ rooms[s].game_start => address[q] = rooms[s].server
          /\ \A d \in Members(s) \ {q} : rooms[s].clients[d] \in others[q]
      BY <2>2 DEF Orderly, Knowing
    <2>4. rooms'[s].game_start => rooms[s].game_start /\ rooms'[s].server = rooms[s].server
      <3>1. s \in 1 .. Len(rooms')
        <4>1. rooms' \in Seq(RoomType) /\ s \in Rooms'
          BY <1>3 DEF Evolves
        <4> QED
          BY <4>1 DEF Rooms
      <3> QED
        BY <1>3, <3>1 DEF Evolves
    <2>5. others'[q] = IF q \in Members(r) THEN others[q] \ {rooms[r].clients[p]}
                       ELSE others[q]
      <3>1. others'[q] = others[q] \ Named(q, "DiscClientAbout")
        BY <1>1, <1>2, <2>1
      <3>2. IInv /\ Leave(p, r) /\ q # p
        BY <1>1, <1>2, <2>1
      <3> QED
        BY <3>1, <3>2, LeaveReads
    <2>6. ASSUME NEW d \in Members(s)' \ {q}
          PROVE  rooms'[s].clients[d] \in others'[q]
      <3>1. d \in Members(s) /\ rooms'[s].clients[d] = rooms[s].clients[d]
            /\ (s = r => d # p)
        BY <1>3 DEF Members
      <3>2. rooms[s].clients[d] \in others[q]
        BY <2>3, <3>1
      <3>3. CASE q \notin Members(r)
        BY <2>5, <3>1, <3>2, <3>3
      <3>4. CASE q \in Members(r)
        <4>1. s = r
          BY <2>2, <3>4 DEF Orderly, Placed, In
        <4>2. d \in Client /\ d # p /\ In(d, r)
          BY <1>2, <3>1, <4>1, RoomFacts DEF In
        <4>3. /\ rooms[r].clients[d] = id[d] /\ conn[d] = "greeted"
              /\ rooms[r].clients[p] = id[p] /\ conn[p] = "greeted"
          BY <1>2, <4>2 DEF Orderly, Placed, In
        <4>4. id[d] # id[p]
          BY <1>2, <4>2, <4>3 DEF IdInv, OwnNumbers
        <4> QED
          BY <2>5, <3>1, <3>2, <4>1, <4>3, <4>4
      <3> QED
        BY <3>3, <3>4
    <2> QED
      BY <1>2, <2>3, <2>4, <2>6
  <1> QED
    BY <1>7, <1>8 DEF Orderly

-----------------------------------------------------------------------------
(***************************************************************************)
(* Joining a room.                                                         *)
(***************************************************************************)
LEMMA JoinTables ==
    ASSUME IInv, NEW p \in Client, NEW r \in Rooms, Join(p, r), p \notin Members(r),
           NEW i, i = At(wait_room, p, DefaultId)
    PROVE  /\ Evolves(rooms, rooms') /\ Rooms' = Rooms
           /\ \A s \in Rooms \ {r} : rooms'[s].clients = rooms[s].clients
           /\ Members(r)' = Members(r) \cup {p}
           /\ rooms'[r].clients[p] = i
           /\ \A q \in Members(r) : rooms'[r].clients[q] = rooms[r].clients[q]
           /\ p \notin DOMAIN wait_room'
           /\ \A q : q # p => SameWait(q)
  <1> DEFINE c == Put(rooms[r].clients, p, i)
  <1>1. c \in Tables(Client, Ids)
    <2>1. i \in Ids
      BY IdTypes, AtTable, Constants
    <2> QED
      BY <2>1, RoomFacts, PutTable
  <1>2. rooms' = Settle([rooms EXCEPT ![r] = WithClients(@, c)])
    <2>1. [rooms EXCEPT ![r] = WithClients(@, c)]
            = [rooms EXCEPT ![r] = WithClients(@, Put(@.clients, p, i))]
      BY DEF Rooms
    <2> QED
      BY <2>1 DEF Join
  <1>3. /\ DOMAIN c = Members(r) \cup {p} /\ c[p] = i
        /\ \A q \in Members(r) : c[q] = rooms[r].clients[q]
    BY DEF Put, Members
  <1> HIDE DEF c
  <1>4. Evolves(rooms, rooms')
    <2>1. /\ rooms \in Seq(RoomType) /\ Len(rooms) <= MaxRooms
          /\ \A q \in 1 .. Len(rooms) : RoomOK(rooms[q])
      BY DEF IInv, QueueInv, RoomsOK
    <2>2. r \in 1 .. Len(rooms)
      BY RoomFacts
    <2> QED
      BY <1>1, <1>2, <2>1, <2>2, EditOneEvolves
  <1>5. /\ Rooms' = Rooms
        /\ \A s \in Rooms : rooms'[s].clients = IF s = r THEN c ELSE rooms[s].clients
    BY <1>1, <1>2, EditTables
  <1>6. wait_room' = Erase(wait_room, p)
    BY DEF Join
  <1>7. p \notin DOMAIN wait_room' /\ \A q : q # p => SameWait(q)
    BY <1>6 DEF Erase, SameWait
  <1> QED
    BY <1>3, <1>4, <1>5, <1>7 DEF Members

\* The joiner hears of everybody in the room and of the room's server, the
\* members hear of the joiner, and nobody else hears of anything.
LEMMA JoinReads ==
    ASSUME IInv, NEW p \in Client, NEW r \in Rooms, Join(p, r), Read, p \notin Members(r),
           NEW i, i = At(wait_room, p, DefaultId)
    PROVE  /\ \A s \in Members(r) : rooms[r].clients[s] \in others'[p]
           /\ rooms[r].game_start => address'[p] = rooms[r].server
           /\ \A q \in Members(r) : others'[q] = others[q] \cup {i} /\ address'[q] = address[q]
           /\ \A q \in Client : q # p /\ q \notin Members(r) => SameKnowledge(q)
  <1> DEFINE S == Members(r) \ {p}
  <1>1. PICK order \in Orders(S) :
          IF Starts(p, r) THEN start_room(r, Introductions(p, i, r, order))
          ELSE out' = Welcome(p, r, Introductions(p, i, r, order))
    BY DEF Join
  <1> DEFINE packets == Introductions(p, i, r, order)
             known == [n \in DOMAIN order |-> About("ClientAbout", rooms[r].clients[order[n]])]
  <1>2. /\ S = Members(r) /\ Members(r) \subseteq Client
        /\ p \in Peer /\ AgentSlot \notin Client /\ \A q \in Client : q \in Peer
    <2>1. rooms[r].clients \in Tables(Client, Ids)
      BY RoomFacts
    <2> QED
      BY <2>1 DEF Members, Tables, Client
  <1>3. /\ DOMAIN packets = Peer
        /\ packets[p] = <<Message("ResultSuccess")>> \o known
        /\ \A q \in Client : q # p => packets[q] = IF q \in Members(r)
                                                 THEN <<About("ClientAbout", i)>> ELSE <<>>
    BY <1>2 DEF Introductions
  <1> HIDE DEF packets
  <1>4. /\ \A q \in Client : q # p => out'[q] = packets[q]
        /\ IF rooms[r].game_start
           THEN out'[p] = Append(packets[p], ServerInfo(rooms[r].server))
           ELSE out'[p] = packets[p]
    <2>1. CASE Starts(p, r)
      <3>1. Launch(r, packets) /\ ~rooms[r].game_start
        BY <1>1, <2>1 DEF start_room, Starts, packets
      <3>2. \/ out' = [packets EXCEPT ![AgentSlot] = <<CreateServerFor(r)>>]
            \/ out' = packets
        BY <3>1 DEF Launch
      <3>3. \A q \in Client : out'[q] = packets[q]
        BY <1>2, <1>3, <3>2
      <3> QED
        BY <3>1, <3>3
    <2>2. CASE ~Starts(p, r)
      <3>1. out' = Welcome(p, r, packets)
        BY <1>1, <2>2 DEF packets
      <3>2. out' = IF rooms[r].game_start
                   THEN [packets EXCEPT ![p] = Append(@, ServerInfo(rooms[r].server))]
                   ELSE packets
        BY <3>1 DEF Welcome
      <3> QED
        BY <1>2, <1>3, <3>2
    <2> QED
      BY <2>1, <2>2
  <1>5. /\ order \in [1 .. Cardinality(S) -> S] /\ Cardinality(S) \in Nat
        /\ \A s \in S : \E n \in DOMAIN order : order[n] = s
    <2>1. IsFiniteSet(S)
      <3>1. IsFiniteSet(Peer) /\ S \subseteq Peer
        BY <1>2, LobbyAssumption
      <3> QED
        BY <3>1, FS_Subset
    <2>2. Cardinality(S) \in Nat
      BY <2>1, FS_CardinalityType
    <2> QED
      BY <2>2 DEF Orders
  <1> DEFINE size == Cardinality(S)
             names == {About("ClientAbout", rooms[r].clients[s]) : s \in Members(r)}
             all == names \cup {Message("ResultSuccess")}
  <1>6. known \in [1 .. size -> all]
        /\ \A s \in Members(r) : \E n \in 1 .. size : known[n] = About("ClientAbout", rooms[r].clients[s])
    <2>1. DOMAIN order = 1 .. size /\ \A n \in 1 .. size : order[n] \in Members(r)
      BY <1>2, <1>5
    <2> QED
      BY <1>2, <1>5, <2>1
  <1>7. \A d \in all : d.header # "ServerInfo" /\ d.header # "DiscClientAbout"
    BY DEF About, Message
  <1> HIDE DEF known, all, S
  <1>8. known \in Seq(all) /\ Len(known) = size /\ DOMAIN known = 1 .. size /\ size \in Nat
    BY <1>5, <1>6, SeqOf
  <1> HIDE DEF size
  <1>9. /\ packets[p] \in Seq(all) /\ Len(packets[p]) = size + 1
        /\ \A n \in 1 .. size : packets[p][n + 1] = known[n]
    <2>1. Message("ResultSuccess") \in all
      BY DEF all
    <2> QED
      BY <1>3, <1>8, <2>1
  <1>10. \A s \in Members(r) : \E n \in 1 .. size + 1 :
            packets[p][n] = About("ClientAbout", rooms[r].clients[s])
    <2> SUFFICES ASSUME NEW s \in Members(r)
                 PROVE  \E n \in 1 .. size + 1 :
                          packets[p][n] = About("ClientAbout", rooms[r].clients[s])
      OBVIOUS
    <2>1. PICK n \in 1 .. size : known[n] = About("ClientAbout", rooms[r].clients[s])
      BY <1>6
    <2>2. n + 1 \in 1 .. size + 1
      BY <1>8
    <2> QED
      BY <1>9, <2>1, <2>2
  <1>11. /\ \A n \in 1 .. size + 1 : n \in DOMAIN out'[p] /\ out'[p][n] = packets[p][n]
         /\ ~rooms[r].game_start => DOMAIN out'[p] = 1 .. size + 1
         /\ rooms[r].game_start =>
              /\ DOMAIN out'[p] = 1 .. size + 2
              /\ out'[p][size + 2] = ServerInfo(rooms[r].server)
    <2>1. CASE ~rooms[r].game_start
      BY <1>4, <1>8, <1>9, <2>1
    <2>2. CASE rooms[r].game_start
      <3> DEFINE head == packets[p]
                 last == ServerInfo(rooms[r].server)
                 wide == all \cup {last}
      <3>1. head \in Seq(all) /\ Len(head) = size + 1 /\ out'[p] = Append(head, last)
        BY <1>4, <1>9, <2>2
      <3> HIDE DEF head, last
      <3>2. head \in Seq(wide) /\ last \in wide
        BY <3>1
      <3> HIDE DEF wide
      <3>3. /\ DOMAIN Append(head, last) = 1 .. size + 2
            /\ Append(head, last)[size + 2] = last
            /\ \A n \in 1 .. size + 1 : n \in 1 .. size + 2 /\ Append(head, last)[n] = head[n]
        BY <1>8, <3>1, <3>2
      <3> QED
        BY <2>2, <3>1, <3>3 DEF head, last
    <2> QED
      BY <2>1, <2>2
  <1>12. ASSUME NEW s \in Members(r) PROVE rooms[r].clients[s] \in others'[p]
    <2>1. PICK n \in DOMAIN out'[p] : out'[p][n] = About("ClientAbout", rooms[r].clients[s])
      BY <1>10, <1>11
    <2>2. out'[p][n].header = "ClientAbout" /\ out'[p][n].id = rooms[r].clients[s]
      BY <2>1 DEF About
    <2>3. rooms[r].clients[s] \in Named(p, "ClientAbout")
      BY <2>2 DEF Named
    <2> QED
      BY <1>2, <2>3 DEF Read
  <1>13. ASSUME rooms[r].game_start PROVE address'[p] = rooms[r].server
    <2>1. ServerInfo(rooms[r].server).header = "ServerInfo"
          /\ ServerInfo(rooms[r].server).address = rooms[r].server
      BY DEF ServerInfo
    <2>2. \A n \in DOMAIN out'[p] : out'[p][n].header = "ServerInfo" <=> n = size + 2
      <3>1. \A n \in 1 .. size + 1 : packets[p][n] \in all
        BY <1>8, <1>9
      <3>2. \A n \in 1 .. size + 2 : n = size + 2 \/ n \in 1 .. size + 1
        BY <1>8
      <3> QED
        BY <1>7, <1>8, <1>11, <1>13, <2>1, <3>1, <3>2
    <2>3. size + 2 \in DOMAIN out'[p]
      BY <1>8, <1>11, <1>13
    <2>4. Told(p) = {rooms[r].server}
      BY <1>11, <1>13, <2>1, <2>2, <2>3 DEF Told
    <2>5. address'[p] = IF Told(p) = {} THEN address[p] ELSE CHOOSE a \in Told(p) : TRUE
      BY <1>2 DEF Read
    <2>6. address'[p] \in Told(p)
      BY <2>4, <2>5
    <2> QED
      BY <2>4, <2>6
  <1>14. ASSUME NEW q \in Members(r) PROVE others'[q] = others[q] \cup {i} /\ address'[q] = address[q]
    <2>1. q \in Client /\ q \in Peer /\ q # p
      BY <1>2
    <2>2. out'[q] = <<About("ClientAbout", i)>>
      BY <1>3, <1>4, <2>1
    <2>3. About("ClientAbout", i).header = "ClientAbout" /\ About("ClientAbout", i).id = i
      BY DEF About
    <2>4. /\ Named(q, "ClientAbout") = {i} /\ Named(q, "DiscClientAbout") = {}
          /\ Told(q) = {}
      BY <2>2, <2>3 DEF Named, Told
    <2>5. /\ others'[q] = (others[q] \ Named(q, "DiscClientAbout")) \cup Named(q, "ClientAbout")
          /\ address'[q] = IF Told(q) = {} THEN address[q] ELSE CHOOSE a \in Told(q) : TRUE
      BY <2>1 DEF Read
    <2> QED
      BY <2>4, <2>5
  <1>15. ASSUME NEW q \in Client, q # p, q \notin Members(r) PROVE SameKnowledge(q)
    <2>1. out'[q] = <<>> /\ q \in Peer
      BY <1>2, <1>3, <1>4, <1>15
    <2> QED
      BY <2>1, NoNews
  <1> QED
    BY <1>12, <1>13, <1>14, <1>15

\* A client that was in no room joins one.
LEMMA JoinOrderly ==
    ASSUME IdInv, Orderly, ClientJoins, ~strayed'
    PROVE  Orderly'
  <1>1. PICK p \in Client, r \in Rooms :
          Join(p, r) /\ Read /\ strayed' = (strayed \/ InSomeRoom(p))
    BY DEF ClientJoins
  <1> DEFINE i == At(wait_room, p, DefaultId)
  <1>2. /\ IInv /\ Join(p, r) /\ Read /\ conn' = conn /\ id' = id /\ conn[p] = "greeted"
        /\ \A q \in Client : q \in Peer
    BY <1>1 DEF IdInv, Join, Requests, Links, Read, Client
  <1>3. p \notin Members(r) /\ \A s \in Rooms : ~In(p, s)
    BY <1>1 DEF InSomeRoom, In
  <1>4. i = id[p]
    BY <1>2, <1>3 DEF Orderly, Placed, At
  <1> HIDE DEF i
  <1>5. i = At(wait_room, p, DefaultId)
    BY DEF i
  <1>6. /\ Evolves(rooms, rooms') /\ Rooms' = Rooms
        /\ \A s \in Rooms \ {r} : rooms'[s].clients = rooms[s].clients
        /\ Members(r)' = Members(r) \cup {p}
        /\ rooms'[r].clients[p] = i
        /\ \A q \in Members(r) : rooms'[r].clients[q] = rooms[r].clients[q]
        /\ p \notin DOMAIN wait_room'
        /\ \A q : q # p => SameWait(q)
    BY <1>2, <1>3, <1>5, JoinTables
  <1>7. /\ \A s \in Members(r) : rooms[r].clients[s] \in others'[p]
        /\ rooms[r].game_start => address'[p] = rooms[r].server
        /\ \A q \in Members(r) : others'[q] = others[q] \cup {i} /\ address'[q] = address[q]
        /\ \A q \in Client : q # p /\ q \notin Members(r) => SameKnowledge(q)
    BY <1>2, <1>3, <1>5, JoinReads
  <1>8. \A s \in Rooms \ {r} : Members(s)' = Members(s)
    BY <1>6 DEF Members
  <1>9. \A q : q # p => SameRooms(q)
    BY <1>6, <1>8 DEF SameRooms, Remains, In
  <1>10. \A s \in Rooms : In(p, s)' <=> s = r
    BY <1>3, <1>6, <1>8 DEF In
  <1>11. Placed(p)'
    BY <1>2, <1>4, <1>6, <1>10 DEF Placed, In
  <1>12. ASSUME NEW q \in Client PROVE Placed(q)'
    BY <1>2, <1>6, <1>9, <1>11, PlacedStays DEF Orderly
  <1>13. ASSUME NEW s \in Rooms, rooms'[s].game_start
         PROVE  rooms[s].game_start /\ rooms'[s].server = rooms[s].server
    <2>1. s \in 1 .. Len(rooms')
      <3>1. rooms' \in Seq(RoomType) /\ s \in Rooms'
        BY <1>6 DEF Evolves
      <3> QED
        BY <3>1 DEF Rooms
    <2> QED
      BY <1>6, <1>13, <2>1 DEF Evolves
  <1>14. ASSUME NEW q \in Client PROVE Knowing(q)'
    <2> SUFFICES ASSUME NEW s \in Rooms, In(q, s)'
                 PROVE  /\ rooms'[s].game_start => address'[q] = rooms'[s].server
                        /\ \A d \in Members(s)' \ {q} : rooms'[s].clients[d] \in others'[q]
      BY <1>6 DEF Knowing
    <2>1. CASE q = p
      <3>1. s = r
        BY <1>10, <2>1
      <3>2. \A d \in Members(r)' \ {p} : d \in Members(r)
        BY <1>6
      <3> QED
        BY <1>6, <1>7, <1>13, <2>1, <3>1, <3>2
    <2>2. ASSUME q # p
          PROVE  /\ In(q, s)
                 /\ rooms[s].game_start => address[q] = rooms[s].server
                 /\ \A d \in Members(s) \ {q} : rooms[s].clients[d] \in others[q]
      <3>1. In(q, s)
        BY <1>6, <1>9, <2>2 DEF SameRooms, Remains
      <3> QED
        BY <3>1 DEF Orderly, Knowing
    <2>3. CASE q # p /\ s # r
      <3>1. q \notin Members(r)
        BY <2>2, <2>3 DEF Orderly, Placed, In
      <3>2. SameKnowledge(q)
        BY <1>7, <2>3, <3>1
      <3>3. Members(s)' = Members(s) /\ rooms'[s].clients = rooms[s].clients
        BY <1>6, <1>8, <2>3
      <3> QED
        BY <1>13, <2>2, <2>3, <3>2, <3>3 DEF SameKnowledge
    <2>4. CASE q # p /\ s = r
      <3>1. q \in Members(r)
        BY <2>2, <2>4 DEF In
      <3>2. others'[q] = others[q] \cup {i} /\ address'[q] = address[q]
        BY <1>7, <3>1
      <3>3. \A d \in Members(r)' \ {q} : d = p \/ d \in Members(r) \ {q}
        BY <1>6
      <3> QED
        BY <1>6, <1>13, <2>2, <2>4, <3>2, <3>3
    <2> QED
      BY <2>1, <2>3, <2>4
  <1> QED
    BY <1>12, <1>14 DEF Orderly

-----------------------------------------------------------------------------
(***************************************************************************)
(* The numbers the lobby gives out.                                        *)
(***************************************************************************)

\* Nobody arrives.
LEMMA NobodyArrives ==
    ASSUME IInv, OwnNumbers, id' = id, id_counter' \in Nat, id_counter' >= id_counter,
           \A p \in Peer : conn'[p] # "none" => conn[p] # "none",
           running' \/ (~running /\ conn' = conn)
    PROVE  OwnNumbers'
  <1>1. \A p \in Peer : id[p] \in Int
    BY IdTypes
  <1>2. id_counter \in Nat
    BY IdTypes
  <1> QED
    BY <1>1, <1>2 DEF OwnNumbers

\* A client takes slot p, or leaves it, with the id i.
LEMMA OneArrives ==
    ASSUME IInv, OwnNumbers, running', NEW p \in Peer, NEW i \in Ids, Arrive(p, i),
           \A q \in Peer : q # p => conn'[q] = conn[q],
           id_counter' \in Nat, id_counter' >= id_counter, i < id_counter',
           conn'[p] # "none" => \A q \in Peer : q # p /\ conn[q] # "none" => id[q] # i
    PROVE  OwnNumbers'
  <1>1. \A q \in Peer : id[q] \in Int
    BY IdTypes
  <1>2. id_counter \in Nat /\ i \in Int
    BY IdTypes
  <1>3. id'[p] = i /\ \A q \in Peer : q # p => id'[q] = id[q] /\ conn'[q] = conn[q]
    BY IdTypes DEF Arrive
  <1>4. \A q \in Peer : id'[q] < id_counter'
    BY <1>1, <1>2, <1>3 DEF OwnNumbers
  <1>5. \A q, s \in Peer : q # s /\ conn'[q] # "none" /\ conn'[s] # "none" => id'[q] # id'[s]
    BY <1>3 DEF OwnNumbers
  <1> QED
    BY <1>4, <1>5 DEF OwnNumbers

LEMMA NumbersStep ==
    ASSUME IInv, OwnNumbers, [Next]_vars
    PROVE  OwnNumbers'
  <1>1. id_counter \in Nat /\ NoId \in Ids /\ NoId < id_counter
        /\ \A p \in Client : p \in Peer
    BY IdTypes, Constants DEF NoId, Client
  <1>2. ASSUME id' = id, conn' = conn, id_counter' = id_counter, running' = running \/ running'
        PROVE  OwnNumbers'
    BY <1>1, <1>2, NobodyArrives
  <1>3. CASE Boot
    <2>1. CASE (BootAgent \/ BootFail) /\ UNCHANGED knowledge
      BY <1>2, <2>1 DEF BootAgent, BootFail, knowledge
    <2>2. ASSUME NEW p \in Client, BootClient(p), Arrive(p, NoId) PROVE OwnNumbers'
      <3>1. /\ running' /\ ~running /\ conn' = [conn EXCEPT ![p] = "connected"]
            /\ id_counter' = id_counter
        BY <2>2 DEF BootClient
      <3>2. \A q \in Peer : conn[q] = "none"
        BY <3>1 DEF OwnNumbers
      <3>3. p \in Peer /\ \A q \in Peer : q # p => conn'[q] = conn[q]
        BY <1>1, <3>1
      <3> QED
        BY <1>1, <2>2, <3>1, <3>2, <3>3, OneArrives
    <2> QED
      BY <1>3, <2>1, <2>2 DEF Boot
  <1>4. CASE ClientConnects
    <2>1. PICK p \in Peer : Connect(p) /\ Arrive(p, id_counter)
      BY <1>4 DEF ClientConnects
    <2>2. /\ running' /\ conn' = [conn EXCEPT ![p] = "connected"] /\ Greet(p)
          /\ id_counter' = id_counter + 1
      BY <2>1 DEF Connect, Greet
    <2>3. id_counter \in Ids
      BY <2>2, GreetTypes DEF IInv
    <2>4. \A q \in Peer : id[q] # id_counter
      BY <1>1, IdTypes DEF OwnNumbers
    <2>5. \A q \in Peer : q # p => conn'[q] = conn[q]
      BY <2>2, IdTypes
    <2> QED
      BY <1>1, <2>1, <2>2, <2>3, <2>4, <2>5, OneArrives
  <1>5. CASE ClientGreets
    <2>1. PICK p \in Client : ClientAbout(p, id[p]) /\ Read
      BY <1>5 DEF ClientGreets
    <2>2. /\ running' /\ id' = id /\ id_counter' = id_counter /\ conn[p] = "connected"
          /\ conn' = [conn EXCEPT ![p] = "greeted"]
      BY <2>1 DEF ClientAbout, Served, Read
    <2>3. \A q \in Peer : conn'[q] # "none" => conn[q] # "none"
      BY <2>2, IdTypes
    <2> QED
      BY <1>1, <2>2, <2>3, NobodyArrives
  <1>6. CASE ClientDisconnects
    <2>1. PICK p \in Peer : Disconnect(p) /\ Arrive(p, NoId)
      BY <1>6 DEF ClientDisconnects
    <2>2. running' /\ conn' = [conn EXCEPT ![p] = "none"] /\ id_counter' = id_counter
      BY <2>1 DEF Disconnect, Forget
    <2>3. conn'[p] = "none" /\ \A q \in Peer : q # p => conn'[q] = conn[q]
      BY <2>2, IdTypes
    <2> QED
      BY <1>1, <2>1, <2>2, <2>3, OneArrives
  <1>7. CASE AgentLink
    <2>1. CASE AgentConnect /\ Read
      <3>1. running' /\ conn' = conn /\ id' = id /\ id_counter' = id_counter + 1
        BY <2>1 DEF AgentConnect, Greet, Read
      <3> QED
        BY <1>1, <3>1, NobodyArrives
    <2>2. CASE AgentLost /\ Read
      BY <1>2, <2>2 DEF AgentLost, Forget, Read
    <2> QED
      BY <1>7, <2>1, <2>2 DEF AgentLink
  <1>8. CASE ClientListsRooms \/ ClientCreatesRoom \/ ClientJoins \/ ClientRefused \/ ClientLeaves
    <2>1. \E p \in Client : Requests(p) /\ id' = id
      BY <1>8 DEF ClientListsRooms, ClientCreatesRoom, ClientJoins, ClientRefused, ClientLeaves,
         RoomList, NewRoomInfo, Join, JoinRefused, LeaveRefused, Leave, Read
    <2> QED
      BY <1>2, <2>1 DEF Requests, Links
  <1>9. CASE LobbyServesAgent
    BY <1>2, <1>9 DEF LobbyServesAgent, ServerPort, Links, Read
  <1>10. CASE AgentLaunches \/ Idle \/ UNCHANGED vars
    BY <1>2, <1>10 DEF AgentLaunches, Idle, vars, lobbyVars, knowledge
  <1> QED
    BY <1>3, <1>4, <1>5, <1>6, <1>7, <1>8, <1>9, <1>10 DEF Next

-----------------------------------------------------------------------------
(***************************************************************************)
(* The invariant, and what follows from it.                                *)
(***************************************************************************)

\* Once a client has strayed, the lobby never takes it back.
LEMMA StrayedStays ==
    ASSUME [Next]_vars, strayed
    PROVE  strayed'
  <1>1. CASE UNCHANGED vars
    BY <1>1 DEF vars
  <1>2. CASE Next
    BY <1>2 DEF Next, Boot, ClientConnects, ClientGreets, ClientListsRooms, ClientCreatesRoom,
       ClientJoins, ClientRefused, ClientLeaves, ClientDisconnects, AgentLink,
       LobbyServesAgent, AgentLaunches, Idle, Arrive, LobbyKeeps, vars
  <1> QED
    BY <1>1, <1>2

LEMMA IdStart == Init => IdInv
  <1> SUFFICES ASSUME Init PROVE IdInv
    OBVIOUS
  <1>1. IInv
    BY Start
  <1>2. rooms = <<>> /\ wait_room = NoEntries /\ id_counter = 0
        /\ conn = [p \in Peer |-> "none"] /\ id = [p \in Peer |-> NoId]
    BY DEF Init, LobbyInit
  <1>3. OwnNumbers
    BY <1>2 DEF OwnNumbers, NoId
  <1>4. Orderly
    <2>1. Rooms = {} /\ DOMAIN wait_room = {} /\ \A q \in Client : conn[q] # "greeted"
      BY <1>2 DEF Rooms, NoEntries, Client
    <2> QED
      BY <2>1 DEF Orderly, Placed, Knowing, In
  <1> QED
    BY <1>1, <1>3, <1>4 DEF IdInv

LEMMA IdStep == IdInv /\ [Next]_vars => IdInv'
  <1> SUFFICES ASSUME IdInv, [Next]_vars PROVE IdInv'
    OBVIOUS
  <1>1. IInv'
    BY QueueKept, ClientKept DEF IdInv, IInv, ClientInv
  <1>2. OwnNumbers'
    BY NumbersStep DEF IdInv
  <1>3. ASSUME ~strayed' PROVE Orderly'
    <2>1. Orderly
      BY <1>3, StrayedStays DEF IdInv
    <2>2. CASE Boot
      BY <2>1, <2>2, BootOrderly
    <2>3. CASE ClientConnects
      BY <2>1, <2>3, ConnectOrderly
    <2>4. CASE ClientGreets
      BY <2>1, <2>4, GreetsOrderly
    <2>5. CASE ClientListsRooms \/ ClientCreatesRoom \/ ClientRefused
      BY <2>1, <2>5, RequestsOrderly
    <2>6. CASE ClientJoins
      BY <1>3, <2>1, <2>6, JoinOrderly
    <2>7. CASE ClientLeaves
      BY <2>1, <2>7, LeaveOrderly
    <2>8. CASE ClientDisconnects
      BY <2>1, <2>8, GoneOrderly
    <2>9. CASE LobbyServesAgent
      BY <2>1, <2>9, PortOrderly
    <2>10. CASE AgentLink \/ AgentLaunches \/ Idle \/ UNCHANGED vars
      BY <2>1, <2>10, AgentOrderly
    <2> QED
      BY <2>2, <2>3, <2>4, <2>5, <2>6, <2>7, <2>8, <2>9, <2>10 DEF Next
  <1> QED
    BY <1>1, <1>2, <1>3 DEF IdInv

\* The inductive invariant holds in every execution: clients have ids of
\* their own and, while nobody has strayed, a client is in one place under its
\* id and knows its room.
THEOREM Identity == Spec => []IdInv
  BY IdStart, IdStep, PTL DEF Spec

\* The lobby never mixes up its clients: whatever is moved between wait_room
\* and the rooms, an entry is the id of the client behind the peer, as long as
\* nobody joins a second room.
THEOREM IdentityKept == Spec => []OwnIdentity
  <1>1. IdInv => OwnIdentity
    <2> SUFFICES ASSUME IdInv, ~strayed PROVE /\ \A p \in DOMAIN wait_room : wait_room[p] = id[p]
                                             /\ \A r \in Rooms : \A p \in Members(r) :
                                                   rooms[r].clients[p] = id[p]
      BY DEF OwnIdentity
    <2>1. IInv /\ Orderly
      BY DEF IdInv
    <2>2. \A p \in DOMAIN wait_room : p \in Client
      BY <2>1, IdTypes DEF Tables
    <2> QED
      BY <2>1, <2>2, RoomFacts DEF Orderly, Placed, In
  <1> QED
    BY <1>1, Identity, PTL

\* Every member of a running room has last been told that room's server, in
\* whatever order it joined, the port came and earlier games ended.
THEOREM MembersInformed == Spec => []MembersKnowServer
  <1>1. IdInv => MembersKnowServer
    <2> SUFFICES ASSUME IdInv, ~strayed, NEW r \in Rooms, rooms[r].game_start,
                        NEW p \in Members(r)
                 PROVE  address[p] = rooms[r].server
      BY DEF MembersKnowServer
    <2>1. IInv /\ Orderly
      BY DEF IdInv
    <2>2. p \in Client /\ In(p, r)
      BY <2>1, RoomFacts DEF In
    <2> QED
      BY <2>1, <2>2 DEF Orderly, Knowing
  <1> QED
    BY <1>1, Identity, PTL

\* The members of a room know of each other: introductions on a join and
\* notices on a leave keep every list complete.
THEOREM RosterKept == Spec => []RosterComplete
  <1>1. IdInv => RosterComplete
    <2> SUFFICES ASSUME IdInv, ~strayed, NEW r \in Rooms, NEW p \in Members(r),
                        NEW q \in Members(r) \ {p}
                 PROVE  rooms[r].clients[q] \in others[p]
      BY DEF RosterComplete
    <2>1. IInv /\ Orderly
      BY DEF IdInv
    <2>2. p \in Client /\ In(p, r)
      BY <2>1, RoomFacts DEF In
    <2> QED
      BY <2>1, <2>2 DEF Orderly, Knowing
  <1> QED
    BY <1>1, Identity, PTL
=============================================================================
