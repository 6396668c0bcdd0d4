---------------------------- MODULE SessionProofs ----------------------------
(***************************************************************************)
(* What a client believes of its room, its companions and its game is what *)
(* the lobby knows: theorems about Session, for every set of peers, every  *)
(* number of rooms, ids and commands, and every start level.               *)
(***************************************************************************)
EXTENDS SessionProperties, FiniteSetTheorems, TLAPS

Client == Peer \ {AgentSlot}

\* What the constants are, as the assumptions of EnetLobby and Session have it.
LEMMA Constants ==
    /\ me \in Client /\ Others = Client \ {me} /\ me \notin Others
    /\ MaxRooms \in Nat /\ MaxId \in Nat /\ FirstPort \in Nat
    /\ NoId \in Ids /\ DefaultId \in Ids /\ NoId < DefaultId
    /\ Typable \subseteq Nat
  BY LobbyAssumption, SessionAssumption DEF Client, Others, Ids, NoId, DefaultId

-----------------------------------------------------------------------------
(***************************************************************************)
(* Tables.                                                                 *)
(***************************************************************************)

\* Storing an entry keeps a table a table.
LEMMA PutTable ==
    ASSUME NEW K, NEW V, NEW m \in Tables(K, V), NEW k \in K, NEW v \in V
    PROVE  /\ Put(m, k, v) \in Tables(K, V) /\ DOMAIN Put(m, k, v) = DOMAIN m \cup {k}
           /\ Put(m, k, v)[k] = v
           /\ \A x \in DOMAIN m : x # k => Put(m, k, v)[x] = m[x]
  <1>1. PICK D \in SUBSET K : m \in [D -> V]
    BY DEF Tables
  <1>2. DOMAIN Put(m, k, v) = D \cup {k}
    BY <1>1 DEF Put
  <1>3. Put(m, k, v) \in [D \cup {k} -> V]
    BY <1>1 DEF Put
  <1>4. Put(m, k, v)[k] = v /\ \A x \in DOMAIN m : x # k => Put(m, k, v)[x] = m[x]
    BY DEF Put
  <1> QED
    BY <1>1, <1>2, <1>3, <1>4 DEF Tables

\* So does erasing one.
LEMMA EraseTable ==
    ASSUME NEW K, NEW V, NEW m \in Tables(K, V), NEW k
    PROVE  /\ Erase(m, k) \in Tables(K, V) /\ DOMAIN Erase(m, k) = DOMAIN m \ {k}
           /\ \A x \in DOMAIN m : x # k => Erase(m, k)[x] = m[x]
  <1>1. PICK D \in SUBSET K : m \in [D -> V]
    BY DEF Tables
  <1>2. Erase(m, k) \in [D \ {k} -> V]
    BY <1>1 DEF Erase
  <1>3. \A x \in DOMAIN m : x # k => Erase(m, k)[x] = m[x]
    BY DEF Erase
  <1> QED
    BY <1>1, <1>2, <1>3 DEF Tables, Erase

\* What is in a table, and what reading it gives.
LEMMA InTable ==
    ASSUME NEW K, NEW V, NEW m \in Tables(K, V)
    PROVE  /\ DOMAIN m \subseteq K /\ \A k \in DOMAIN m : m[k] \in V
           /\ \A k : \A d \in V : At(m, k, d) \in V
           /\ \A k : k \in DOMAIN m => \A d : At(m, k, d) = m[k]
  BY DEF Tables, At

LEMMA EmptyTable ==
    ASSUME NEW K, NEW V
    PROVE  NoEntries \in Tables(K, V) /\ DOMAIN NoEntries = {}
  <1>1. NoEntries \in [{} -> V]
    BY DEF NoEntries
  <1> QED
    BY <1>1 DEF Tables, NoEntries

-----------------------------------------------------------------------------
(***************************************************************************)
(* Rooms.                                                                  *)
(***************************************************************************)
RoomRecord ==
    [clients : Tables(Client, Ids), game_start : BOOLEAN, server : Seq(Nat),
     max_clients_count : Capacity, settings : Settings]

\* From the rooms rs to the rooms rt: none is lost, and those with members
\* keep their game.
Carries(rs, rt) ==
    /\ rt \in Seq(RoomRecord) /\ Len(rs) <= Len(rt)
    /\ \A r \in 1 .. Len(rs) : DOMAIN rt[r].clients # {} =>
         rt[r].game_start = rs[r].game_start /\ rt[r].server = rs[r].server

LEMMA WriteServer ==
    ASSUME NEW room \in RoomRecord, NEW b \in BOOLEAN, NEW w \in Seq(Nat)
    PROVE  LET new == WithServer(room, b, w)
           IN  /\ new \in RoomRecord /\ new.game_start = b /\ new.server = w
               /\ new.clients = room.clients
  BY DEF RoomRecord, WithServer

LEMMA WriteClients ==
    ASSUME NEW room \in RoomRecord, NEW c \in Tables(Client, Ids)
    PROVE  LET new == WithClients(room, c)
           IN  /\ new \in RoomRecord /\ new.clients = c
               /\ new.game_start = room.game_start /\ new.server = room.server
  BY DEF RoomRecord, WithClients

LEMMA SeqFacts ==
    ASSUME NEW S, NEW s \in Seq(S)
    PROVE  /\ DOMAIN s = 1 .. Len(s) /\ Len(s) \in Nat /\ s \in [1 .. Len(s) -> S]
           /\ \A n \in DOMAIN s : s[n] \in S
  OBVIOUS

LEMMA SeqOf ==
    ASSUME NEW S, NEW n \in Nat, NEW f \in [1 .. n -> S]
    PROVE  f \in Seq(S) /\ Len(f) = n
  OBVIOUS

\* The tail of process_event: who is where stays, and so does a room with
\* members.
LEMMA Settled ==
    ASSUME NEW rs \in Seq(RoomRecord)
    PROVE  LET rt == Settle(rs)
           IN  /\ rt \in Seq(RoomRecord) /\ Len(rt) = Len(rs)
               /\ \A r \in 1 .. Len(rs) :
                    /\ rt[r].clients = rs[r].clients
                    /\ DOMAIN rs[r].clients # {} => rt[r] = rs[r]
  <1> DEFINE rt == Settle(rs)
  <1>1. DOMAIN rs = 1 .. Len(rs) /\ Len(rs) \in Nat /\ \A r \in 1 .. Len(rs) : rs[r] \in RoomRecord
    BY SeqFacts
  <1>2. ASSUME NEW r \in 1 .. Len(rs)
        PROVE  /\ rt[r] \in RoomRecord /\ rt[r].clients = rs[r].clients
               /\ DOMAIN rs[r].clients # {} => rt[r] = rs[r]
    <2> DEFINE new == WithServer(rs[r], FALSE, <<>>)
    <2>1. rs[r] \in RoomRecord /\ <<>> \in Seq(Nat) /\ FALSE \in BOOLEAN
      BY <1>1
    <2>2. new \in RoomRecord /\ new.clients = rs[r].clients
      BY <2>1, WriteServer
    <2> HIDE DEF new
    <2>3. rt[r] = IF DOMAIN rs[r].clients = {} THEN new ELSE rs[r]
      BY <1>1 DEF Settle, new
    <2> QED
      BY <2>1, <2>2, <2>3
  <1>3. rt = [r \in 1 .. Len(rs) |-> rt[r]]
    BY <1>1 DEF Settle
  <1> HIDE DEF rt
  <1>4. rt \in [1 .. Len(rs) -> RoomRecord]
    BY <1>2, <1>3
  <1>5. rt \in Seq(RoomRecord) /\ Len(rt) = Len(rs)
    BY <1>1, <1>4, SeqOf
  <1>6. /\ rt \in Seq(RoomRecord) /\ Len(rt) = Len(rs)
        /\ \A r \in 1 .. Len(rs) : /\ rt[r].clients = rs[r].clients
                                   /\ DOMAIN rs[r].clients # {} => rt[r] = rs[r]
    BY <1>2, <1>5
  <1> QED
    BY <1>6 DEF rt

\* The tail alone.
LEMMA TailCarries ==
    ASSUME NEW rs \in Seq(RoomRecord)
    PROVE  LET rt == Settle(rs)
           IN  /\ Carries(rs, rt) /\ Len(rt) = Len(rs)
               /\ \A r \in 1 .. Len(rs) : rt[r].clients = rs[r].clients
  <1> DEFINE rt == Settle(rs)
  <1>1. /\ rt \in Seq(RoomRecord) /\ Len(rt) = Len(rs)
        /\ \A r \in 1 .. Len(rs) : /\ rt[r].clients = rs[r].clients
                                   /\ DOMAIN rs[r].clients # {} => rt[r] = rs[r]
    BY Settled
  <1>2. Len(rs) \in Nat
    OBVIOUS
  <1> HIDE DEF rt
  <1>3. Carries(rs, rt)
    BY <1>1, <1>2 DEF Carries
  <1>4. /\ Carries(rs, rt) /\ Len(rt) = Len(rs)
        /\ \A r \in 1 .. Len(rs) : rt[r].clients = rs[r].clients
    BY <1>1, <1>3
  <1> QED
    BY <1>4 DEF rt

\* Every room's table is written, then the tail.
LEMMA EditCarries ==
    ASSUME NEW rs \in Seq(RoomRecord), NEW rt \in Seq(RoomRecord), Len(rt) = Len(rs),
           \A r \in 1 .. Len(rs) : /\ rt[r].game_start = rs[r].game_start
                                   /\ rt[r].server = rs[r].server
    PROVE  /\ Carries(rs, Settle(rt)) /\ Len(Settle(rt)) = Len(rs)
           /\ \A r \in 1 .. Len(rs) : Settle(rt)[r].clients = rt[r].clients
  <1> DEFINE ru == Settle(rt)
  <1>1. /\ ru \in Seq(RoomRecord) /\ Len(ru) = Len(rt)
        /\ \A r \in 1 .. Len(rt) : /\ ru[r].clients = rt[r].clients
                                   /\ DOMAIN rt[r].clients # {} => ru[r] = rt[r]
    BY Settled
  <1>2. Len(rs) \in Nat
    OBVIOUS
  <1> HIDE DEF ru
  <1>3. Carries(rs, ru)
    BY <1>1, <1>2 DEF Carries
  <1>4. Carries(rs, ru) /\ Len(ru) = Len(rs) /\ \A r \in 1 .. Len(rs) : ru[r].clients = rt[r].clients
    BY <1>1, <1>3
  <1> QED
    BY <1>4 DEF ru

\* One room's table is written.
LEMMA EditOneCarries ==
    ASSUME NEW rs \in Seq(RoomRecord), NEW r \in 1 .. Len(rs), NEW c \in Tables(Client, Ids)
    PROVE  LET rt == Settle([rs EXCEPT ![r] = WithClients(@, c)])
           IN  /\ Carries(rs, rt) /\ Len(rt) = Len(rs)
               /\ \A q \in 1 .. Len(rs) : rt[q].clients = IF q = r THEN c ELSE rs[q].clients
  <1> DEFINE new == WithClients(rs[r], c)
             rt == [rs EXCEPT ![r] = new]
  <1>1. rs[r] \in RoomRecord
    OBVIOUS
  <1>2. /\ new \in RoomRecord /\ new.clients = c /\ new.game_start = rs[r].game_start
        /\ new.server = rs[r].server
    BY <1>1, WriteClients
  <1>3. [rs EXCEPT ![r] = WithClients(@, c)] = rt
    OBVIOUS
  <1> HIDE DEF new
  <1>4. rt \in Seq(RoomRecord) /\ Len(rt) = Len(rs)
        /\ \A q \in 1 .. Len(rs) : rt[q] = IF q = r THEN new ELSE rs[q]
    BY <1>2
  <1> HIDE DEF rt
  <1>5. /\ Carries(rs, Settle(rt)) /\ Len(Settle(rt)) = Len(rs)
        /\ \A q \in 1 .. Len(rs) : Settle(rt)[q].clients = rt[q].clients
    BY <1>2, <1>4, EditCarries
  <1>6. \A q \in 1 .. Len(rs) : rt[q].clients = IF q = r THEN c ELSE rs[q].clients
    BY <1>2, <1>4
  <1> QED
    BY <1>3, <1>5, <1>6

\* A peer is erased from every room.
LEMMA EraseCarries ==
    ASSUME NEW rs \in Seq(RoomRecord), NEW p
    PROVE  LET rt == Settle([r \in DOMAIN rs |->
                               WithClients(rs[r], Erase(rs[r].clients, p))])
           IN  /\ Carries(rs, rt) /\ Len(rt) = Len(rs)
               /\ \A r \in 1 .. Len(rs) : rt[r].clients = Erase(rs[r].clients, p)
  <1> DEFINE rt == [r \in DOMAIN rs |-> WithClients(rs[r], Erase(rs[r].clients, p))]
  <1>1. DOMAIN rs = 1 .. Len(rs) /\ Len(rs) \in Nat
    OBVIOUS
  <1>2. ASSUME NEW r \in 1 .. Len(rs)
        PROVE  /\ rt[r] \in RoomRecord /\ rt[r].game_start = rs[r].game_start
               /\ rt[r].server = rs[r].server /\ rt[r].clients = Erase(rs[r].clients, p)
    <2> DEFINE c == Erase(rs[r].clients, p)
               new == WithClients(rs[r], c)
    <2>1. rs[r] \in RoomRecord
      OBVIOUS
    <2>2. rs[r].clients \in Tables(Client, Ids)
      BY <2>1 DEF RoomRecord
    <2>3. c \in Tables(Client, Ids)
      BY <2>2, EraseTable
    <2> HIDE DEF c
    <2>4. /\ new \in RoomRecord /\ new.game_start = rs[r].game_start
          /\ new.server = rs[r].server /\ new.clients = c
      BY <2>1, <2>3, WriteClients
    <2>5. rt[r] = new
      BY <1>1 DEF c
    <2> QED
      BY <2>4, <2>5 DEF c
  <1>3. rt \in [1 .. Len(rs) -> RoomRecord]
    BY <1>1, <1>2
  <1> HIDE DEF rt
  <1>4. rt \in Seq(RoomRecord) /\ Len(rt) = Len(rs)
    BY <1>1, <1>3
  <1>5. /\ Carries(rs, Settle(rt)) /\ Len(Settle(rt)) = Len(rs)
        /\ \A r \in 1 .. Len(rs) : Settle(rt)[r].clients = rt[r].clients
    BY <1>2, <1>4, EditCarries
  <1> QED
    BY <1>2, <1>5 DEF rt

\* A new room.
LEMMA AddCarries ==
    ASSUME NEW rs \in Seq(RoomRecord), NEW max \in Capacity, NEW s \in Settings
    PROVE  LET rt == Settle(Append(rs, NewRoom(max, s)))
           IN  /\ Carries(rs, rt) /\ Len(rt) = Len(rs) + 1
               /\ \A r \in 1 .. Len(rs) : rt[r].clients = rs[r].clients
               /\ rt[Len(rs) + 1].clients = NoEntries
  <1> DEFINE new == NewRoom(max, s)
             rt == Append(rs, new)
             ru == Settle(rt)
  <1>1. new \in RoomRecord /\ new.clients = NoEntries
    <2>1. NoEntries \in Tables(Client, Ids) /\ <<>> \in Seq(Nat)
      BY EmptyTable
    <2> QED
      BY <2>1 DEF NewRoom, RoomRecord
  <1> HIDE DEF new
  <1>2. /\ rt \in Seq(RoomRecord) /\ Len(rt) = Len(rs) + 1 /\ Len(rs) \in Nat
        /\ \A r \in 1 .. Len(rs) : rt[r] = rs[r]
        /\ rt[Len(rs) + 1] = new
    BY <1>1
  <1> HIDE DEF rt
  <1>3. /\ ru \in Seq(RoomRecord) /\ Len(ru) = Len(rt)
        /\ \A r \in 1 .. Len(rt) : /\ ru[r].clients = rt[r].clients
                                   /\ DOMAIN rt[r].clients # {} => ru[r] = rt[r]
    BY <1>2, Settled
  <1> HIDE DEF ru
  <1>4. Carries(rs, ru)
    BY <1>2, <1>3 DEF Carries
  <1>5. /\ Carries(rs, ru) /\ Len(ru) = Len(rs) + 1
        /\ \A r \in 1 .. Len(rs) : ru[r].clients = rs[r].clients
        /\ ru[Len(rs) + 1].clients = NoEntries
    BY <1>1, <1>2, <1>3, <1>4
  <1> QED
    BY <1>5 DEF ru, rt, new

-----------------------------------------------------------------------------
(***************************************************************************)
(* The lobby's side of the inductive invariant.                            *)
(***************************************************************************)
LaunchOrder == [header : {"CreateServer"}, settings : Settings]

Tabled ==
    /\ rooms \in Seq(RoomRecord)
    /\ wait_room \in Tables(Client, Ids)
    /\ id_counter \in 0 .. MaxId
    /\ conn \in [Peer -> {"none", "connected", "greeted"}]
    /\ running \/ \A p \in Peer : conn[p] = "none"
    /\ \A r \in Rooms : \A p \in Members(r) : conn[p] = "greeted"

\* Every port on its way has a room that waits for it.
Queued ==
    /\ rooms_wait \in Seq(Rooms)
    /\ toAgent \in Seq(LaunchOrder) /\ fromAgent \in Seq(Nat)
    /\ Len(fromAgent) + Len(toAgent) <= Len(rooms_wait)
    /\ min_port \in Nat

LobbyInv == Tabled /\ Queued

LEMMA RoomFacts ==
    ASSUME Tabled
    PROVE  /\ Rooms = 1 .. Len(rooms) /\ Len(rooms) \in Nat
           /\ \A r \in Rooms : /\ rooms[r] \in RoomRecord
                               /\ rooms[r].clients \in Tables(Client, Ids)
                               /\ rooms[r].game_start \in BOOLEAN
                               /\ rooms[r].server \in Seq(Nat)
                               /\ rooms[r].settings \in Settings
                               /\ Members(r) \subseteq Client
                               /\ \A p \in Members(r) : rooms[r].clients[p] \in Ids
  <1>1. /\ Rooms = 1 .. Len(rooms) /\ Len(rooms) \in Nat
        /\ \A r \in Rooms : rooms[r] \in RoomRecord
    BY SeqFacts DEF Tabled, Rooms
  <1>2. ASSUME NEW r \in Rooms
        PROVE  /\ rooms[r].clients \in Tables(Client, Ids)
               /\ rooms[r].game_start \in BOOLEAN
               /\ rooms[r].server \in Seq(Nat)
               /\ rooms[r].settings \in Settings
    BY <1>1 DEF RoomRecord
  <1>3. ASSUME NEW r \in Rooms
        PROVE  Members(r) \subseteq Client /\ \A p \in Members(r) : rooms[r].clients[p] \in Ids
    BY <1>2, InTable DEF Members
  <1> QED
    BY <1>1, <1>2, <1>3

\* A step that loses no room and leaves the queues alone.
LEMMA QueuesKept ==
    ASSUME Tabled, Queued, Carries(rooms, rooms'), UNCHANGED Queues, UNCHANGED min_port
    PROVE  Queued'
  <1>1. Rooms = 1 .. Len(rooms) /\ Len(rooms) \in Nat
    BY RoomFacts
  <1>2. /\ rooms' \in Seq(RoomRecord) /\ Len(rooms') \in Nat /\ Len(rooms) <= Len(rooms')
        /\ Rooms' = 1 .. Len(rooms')
    BY SeqFacts DEF Carries, Rooms
  <1>3. Rooms \subseteq Rooms'
    BY <1>1, <1>2
  <1> QED
    BY <1>3 DEF Queued, Queues

\* Who is where stays, and rooms may be added.
SameMembers ==
    /\ Carries(rooms, rooms')
    /\ \A r \in Rooms : r \in Rooms' /\ rooms'[r].clients = rooms[r].clients
    /\ \A r \in Rooms' : r \in Rooms \/ Members(r)' = {}

LEMMA TailSame ==
    ASSUME Tabled, rooms' = Settle(rooms)
    PROVE  SameMembers
  <1>1. Rooms = 1 .. Len(rooms) /\ rooms \in Seq(RoomRecord)
    BY RoomFacts DEF Tabled
  <1>2. /\ Carries(rooms, rooms') /\ Len(rooms') = Len(rooms)
        /\ \A r \in 1 .. Len(rooms) : rooms'[r].clients = rooms[r].clients
    BY <1>1, TailCarries
  <1>3. Rooms' = 1 .. Len(rooms')
    BY <1>2, SeqFacts DEF Carries, Rooms
  <1> QED
    BY <1>1, <1>2, <1>3 DEF SameMembers

LEMMA AddSame ==
    ASSUME Tabled, NEW max \in Capacity, NEW s \in Settings,
           rooms' = Settle(Append(rooms, NewRoom(max, s)))
    PROVE  SameMembers
  <1>1. Rooms = 1 .. Len(rooms) /\ Len(rooms) \in Nat /\ rooms \in Seq(RoomRecord)
    BY RoomFacts DEF Tabled
  <1>2. /\ Carries(rooms, rooms') /\ Len(rooms') = Len(rooms) + 1
        /\ \A r \in 1 .. Len(rooms) : rooms'[r].clients = rooms[r].clients
        /\ rooms'[Len(rooms) + 1].clients = NoEntries
    BY <1>1, AddCarries
  <1>3. Rooms' = 1 .. Len(rooms) + 1
    BY <1>2, SeqFacts DEF Carries, Rooms
  <1>4. \A r \in Rooms' : r \in Rooms \/ r = Len(rooms) + 1
    BY <1>1, <1>3
  <1>5. DOMAIN NoEntries = {}
    BY DEF NoEntries
  <1> QED
    BY <1>1, <1>2, <1>3, <1>4, <1>5 DEF SameMembers, Members

LEMMA SameSame ==
    ASSUME Tabled, UNCHANGED rooms
    PROVE  SameMembers
  BY RoomFacts DEF SameMembers, Carries, Tabled, Rooms

\* Tables that keep their members.
LEMMA TabledKept ==
    ASSUME Tabled, SameMembers, wait_room' \in Tables(Client, Ids), id_counter' \in 0 .. MaxId,
           conn' \in [Peer -> {"none", "connected", "greeted"}],
           running' \/ UNCHANGED <<running, conn>>,
           \A p \in Peer : conn[p] = "greeted" => conn'[p] = "greeted"
    PROVE  Tabled'
  <1>1. rooms' \in Seq(RoomRecord)
    BY DEF SameMembers, Carries
  <1>2. \A r \in Rooms' : \A p \in Members(r)' : r \in Rooms /\ p \in Members(r)
    BY DEF SameMembers, Members
  <1>3. \A r \in Rooms' : \A p \in Members(r)' : conn'[p] = "greeted"
    BY <1>2, RoomFacts DEF Tabled, Client
  <1> QED
    BY <1>1, <1>3 DEF Tabled

-----------------------------------------------------------------------------
(***************************************************************************)
(* What each handler of the lobby does: to the tables, and for the client  *)
(* under study.                                                            *)
(***************************************************************************)
Talk == [header : {"ClientAbout", "DiscClientAbout"}, id : Ids]
Greetings == [header : {"Key", "RoomList"}] \cup [header : {"ClientId"}, id : Ids]

LEMMA ToFacts ==
    ASSUME NEW p, NEW packets
    PROVE  /\ To(p, packets)[me] = IF p = me THEN packets ELSE <<>>
           /\ Quiet[me] = <<>>
  BY Constants DEF To, Quiet, Client

\* Boot, in its three endings.
LEMMA BootEffect ==
    ASSUME LobbyInv,
           \/ BootAgent
           \/ BootFail
           \/ \E p \in Client : BootClient(p),
           UNCHANGED min_port
    PROVE  /\ LobbyInv' /\ SameMembers /\ out'[me] = <<>>
           /\ ~running /\ running' /\ UNCHANGED <<wait_room, id_counter, Queues>>
           /\ \A p \in Peer : conn[p] = "none"
           /\ UNCHANGED conn \/ \E p \in Client : BootClient(p) /\ conn' = [conn EXCEPT ![p] = "connected"]
  <1>1. /\ UNCHANGED <<rooms, wait_room, id_counter, Queues>> /\ ~running /\ running'
        /\ out' = Quiet
        /\ UNCHANGED conn \/ \E p \in Client : BootClient(p) /\ conn' = [conn EXCEPT ![p] = "connected"]
    BY DEF BootAgent, BootFail, BootClient
  <1>2. SameMembers
    BY <1>1, SameSame DEF LobbyInv
  <1>3. \A p \in Peer : conn[p] = "none"
    BY <1>1 DEF LobbyInv, Tabled
  <1>4. conn' \in [Peer -> {"none", "connected", "greeted"}]
    BY <1>1 DEF LobbyInv, Tabled
  <1>5. Tabled'
    BY <1>1, <1>2, <1>3, <1>4, TabledKept DEF LobbyInv, Tabled
  <1>6. Queued'
    BY <1>1, <1>2, QueuesKept DEF LobbyInv, SameMembers
  <1> QED
    BY <1>1, <1>2, <1>3, <1>5, <1>6, ToFacts DEF LobbyInv

\* The CONNECT of a client, or of the agent.
LEMMA ConnectEffect ==
    ASSUME LobbyInv, NEW p \in Peer,
           Connect(p) \/ (p = AgentSlot /\ AgentConnect), UNCHANGED min_port
    PROVE  /\ LobbyInv' /\ SameMembers
           /\ id_counter < MaxId /\ id_counter' = id_counter + 1
           /\ running /\ UNCHANGED <<running, wait_room, Queues>>
           /\ \/ Connect(p) /\ conn[p] = "none" /\ conn' = [conn EXCEPT ![p] = "connected"]
              \/ AgentConnect /\ UNCHANGED conn
           /\ out'[me] = IF p = me THEN <<Message("Key"), About("ClientId", id_counter),
                                          Message("RoomList")>>
                         ELSE <<>>
  <1>1. /\ id_counter < MaxId /\ id_counter' = id_counter + 1
        /\ out' = Greeting(p) /\ rooms' = Settle(rooms)
        /\ running /\ UNCHANGED <<running, wait_room, Queues>>
        /\ \/ Connect(p) /\ conn[p] = "none" /\ conn' = [conn EXCEPT ![p] = "connected"]
           \/ AgentConnect /\ UNCHANGED conn
    BY DEF Connect, AgentConnect, Greet
  <1>2. SameMembers
    BY <1>1, TailSame DEF LobbyInv
  <1>3. conn' \in [Peer -> {"none", "connected", "greeted"}]
    BY <1>1 DEF LobbyInv, Tabled
  <1>4. id_counter' \in 0 .. MaxId
    BY <1>1, Constants DEF LobbyInv, Tabled
  <1>5. \A q \in Peer : conn[q] = "greeted" => conn'[q] = "greeted"
    BY <1>1 DEF LobbyInv, Tabled
  <1>6. Tabled'
    BY <1>1, <1>2, <1>3, <1>4, <1>5, TabledKept DEF LobbyInv, Tabled
  <1>7. Queued'
    BY <1>1, <1>2, QueuesKept DEF LobbyInv, SameMembers
  <1>8. out'[me] = IF p = me THEN <<Message("Key"), About("ClientId", id_counter),
                                    Message("RoomList")>>
                   ELSE <<>>
    BY <1>1, ToFacts DEF Greeting
  <1> QED
    BY <1>1, <1>2, <1>6, <1>7, <1>8 DEF LobbyInv

\* RECEIVE ClientAbout.
LEMMA GreetEffect ==
    ASSUME LobbyInv, NEW p \in Client, NEW i \in Ids, ClientAbout(p, i), UNCHANGED min_port
    PROVE  /\ LobbyInv' /\ SameMembers /\ out'[me] = <<>>
           /\ conn[p] = "connected" /\ conn' = [conn EXCEPT ![p] = "greeted"]
           /\ wait_room' = Put(wait_room, p, i)
           /\ UNCHANGED <<running, id_counter>>
  <1>1. /\ conn[p] = "connected" /\ conn' = [conn EXCEPT ![p] = "greeted"]
        /\ wait_room' = Put(wait_room, p, i) /\ running
        /\ rooms' = Settle(rooms) /\ out' = Quiet /\ UNCHANGED <<running, id_counter, Queues>>
    BY DEF ClientAbout, Served
  <1>2. SameMembers
    BY <1>1, TailSame DEF LobbyInv
  <1>3. /\ conn' \in [Peer -> {"none", "connected", "greeted"}]
        /\ \A q \in Peer : conn[q] = "greeted" => conn'[q] = "greeted"
    BY <1>1 DEF LobbyInv, Tabled
  <1>4. wait_room' \in Tables(Client, Ids)
    BY <1>1, PutTable DEF LobbyInv, Tabled
  <1>5. Tabled'
    BY <1>1, <1>2, <1>3, <1>4, TabledKept DEF LobbyInv, Tabled
  <1>6. Queued'
    BY <1>1, <1>2, QueuesKept DEF LobbyInv, SameMembers
  <1> QED
    BY <1>1, <1>2, <1>5, <1>6, ToFacts DEF LobbyInv

\* The requests that leave everybody where he is.
LEMMA AnswerEffect ==
    ASSUME LobbyInv, NEW p \in Client, UNCHANGED min_port,
           \/ Unreadable(p)
           \/ RoomList(p)
           \/ \E max \in Capacity, s \in Settings : NewRoomInfo(p, max, s)
           \/ \E r : JoinRefused(p, r) \/ LeaveRefused(p, r)
    PROVE  /\ LobbyInv' /\ SameMembers /\ UNCHANGED <<running, conn, wait_room, id_counter>>
           /\ p # me => out'[me] = <<>>
           /\ p = me => \/ Unreadable(p) /\ out'[me] = <<>>
                        \/ RoomList(p) /\ out'[me] = <<Message("RoomList")>>
                        \/ /\ \E max \in Capacity, s \in Settings : NewRoomInfo(p, max, s)
                           /\ out'[me] = <<Message("ResultSuccess")>>
                        \/ /\ \E r : JoinRefused(p, r) \/ LeaveRefused(p, r)
                           /\ out'[me] = <<Message("ResultFailed")>>
  <1>1. /\ UNCHANGED <<running, conn, wait_room, id_counter, Queues>>
        /\ \/ rooms' = Settle(rooms)
           \/ \E max \in Capacity, s \in Settings :
                rooms' = Settle(Append(rooms, NewRoom(max, s)))
        /\ \/ Unreadable(p) /\ out' = Quiet
           \/ RoomList(p) /\ out' = To(p, <<Message("RoomList")>>)
           \/ /\ \E max \in Capacity, s \in Settings : NewRoomInfo(p, max, s)
              /\ out' = To(p, <<Message("ResultSuccess")>>)
           \/ /\ \E r : JoinRefused(p, r) \/ LeaveRefused(p, r)
              /\ out' = To(p, <<Message("ResultFailed")>>)
    BY DEF Unreadable, RoomList, NewRoomInfo, JoinRefused, LeaveRefused, Refuse, Requests, Links
  <1>2. SameMembers
    BY <1>1, TailSame, AddSame DEF LobbyInv
  <1>3. Tabled'
    BY <1>1, <1>2, TabledKept DEF LobbyInv, Tabled
  <1>4. Queued'
    BY <1>1, <1>2, QueuesKept DEF LobbyInv, SameMembers
  <1>5. /\ p # me => out'[me] = <<>>
        /\ p = me => \/ Unreadable(p) /\ out'[me] = <<>>
                     \/ RoomList(p) /\ out'[me] = <<Message("RoomList")>>
                     \/ /\ \E max \in Capacity, s \in Settings : NewRoomInfo(p, max, s)
                        /\ out'[me] = <<Message("ResultSuccess")>>
                     \/ /\ \E r : JoinRefused(p, r) \/ LeaveRefused(p, r)
                        /\ out'[me] = <<Message("ResultFailed")>>
    BY <1>1, ToFacts
  <1> QED
    BY <1>1, <1>2, <1>3, <1>4, <1>5 DEF LobbyInv

\* DISCONNECT.
LEMMA GoneEffect ==
    ASSUME LobbyInv, NEW p \in Client, Disconnect(p), UNCHANGED min_port
    PROVE  /\ LobbyInv' /\ Carries(rooms, rooms') /\ Rooms' = Rooms
           /\ \A r \in Rooms : rooms'[r].clients = Erase(rooms[r].clients, p)
           /\ conn[p] # "none" /\ conn' = [conn EXCEPT ![p] = "none"]
           /\ wait_room' = Erase(wait_room, p) /\ out'[me] = <<>>
           /\ UNCHANGED <<running, id_counter>>
  <1>1. /\ rooms' = Settle([r \in DOMAIN rooms |->
                              WithClients(rooms[r], Erase(rooms[r].clients, p))])
        /\ wait_room' = Erase(wait_room, p) /\ out' = Quiet
        /\ running /\ conn[p] # "none" /\ conn' = [conn EXCEPT ![p] = "none"]
        /\ UNCHANGED <<running, id_counter, Queues>>
    BY DEF Disconnect, Forget, Queues
  <1>2. rooms \in Seq(RoomRecord) /\ Rooms = 1 .. Len(rooms) /\ Len(rooms) \in Nat
    BY RoomFacts DEF LobbyInv, Tabled
  <1>3. /\ Carries(rooms, rooms') /\ Len(rooms') = Len(rooms)
        /\ \A r \in 1 .. Len(rooms) : rooms'[r].clients = Erase(rooms[r].clients, p)
    BY <1>1, <1>2, EraseCarries
  <1>4. Rooms' = Rooms /\ rooms' \in Seq(RoomRecord)
    BY <1>2, <1>3, SeqFacts DEF Carries, Rooms
  <1>5. \A r \in Rooms : Members(r)' = Members(r) \ {p}
    BY <1>2, <1>3 DEF Members, Erase
  <1>6. \A r \in Rooms' : \A q \in Members(r)' : conn'[q] = "greeted"
    BY <1>1, <1>4, <1>5, RoomFacts DEF LobbyInv, Tabled, Client
  <1>7. conn' \in [Peer -> {"none", "connected", "greeted"}]
    BY <1>1 DEF LobbyInv, Tabled
  <1>8. wait_room' \in Tables(Client, Ids)
    BY <1>1, EraseTable DEF LobbyInv, Tabled
  <1>9. Tabled'
    BY <1>1, <1>4, <1>6, <1>7, <1>8 DEF LobbyInv, Tabled
  <1>10. Queued'
    BY <1>1, <1>3, QueuesKept DEF LobbyInv
  <1> QED
    BY <1>1, <1>2, <1>3, <1>4, <1>9, <1>10, ToFacts DEF LobbyInv

\* A room's table is written and its clients have all introduced themselves.
LEMMA TabledEdit ==
    ASSUME Tabled, NEW r \in Rooms, NEW c \in Tables(Client, Ids),
           rooms' = Settle([rooms EXCEPT ![r] = WithClients(@, c)]),
           \A p \in DOMAIN c : conn[p] = "greeted",
           wait_room' \in Tables(Client, Ids), UNCHANGED <<running, conn, id_counter>>
    PROVE  /\ Tabled' /\ Carries(rooms, rooms') /\ Rooms' = Rooms
           /\ \A q \in Rooms : rooms'[q].clients = IF q = r THEN c ELSE rooms[q].clients
  <1>1. rooms \in Seq(RoomRecord) /\ Rooms = 1 .. Len(rooms) /\ Len(rooms) \in Nat
    BY RoomFacts DEF Tabled
  <1>2. /\ Carries(rooms, rooms') /\ Len(rooms') = Len(rooms)
        /\ \A q \in 1 .. Len(rooms) : rooms'[q].clients = IF q = r THEN c ELSE rooms[q].clients
    <2> DEFINE rt == Settle([rooms EXCEPT ![r] = WithClients(@, c)])
    <2>1. r \in 1 .. Len(rooms)
      BY <1>1
    <2>2. /\ Carries(rooms, rt) /\ Len(rt) = Len(rooms)
          /\ \A q \in 1 .. Len(rooms) : rt[q].clients = IF q = r THEN c ELSE rooms[q].clients
      BY <1>1, <2>1, EditOneCarries
    <2>3. rooms' = rt
      OBVIOUS
    <2> HIDE DEF rt
    <2> QED
      BY <2>2, <2>3
  <1>3. Rooms' = Rooms /\ rooms' \in Seq(RoomRecord)
    BY <1>1, <1>2, SeqFacts DEF Carries, Rooms
  <1>4. \A q \in Rooms' : \A p \in Members(q)' : conn'[p] = "greeted"
    BY <1>1, <1>2, <1>3 DEF Members, Tabled
  <1> QED
    BY <1>1, <1>2, <1>3, <1>4 DEF Tabled

\* RECEIVE DisconnectRoom from a member.
LEMMA LeaveEffect ==
    ASSUME LobbyInv, NEW p \in Client, NEW r, Leave(p, r), UNCHANGED min_port
    PROVE  /\ LobbyInv' /\ Carries(rooms, rooms') /\ Rooms' = Rooms
           /\ r \in Rooms /\ p \in Members(r)
           /\ \A q \in Rooms : rooms'[q].clients = IF q = r THEN Erase(rooms[r].clients, p)
                                                   ELSE rooms[q].clients
           /\ wait_room' = Put(wait_room, p, rooms[r].clients[p])
           /\ conn[p] = "greeted" /\ UNCHANGED <<running, conn, id_counter>>
           /\ out'[me] = IF p = me THEN <<Message("ResultSuccess")>>
                         ELSE IF me \in Members(r)
                              THEN <<About("DiscClientAbout", rooms[r].clients[p])>>
                         ELSE <<>>
  <1>1. /\ r \in Rooms /\ p \in Members(r) /\ conn[p] = "greeted"
        /\ wait_room' = Put(wait_room, p, rooms[r].clients[p])
        /\ rooms' = Settle([rooms EXCEPT ![r] = WithClients(@, Erase(@.clients, p))])
        /\ UNCHANGED <<running, conn, id_counter, Queues>>
    BY DEF Leave, Requests, Links, ToWaitRoom, Rooms
  <1>2. out'[me] = IF p = me THEN <<Message("ResultSuccess")>>
                   ELSE IF me \in Members(r)
                        THEN <<About("DiscClientAbout", rooms[r].clients[p])>>
                   ELSE <<>>
    BY Constants DEF Leave, Client
  <1> DEFINE c == Erase(rooms[r].clients, p)
  <1>3. c \in Tables(Client, Ids) /\ DOMAIN c = Members(r) \ {p} /\ rooms[r].clients[p] \in Ids
    <2>1. rooms[r].clients \in Tables(Client, Ids) /\ rooms[r].clients[p] \in Ids
      BY <1>1, RoomFacts DEF LobbyInv
    <2>2. c \in Tables(Client, Ids)
      BY <2>1, EraseTable
    <2>3. DOMAIN c = Members(r) \ {p}
      BY DEF Erase, Members
    <2> QED
      BY <2>1, <2>2, <2>3
  <1>4. rooms' = Settle([rooms EXCEPT ![r] = WithClients(@, c)])
    BY <1>1
  <1> HIDE DEF c
  <1>5. \A q \in DOMAIN c : conn[q] = "greeted"
    <2>1. \A q \in Members(r) : conn[q] = "greeted"
      BY <1>1 DEF LobbyInv, Tabled
    <2> QED
      BY <1>3, <2>1
  <1>6. wait_room' \in Tables(Client, Ids)
    <2>1. wait_room \in Tables(Client, Ids)
      BY DEF LobbyInv, Tabled
    <2> QED
      BY <1>1, <1>3, <2>1, PutTable
  <1>7. /\ Tabled' /\ Carries(rooms, rooms') /\ Rooms' = Rooms
        /\ \A q \in Rooms : rooms'[q].clients = IF q = r THEN c ELSE rooms[q].clients
    BY <1>1, <1>3, <1>4, <1>5, <1>6, TabledEdit DEF LobbyInv
  <1>8. Queued'
    BY <1>1, <1>7, QueuesKept DEF LobbyInv
  <1> QED
    BY <1>1, <1>2, <1>7, <1>8 DEF LobbyInv, c

\* The packets of a join: the joiner hears Success and then of everybody in
\* the room, the members of the joiner.
Introduced(r, intros) ==
    /\ intros \in Seq([header : {"ClientAbout"}, id : Ids])
    /\ \A n \in DOMAIN intros : \E q \in Members(r) \ {me} : intros[n].id = rooms[r].clients[q]
    /\ \A q \in Members(r) \ {me} : \E n \in DOMAIN intros : intros[n].id = rooms[r].clients[q]

Names(r, order) == [n \in DOMAIN order |-> About("ClientAbout", rooms[r].clients[order[n]])]

LEMMA OrderFacts ==
    ASSUME NEW S \in SUBSET Peer, NEW order \in Orders(S)
    PROVE  /\ order \in Seq(S)
           /\ \A q \in S : \E n \in DOMAIN order : order[n] = q
  <1>1. IsFiniteSet(S)
    BY LobbyAssumption, FS_Subset
  <1>2. Cardinality(S) \in Nat
    BY <1>1, FS_CardinalityType
  <1>3. order \in [1 .. Cardinality(S) -> S] /\ \A q \in S : \E n \in DOMAIN order : order[n] = q
    BY DEF Orders
  <1> QED
    BY <1>2, <1>3, SeqOf

LEMMA IntroductionsToMe ==
    ASSUME Tabled, NEW r \in Rooms, NEW i, NEW S, S = Members(r) \ {me},
           NEW order \in Orders(S)
    PROVE  /\ Introduced(r, Names(r, order))
           /\ Introductions(me, i, r, order)[me]
                = <<Message("ResultSuccess")>> \o Names(r, order)
  <1> DEFINE intros == Names(r, order)
  <1>0. S \in SUBSET Peer
    BY RoomFacts DEF Client
  <1>1. order \in Seq(S) /\ \A q \in S : \E n \in DOMAIN order : order[n] = q
    BY <1>0, OrderFacts, ZenonT(40)
  <1>2. DOMAIN order = 1 .. Len(order) /\ Len(order) \in Nat /\ \A n \in DOMAIN order : order[n] \in S
    BY <1>1, SeqFacts
  <1>3. \A q \in S : rooms[r].clients[q] \in Ids
    BY RoomFacts
  <1>4. ASSUME NEW n \in DOMAIN order
        PROVE  /\ intros[n] \in [header : {"ClientAbout"}, id : Ids]
               /\ intros[n].id = rooms[r].clients[order[n]] /\ order[n] \in S
    BY <1>2, <1>3 DEF About, Names
  <1>5. intros \in [1 .. Len(order) -> [header : {"ClientAbout"}, id : Ids]]
    BY <1>2, <1>4 DEF Names
  <1>6. DOMAIN intros = DOMAIN order
    BY DEF Names
  <1>7. Introductions(me, i, r, order)[me] = <<Message("ResultSuccess")>> \o intros
    BY Constants DEF Introductions, Client, Names
  <1> HIDE DEF intros
  <1>8. intros \in Seq([header : {"ClientAbout"}, id : Ids])
    BY <1>2, <1>5, SeqOf
  <1>9. \A n \in DOMAIN intros : \E q \in S : intros[n].id = rooms[r].clients[q]
    BY <1>4, <1>6
  <1>10. \A q \in S : \E n \in DOMAIN intros : intros[n].id = rooms[r].clients[q]
    BY <1>1, <1>4, <1>6
  <1>11. Introduced(r, intros)
    BY <1>8, <1>9, <1>10 DEF Introduced
  <1> QED
    BY <1>7, <1>11 DEF intros

\* RECEIVE ConnectRoom, room found and not full.
LEMMA JoinEffect ==
    ASSUME LobbyInv, NEW p \in Client, NEW r, Join(p, r), UNCHANGED min_port
    PROVE  LET i == At(wait_room, p, DefaultId)
           IN  /\ LobbyInv' /\ Carries(rooms, rooms') /\ Rooms' = Rooms /\ r \in Rooms
               /\ \A q \in Rooms : rooms'[q].clients = IF q = r THEN Put(rooms[r].clients, p, i)
                                                       ELSE rooms[q].clients
               /\ wait_room' = Erase(wait_room, p) /\ i \in Ids
               /\ conn[p] = "greeted" /\ UNCHANGED <<running, conn, id_counter>>
               /\ p # me => out'[me] = IF me \in Members(r) THEN <<About("ClientAbout", i)>>
                                       ELSE <<>>
               /\ p = me => \E intros :
                     /\ Introduced(r, intros)
                     /\ out'[me] = IF rooms[r].game_start
                                   THEN Append(<<Message("ResultSuccess")>> \o intros,
                                               ServerInfo(rooms[r].server))
                                   ELSE <<Message("ResultSuccess")>> \o intros
  <1> DEFINE i == At(wait_room, p, DefaultId)
             c == Put(rooms[r].clients, p, i)
             W(order) == Introductions(p, i, r, order)
  <1>1. /\ r \in Rooms /\ conn[p] = "greeted"
        /\ wait_room' = Erase(wait_room, p)
        /\ rooms' = Settle([rooms EXCEPT ![r] = WithClients(@, c)])
        /\ UNCHANGED <<running, conn, id_counter>>
    BY DEF Join, Requests, Links, CanJoin, Rooms
  <1>2. PICK order \in Orders(Members(r) \ {p}) :
          IF Starts(p, r) THEN start_room(r, W(order))
          ELSE out' = Welcome(p, r, W(order)) /\ UNCHANGED Queues
    BY DEF Join
  <1>3. i \in Ids
    BY Constants, InTable DEF LobbyInv, Tabled
  <1>4. c \in Tables(Client, Ids) /\ DOMAIN c = Members(r) \cup {p}
    <2>1. rooms[r].clients \in Tables(Client, Ids)
      BY <1>1, RoomFacts DEF LobbyInv
    <2> HIDE DEF i
    <2>2. c \in Tables(Client, Ids)
      BY <1>3, <2>1, PutTable
    <2>3. DOMAIN c = Members(r) \cup {p}
      BY DEF Put, Members
    <2> QED
      BY <2>2, <2>3
  <1>5. \A q \in DOMAIN c : conn[q] = "greeted"
    BY <1>1, <1>4 DEF LobbyInv, Tabled
  <1>6. wait_room' \in Tables(Client, Ids)
    BY <1>1, EraseTable DEF LobbyInv, Tabled
  <1>7. /\ Tabled' /\ Carries(rooms, rooms') /\ Rooms' = Rooms
        /\ \A q \in Rooms : rooms'[q].clients = IF q = r THEN c ELSE rooms[q].clients
    <2> HIDE DEF c
    <2> QED
      BY <1>1, <1>4, <1>5, <1>6, TabledEdit DEF LobbyInv
  <1>8. Queued'
    <2>1. CASE UNCHANGED Queues
      BY <1>7, <2>1, QueuesKept DEF LobbyInv
    <2>2. CASE start_room(r, W(order))
      <3>1. /\ rooms_wait' = Append(rooms_wait, r) /\ UNCHANGED fromAgent
            /\ toAgent' = toAgent \/ toAgent' = Append(toAgent, CreateServerFor(r))
        BY <2>2 DEF start_room, Launch
      <3>2. CreateServerFor(r) \in LaunchOrder
        BY <1>1, RoomFacts DEF CreateServerFor, LaunchOrder, LobbyInv
      <3>3. rooms_wait \in Seq(Rooms) /\ toAgent \in Seq(LaunchOrder) /\ fromAgent \in Seq(Nat)
            /\ Len(fromAgent) + Len(toAgent) <= Len(rooms_wait) /\ min_port \in Nat
        BY DEF LobbyInv, Queued
      <3>4. rooms_wait' \in Seq(Rooms) /\ Len(rooms_wait') = Len(rooms_wait) + 1
        BY <1>1, <3>1, <3>3
      <3>5. toAgent' \in Seq(LaunchOrder) /\ Len(toAgent') <= Len(toAgent) + 1
        <4>1. CASE toAgent' = toAgent
          BY <3>3, <4>1
        <4>2. CASE toAgent' = Append(toAgent, CreateServerFor(r))
          BY <3>2, <3>3, <4>2
        <4> QED
          BY <3>1, <4>1, <4>2
      <3>6. Len(fromAgent) \in Nat /\ Len(toAgent) \in Nat /\ Len(rooms_wait) \in Nat
            /\ Len(toAgent') \in Nat
        BY <3>3, <3>5
      <3>7. Len(fromAgent') + Len(toAgent') <= Len(rooms_wait')
        BY <3>1, <3>3, <3>4, <3>5, <3>6
      <3> QED
        BY <1>7, <3>1, <3>3, <3>4, <3>5, <3>7 DEF Queued
    <2> QED
      BY <1>2, <2>1, <2>2
  <1>9. \/ out'[me] = W(order)[me] /\ (p = me => ~rooms[r].game_start)
        \/ /\ p = me /\ rooms[r].game_start
           /\ out'[me] = Append(W(order)[me], ServerInfo(rooms[r].server))
    <2>1. me \in Peer /\ me # AgentSlot /\ DOMAIN W(order) = Peer
      BY Constants DEF Client, Introductions
    <2> HIDE DEF W
    <2>2. CASE Starts(p, r)
      <3>1. ~rooms[r].game_start
        BY <2>2 DEF Starts
      <3>2. \/ out' = W(order)
            \/ out' = [W(order) EXCEPT ![AgentSlot] = <<CreateServerFor(r)>>]
        BY <1>2, <2>2 DEF start_room, Launch
      <3> QED
        BY <2>1, <3>1, <3>2
    <2>3. CASE ~Starts(p, r)
      <3>1. out' = Welcome(p, r, W(order))
        BY <1>2, <2>3
      <3>2. CASE rooms[r].game_start
        <4>1. out' = [W(order) EXCEPT ![p] = Append(@, ServerInfo(rooms[r].server))]
          BY <3>1, <3>2 DEF Welcome
        <4> QED
          BY <2>1, <3>2, <4>1
      <3>3. CASE ~rooms[r].game_start
        BY <3>1, <3>3 DEF Welcome
      <3> QED
        BY <3>2, <3>3
    <2> QED
      BY <2>2, <2>3
  <1>10. p # me => W(order)[me] = IF me \in Members(r) THEN <<About("ClientAbout", i)>> ELSE <<>>
    BY Constants DEF Introductions, Client
  <1>11. p = me => \E intros : /\ Introduced(r, intros)
                               /\ W(order)[me] = <<Message("ResultSuccess")>> \o intros
    <2> SUFFICES ASSUME p = me
                 PROVE  \E intros : /\ Introduced(r, intros)
                                    /\ W(order)[me] = <<Message("ResultSuccess")>> \o intros
      OBVIOUS
    <2> HIDE DEF i
    <2>1. order \in Orders(Members(r) \ {me}) /\ W(order) = Introductions(me, i, r, order)
      OBVIOUS
    <2> HIDE DEF W
    <2> DEFINE S == Members(r) \ {me}
    <2>2. S = Members(r) \ {me} /\ order \in Orders(S)
      BY <2>1
    <2> HIDE DEF S
    <2>3. /\ Introduced(r, Names(r, order))
          /\ Introductions(me, i, r, order)[me] = <<Message("ResultSuccess")>> \o Names(r, order)
      BY <1>1, <2>2, IntroductionsToMe DEF LobbyInv
    <2> QED
      BY <2>1, <2>3
  <1>12. p = me => \E intros :
            /\ Introduced(r, intros)
            /\ out'[me] = IF rooms[r].game_start
                          THEN Append(<<Message("ResultSuccess")>> \o intros,
                                      ServerInfo(rooms[r].server))
                          ELSE <<Message("ResultSuccess")>> \o intros
    <2> HIDE DEF W
    <2> QED
      BY <1>9, <1>11
  <1>13. p # me => out'[me] = IF me \in Members(r) THEN <<About("ClientAbout", i)>> ELSE <<>>
    <2> HIDE DEF W, i
    <2> QED
      BY <1>9, <1>10
  <1> HIDE DEF W
  <1> QED
    BY <1>1, <1>3, <1>7, <1>8, <1>12, <1>13 DEF LobbyInv

\* RECEIVE ServerPort: the room that has waited longest gets the port, unless
\* its game has started.
LEMMA PortEffect ==
    ASSUME LobbyInv, ServerPort, UNCHANGED min_port
    PROVE  /\ LobbyInv' /\ Rooms' = Rooms
           /\ \A q \in Rooms : rooms'[q].clients = rooms[q].clients
           /\ UNCHANGED <<running, conn, wait_room, id_counter>>
           /\ \/ UNCHANGED rooms /\ out'[me] = <<>>
              \/ \E r \in Rooms :
                   /\ ~rooms[r].game_start /\ rooms'[r].game_start
                   /\ \A q \in Rooms \ {r} : rooms'[q] = rooms[q]
                   /\ out'[me] = IF me \in Members(r) THEN <<ServerInfo(rooms'[r].server)>>
                                 ELSE <<>>
  <1> DEFINE r == Head(rooms_wait)
             where == Append(rooms[r].server, Head(fromAgent))
  <1>1. /\ fromAgent # <<>> /\ fromAgent' = Tail(fromAgent) /\ rooms_wait' = Tail(rooms_wait)
        /\ IF ~rooms[r].game_start
           THEN /\ rooms' = [rooms EXCEPT ![r] = WithServer(@, TRUE, where)]
                /\ out' = [q \in Peer |-> IF q \in Members(r)
                                          THEN <<ServerInfo(where)>> ELSE <<>>]
           ELSE UNCHANGED rooms /\ out' = Quiet
        /\ UNCHANGED <<running, conn, wait_room, id_counter, toAgent>>
    BY DEF ServerPort, Adopts, Links
  <1>2. /\ rooms_wait \in Seq(Rooms) /\ toAgent \in Seq(LaunchOrder) /\ fromAgent \in Seq(Nat)
        /\ Len(fromAgent) + Len(toAgent) <= Len(rooms_wait)
        /\ Len(fromAgent) \in Nat /\ Len(toAgent) \in Nat /\ Len(rooms_wait) \in Nat
    BY DEF LobbyInv, Queued
  <1>3. rooms_wait # <<>>
    BY <1>1, <1>2
  <1>4. /\ r \in Rooms /\ Head(fromAgent) \in Nat
        /\ rooms_wait' \in Seq(Rooms) /\ Len(rooms_wait') = Len(rooms_wait) - 1
        /\ fromAgent' \in Seq(Nat) /\ Len(fromAgent') = Len(fromAgent) - 1
    BY <1>1, <1>2, <1>3
  <1>5. where \in Seq(Nat) /\ rooms[r] \in RoomRecord /\ rooms \in Seq(RoomRecord)
        /\ Rooms = 1 .. Len(rooms) /\ Len(rooms) \in Nat
    BY <1>4, RoomFacts DEF LobbyInv, Tabled
  <1> HIDE DEF r, where
  <1>6. CASE rooms[r].game_start
    <2>1. UNCHANGED rooms /\ out' = Quiet
      BY <1>1, <1>6
    <2>2. Tabled'
      BY <1>1, <2>1 DEF LobbyInv, Tabled, Rooms, Members
    <2>3. Queued'
      BY <1>1, <1>2, <1>4, <2>1 DEF LobbyInv, Queued, Rooms
    <2> QED
      BY <1>1, <2>1, <2>2, <2>3, ToFacts DEF LobbyInv, Rooms
  <1>7. CASE ~rooms[r].game_start
    <2> DEFINE new == WithServer(rooms[r], TRUE, where)
    <2>1. new \in RoomRecord /\ new.game_start = TRUE /\ new.server = where
          /\ new.clients = rooms[r].clients
      BY <1>5, WriteServer
    <2>2. rooms' = [rooms EXCEPT ![r] = new]
      BY <1>1, <1>7
    <2> HIDE DEF new
    <2>3. /\ rooms' \in Seq(RoomRecord) /\ Len(rooms') = Len(rooms)
          /\ \A q \in Rooms : rooms'[q] = IF q = r THEN new ELSE rooms[q]
      BY <1>4, <1>5, <2>1, <2>2
    <2>4. Rooms' = Rooms
      BY <1>5, <2>3, SeqFacts DEF Rooms
    <2>5. \A q \in Rooms : rooms'[q].clients = rooms[q].clients
      BY <2>1, <2>3
    <2>6. Tabled'
      BY <1>1, <2>3, <2>4, <2>5 DEF LobbyInv, Tabled, Members
    <2>7. Queued'
      BY <1>1, <1>2, <1>4, <2>4 DEF LobbyInv, Queued
    <2>8. out'[me] = IF me \in Members(r) THEN <<ServerInfo(rooms'[r].server)>> ELSE <<>>
      BY <1>1, <1>4, <1>7, <2>1, <2>3, Constants DEF Client
    <2>9. ~rooms[r].game_start /\ rooms'[r].game_start /\ \A q \in Rooms \ {r} : rooms'[q] = rooms[q]
      BY <1>4, <1>7, <2>1, <2>3
    <2> QED
      BY <1>1, <1>4, <2>4, <2>5, <2>6, <2>7, <2>8, <2>9 DEF LobbyInv
  <1> QED
    BY <1>6, <1>7

\* The agent launches a server and answers with its port.
LEMMA AgentEffect ==
    ASSUME LobbyInv, AgentLaunches
    PROVE  LobbyInv' /\ UNCHANGED <<running, rooms, wait_room, id_counter, conn>>
  <1>1. /\ toAgent # <<>> /\ toAgent' = Tail(toAgent)
        /\ fromAgent' = Append(fromAgent, min_port) /\ min_port' = min_port + 1
        /\ UNCHANGED <<running, rooms, wait_room, id_counter, conn, rooms_wait>>
    BY DEF AgentLaunches, Agent!CreateServer
  <1>2. /\ toAgent \in Seq(LaunchOrder) /\ fromAgent \in Seq(Nat) /\ min_port \in Nat
        /\ Len(fromAgent) + Len(toAgent) <= Len(rooms_wait) /\ Len(rooms_wait) \in Nat
    BY DEF LobbyInv, Queued
  <1>3. /\ toAgent' \in Seq(LaunchOrder) /\ Len(toAgent') = Len(toAgent) - 1
        /\ Len(toAgent) \in Nat /\ Len(fromAgent) \in Nat
        /\ fromAgent' \in Seq(Nat) /\ Len(fromAgent') = Len(fromAgent) + 1
    BY <1>1, <1>2
  <1>4. Queued'
    BY <1>1, <1>2, <1>3 DEF LobbyInv, Queued, Rooms
  <1>5. Tabled'
    BY <1>1 DEF LobbyInv, Tabled, Rooms, Members
  <1> QED
    BY <1>1, <1>4, <1>5 DEF LobbyInv

-----------------------------------------------------------------------------
(***************************************************************************)
(* The client's types.                                                     *)
(***************************************************************************)
Typed == Typable \cup {0}
Frames == [at : Waits, room : Typed]

Numbered == {"ClientId", "ClientAbout", "DiscClientAbout"}
Bare == {"Key", "RoomList", "ResultSuccess", "ResultFailed"}
FromLobby == [header : Bare] \cup [header : Numbered, id : Ids]
               \cup [header : {"ServerInfo"}, address : Seq(Nat)]

Asked == {"NewRoomInfo", "ConnectRoom", "DisconnectRoom"}
ToLobby == [header : {"ClientAbout"}, id : Ids]
             \cup [header : Asked \cup {"RoomList"}, room : Typed]

\* The main loop or the greeting at the bottom, a command's wait on the main
\* loop, waits for a game server above, the ones for an event at the top only.
Early == {"greet_connect", "greet_key", "greet_id"}
Alone == Early \cup {"done"}
Bottom == Alone \cup {"main", "greet_list"}
Commands == {"create", "rooms", "join", "leave", "exit"}
Events == {"srv_connect", "srv_key"}
ServerWaits == Events \cup {"srv_leave"}

StackOK(s) ==
    /\ s \in Seq(Frames) /\ s # <<>>
    /\ s[1].at \in Bottom /\ (s[1].at \in Alone => Len(s) = 1)
    /\ \A n \in DOMAIN s : n # 1 => s[n].at \in Commands \cup ServerWaits
    /\ \A n \in DOMAIN s : s[n].at \in Commands => n = 2 /\ s[1].at = "main"
    /\ \A n \in DOMAIN s : s[n].at \in Events => n = Len(s)

LinkOK ==
    /\ server_peer \in {"null", "slot"} /\ link \in {"free", "connecting", "up"}
    /\ link = "connecting" <=> Me!At("srv_connect")
    /\ Me!At("srv_key") => link = "up"
    /\ link # "up" => toGame = <<>> /\ fromGame = <<>>
    /\ stack[1].at \in Early => link = "free"

FromServer == [header : {"Key", "GameInfo"}]
ToServer == [header : {"ClientAbout"}]

Valued ==
    /\ my_id \in Ids /\ roster \subseteq Ids /\ room_id \in Typed
    /\ lobby_link \in BOOLEAN /\ keyed \in BOOLEAN /\ sealed \in BOOLEAN
    /\ creation_stage \in BOOLEAN /\ in_game \in BOOLEAN
    /\ gave_up \in BOOLEAN /\ left_early \in BOOLEAN /\ gone \in BOOLEAN /\ crossed \in BOOLEAN
    /\ inbox \in Seq(FromLobby) /\ outbox \in Seq(ToLobby)
    /\ fromGame \in Seq(FromServer) /\ toGame \in Seq(ToServer)

ClientInv == StackOK(stack) /\ Valued /\ LinkOK

-----------------------------------------------------------------------------
(***************************************************************************)
(* Stacks.                                                                 *)
(***************************************************************************)
Rest(s) == SubSeq(s, 1, Len(s) - 1)
Replaced(s, f) == Append(Rest(s), f)

LEMMA StackFacts ==
    ASSUME NEW s, StackOK(s)
    PROVE  /\ Len(s) \in Nat /\ Len(s) >= 1 /\ DOMAIN s = 1 .. Len(s)
           /\ s \in Seq(Frames) /\ s[Len(s)] \in Frames
           /\ \A n \in DOMAIN s : s[n].at \in Waits /\ s[n].room \in Typed
           /\ s[Len(s)].at \in Bottom <=> Len(s) = 1
  <1>1. s \in Seq(Frames) /\ s # <<>>
    BY DEF StackOK
  <1>2. Len(s) \in Nat /\ Len(s) >= 1 /\ DOMAIN s = 1 .. Len(s) /\ \A n \in DOMAIN s : s[n] \in Frames
    BY <1>1
  <1>3. s[1].at \in Bottom /\ \A n \in DOMAIN s : n # 1 => s[n].at \in Commands \cup ServerWaits
    BY DEF StackOK
  <1>4. \A n \in DOMAIN s : n # 1 => s[n].at \notin Bottom
    BY <1>3 DEF Bottom, Alone, Early, Commands, ServerWaits, Events
  <1>5. Len(s) \in DOMAIN s
    BY <1>2
  <1> QED
    BY <1>1, <1>2, <1>3, <1>4, <1>5 DEF Frames

\* The wait on top ends.
LEMMA Shorter ==
    ASSUME NEW s, StackOK(s), s[Len(s)].at \notin Bottom,
           NEW t \in Seq(Frames), Len(t) = Len(s) - 1, \A n \in 1 .. Len(s) - 1 : t[n] = s[n]
    PROVE  /\ StackOK(t) /\ Len(t) = Len(s) - 1 /\ Len(t) >= 1 /\ t[1] = s[1]
           /\ \A n \in DOMAIN t : n \in DOMAIN s /\ n # Len(s) /\ t[n] = s[n]
           /\ \A n \in DOMAIN s : n # Len(s) => n \in DOMAIN t
           /\ t[Len(t)].at \notin Events
  <1>1. /\ Len(s) \in Nat /\ Len(s) >= 1 /\ DOMAIN s = 1 .. Len(s) /\ s \in Seq(Frames)
        /\ Len(s) # 1
    BY StackFacts
  <1>2. DOMAIN t = 1 .. Len(s) - 1
    BY <1>1, SeqFacts
  <1>3. /\ \A n \in DOMAIN t : n \in DOMAIN s /\ n # Len(s) /\ t[n] = s[n]
        /\ \A n \in DOMAIN s : n # Len(s) => n \in DOMAIN t
        /\ t[1] = s[1] /\ Len(t) >= 1 /\ t # <<>> /\ Len(t) \in DOMAIN t
    BY <1>1, <1>2
  <1>4. \A n \in DOMAIN t : t[n].at \notin Events
    BY <1>3 DEF StackOK
  <1>5. StackOK(t)
    BY <1>1, <1>3, <1>4 DEF StackOK
  <1> QED
    BY <1>1, <1>3, <1>4, <1>5

\* All but the last element.
LEMMA RestFacts ==
    ASSUME NEW S, NEW s \in Seq(S), Len(s) >= 1
    PROVE  /\ Rest(s) \in Seq(S) /\ Len(Rest(s)) = Len(s) - 1
           /\ \A n \in 1 .. Len(s) - 1 : Rest(s)[n] = s[n]
  <1>1. Len(s) \in Nat /\ DOMAIN s = 1 .. Len(s)
    OBVIOUS
  <1> QED
    BY <1>1 DEF Rest

LEMMA Pop ==
    ASSUME NEW s, StackOK(s), s[Len(s)].at \notin Bottom
    PROVE  /\ StackOK(Rest(s)) /\ Len(Rest(s)) = Len(s) - 1 /\ Len(Rest(s)) >= 1
           /\ Rest(s)[1] = s[1]
           /\ \A n \in DOMAIN Rest(s) : n \in DOMAIN s /\ n # Len(s) /\ Rest(s)[n] = s[n]
           /\ \A n \in DOMAIN s : n # Len(s) => n \in DOMAIN Rest(s)
           /\ Rest(s)[Len(Rest(s))].at \notin Events
  <1> DEFINE t == Rest(s)
  <1>1. Len(s) \in Nat /\ Len(s) >= 1 /\ s \in Seq(Frames)
    BY StackFacts
  <1>2. t \in Seq(Frames) /\ Len(t) = Len(s) - 1 /\ \A n \in 1 .. Len(s) - 1 : t[n] = s[n]
    BY <1>1, RestFacts
  <1> HIDE DEF t
  <1>3. /\ StackOK(t) /\ Len(t) = Len(s) - 1 /\ Len(t) >= 1 /\ t[1] = s[1]
        /\ \A n \in DOMAIN t : n \in DOMAIN s /\ n # Len(s) /\ t[n] = s[n]
        /\ \A n \in DOMAIN s : n # Len(s) => n \in DOMAIN t
        /\ t[Len(t)].at \notin Events
    BY <1>2, Shorter
  <1> QED
    BY <1>3 DEF t

\* The last element of a sequence is replaced.
LEMMA ReplaceLast ==
    ASSUME NEW S, NEW s \in Seq(S), s # <<>>, NEW f \in S
    PROVE  LET t == Replaced(s, f)
           IN  /\ t \in Seq(S) /\ Len(t) = Len(s) /\ DOMAIN t = DOMAIN s /\ t # <<>>
               /\ t[Len(s)] = f
               /\ \A n \in DOMAIN s : n # Len(s) => t[n] = s[n]
  <1> DEFINE u == Rest(s)
             t == Replaced(s, f)
  <1>0. t = Append(u, f)
    BY DEF Replaced
  <1> HIDE DEF t
  <1>1. Len(s) \in Nat /\ Len(s) >= 1 /\ DOMAIN s = 1 .. Len(s)
    OBVIOUS
  <1>2. u \in Seq(S) /\ Len(u) = Len(s) - 1 /\ \A n \in 1 .. Len(s) - 1 : u[n] = s[n]
    BY <1>1, RestFacts
  <1> HIDE DEF u
  <1>3. /\ t \in Seq(S) /\ Len(t) = Len(u) + 1 /\ t[Len(u) + 1] = f
        /\ \A n \in 1 .. Len(u) : t[n] = u[n]
    BY <1>0, <1>2
  <1>4. Len(t) = Len(s)
    BY <1>1, <1>2, <1>3
  <1>5. t[Len(s)] = f
    <2>1. Len(u) + 1 = Len(s)
      BY <1>1, <1>2
    <2> QED
      BY <1>3, <2>1
  <1>6. DOMAIN t = 1 .. Len(s)
    BY <1>3, <1>4
  <1>7. t # <<>>
    BY <1>1, <1>3, <1>4
  <1>8. \A n \in DOMAIN s : n # Len(s) => t[n] = s[n]
    BY <1>1, <1>2, <1>3
  <1> QED
    BY <1>1, <1>3, <1>4, <1>5, <1>6, <1>7, <1>8 DEF t

\* The wait on top becomes another.
LEMMA Swap ==
    ASSUME NEW s, StackOK(s), NEW f \in Frames,
           \/ s[Len(s)].at \in Bottom /\ f.at \in Bottom
           \/ s[Len(s)].at \in Events /\ f.at \in ServerWaits
    PROVE  LET t == Replaced(s, f)
           IN  /\ StackOK(t) /\ Len(t) = Len(s) /\ DOMAIN t = DOMAIN s
               /\ t[Len(s)] = f /\ t[Len(t)] = f
               /\ \A n \in DOMAIN s : n # Len(s) => t[n] = s[n]
               /\ t[1] = IF Len(s) = 1 THEN f ELSE s[1]
  <1> DEFINE t == Replaced(s, f)
  <1>1. /\ Len(s) \in Nat /\ Len(s) >= 1 /\ DOMAIN s = 1 .. Len(s) /\ s \in Seq(Frames)
        /\ s[Len(s)].at \in Bottom <=> Len(s) = 1
        /\ s # <<>>
    BY StackFacts DEF StackOK
  <1>2. /\ t \in Seq(Frames) /\ Len(t) = Len(s) /\ DOMAIN t = DOMAIN s /\ t # <<>>
        /\ t[Len(s)] = f
        /\ \A n \in DOMAIN s : n # Len(s) => t[n] = s[n]
    BY <1>1, ReplaceLast
  <1> HIDE DEF t
  <1>3. 1 \in DOMAIN s
    BY <1>1
  <1>4. StackOK(t)
    <2>1. CASE Len(s) = 1
      <3>1. f.at \in Bottom
        BY <1>1, <2>1 DEF Bottom, Alone, Early, Events
      <3>2. \A n \in DOMAIN t : n = 1 /\ t[n] = f
        BY <1>1, <1>2, <1>3, <2>1
      <3>3. f.at \notin Commands \cup Events
        BY <3>1 DEF Bottom, Alone, Early, Events, Commands
      <3> QED
        BY <1>2, <1>3, <2>1, <3>1, <3>2, <3>3 DEF StackOK
    <2>2. CASE Len(s) # 1
      <3>1. f.at \in ServerWaits
        BY <1>1, <2>2
      <3>2. f.at \notin Commands
        BY <3>1 DEF ServerWaits, Events, Commands
      <3>3. \A n \in DOMAIN s : n # Len(s) => t[n] = s[n] /\ s[n].at \notin Events
        BY <1>2 DEF StackOK
      <3>4. t[1] = s[1] /\ s[1].at \notin Alone
        <4>1. t[1] = s[1]
          BY <1>2, <1>3, <2>2
        <4> QED
          BY <2>2, <4>1 DEF StackOK
      <3> QED
        BY <1>2, <1>3, <2>2, <3>1, <3>2, <3>3, <3>4 DEF StackOK
    <2> QED
      BY <2>1, <2>2
  <1>5. t[1] = IF Len(s) = 1 THEN f ELSE s[1]
    BY <1>2, <1>3
  <1> QED
    BY <1>1, <1>2, <1>3, <1>4, <1>5 DEF t

\* A wait begins.
LEMMA Push ==
    ASSUME NEW s, StackOK(s), NEW f \in Frames,
           \/ s[Len(s)].at = "main" /\ f.at \in Commands
           \/ s[Len(s)].at \notin Alone \cup Events /\ f.at \in ServerWaits
    PROVE  LET t == Append(s, f)
           IN  /\ StackOK(t) /\ Len(t) = Len(s) + 1 /\ t[1] = s[1]
               /\ t[Len(s) + 1] = f /\ t[Len(t)] = f
               /\ \A n \in DOMAIN s : n \in DOMAIN t /\ t[n] = s[n]
               /\ \A n \in DOMAIN t : n \in DOMAIN s \/ n = Len(s) + 1
               /\ Len(s) + 1 \in DOMAIN t /\ Len(s) + 1 \notin DOMAIN s
  <1> DEFINE t == Append(s, f)
  <1>1. /\ Len(s) \in Nat /\ Len(s) >= 1 /\ DOMAIN s = 1 .. Len(s) /\ s \in Seq(Frames)
        /\ s[Len(s)].at \in Bottom <=> Len(s) = 1
    BY StackFacts
  <1>2. /\ t \in Seq(Frames) /\ Len(t) = Len(s) + 1 /\ t[Len(s) + 1] = f
        /\ \A n \in 1 .. Len(s) : t[n] = s[n]
    BY <1>1
  <1> HIDE DEF t
  <1>3. DOMAIN t = 1 .. Len(s) + 1 /\ t # <<>>
    BY <1>1, <1>2, SeqFacts
  <1>4. /\ \A n \in DOMAIN s : n \in DOMAIN t /\ t[n] = s[n] /\ n # Len(s) + 1
        /\ \A n \in DOMAIN t : n \in DOMAIN s \/ n = Len(s) + 1
        /\ Len(s) + 1 \in DOMAIN t /\ Len(s) + 1 \notin DOMAIN s
        /\ t[1] = s[1]
    BY <1>1, <1>2, <1>3
  <1>5. \A n \in DOMAIN s : s[n].at \notin Events
    BY <1>1 DEF StackOK, Events, Commands, Alone
  <1>6. s[1].at \notin Alone
    <2>1. CASE Len(s) = 1
      BY <2>1 DEF Alone, Early
    <2>2. CASE Len(s) # 1
      BY <2>2 DEF StackOK
    <2> QED
      BY <2>1, <2>2
  <1>7. f.at \in Commands => Len(s) = 1 /\ s[1].at = "main"
    BY <1>1 DEF Bottom, Commands, ServerWaits, Events
  <1>8. f.at \in Commands \cup ServerWaits
    OBVIOUS
  <1>9. StackOK(t)
    BY <1>1, <1>2, <1>3, <1>4, <1>5, <1>6, <1>7, <1>8 DEF StackOK
  <1> QED
    BY <1>1, <1>2, <1>4, <1>9 DEF t

-----------------------------------------------------------------------------
(***************************************************************************)
(* Queues of packets.                                                      *)
(***************************************************************************)
LEMMA TailFacts ==
    ASSUME NEW S, NEW s \in Seq(S), s # <<>>
    PROVE  /\ Head(s) \in S /\ Tail(s) \in Seq(S) /\ Head(s) = s[1] /\ 1 \in DOMAIN s
           /\ DOMAIN s = 1 .. Len(s) /\ Len(s) \in Nat /\ Len(Tail(s)) = Len(s) - 1
           /\ \A n \in DOMAIN Tail(s) : n + 1 \in DOMAIN s /\ Tail(s)[n] = s[n + 1]
           /\ \A n \in DOMAIN s : n # 1 => n - 1 \in DOMAIN Tail(s) /\ Tail(s)[n - 1] = s[n]
  <1>1. /\ Head(s) \in S /\ Tail(s) \in Seq(S) /\ Head(s) = s[1]
        /\ Len(s) \in Nat /\ Len(s) >= 1 /\ DOMAIN s = 1 .. Len(s)
        /\ Len(Tail(s)) = Len(s) - 1 /\ DOMAIN Tail(s) = 1 .. Len(s) - 1
    OBVIOUS
  <1>2. \A n \in DOMAIN Tail(s) : Tail(s)[n] = s[n + 1] /\ n + 1 \in DOMAIN s
    OBVIOUS
  <1>3. ASSUME NEW n \in DOMAIN s, n # 1
        PROVE  n - 1 \in DOMAIN Tail(s) /\ Tail(s)[n - 1] = s[n]
    <2>1. n - 1 \in DOMAIN Tail(s) /\ (n - 1) + 1 = n
      BY <1>1, <1>3
    <2> QED
      BY <1>2, <2>1
  <1> QED
    BY <1>1, <1>2, <1>3

LEMMA AppendFacts ==
    ASSUME NEW S, NEW s \in Seq(S), NEW x \in S
    PROVE  /\ Append(s, x) \in Seq(S) /\ Append(s, x) # <<>>
           /\ Len(s) \in Nat /\ Len(Append(s, x)) = Len(s) + 1 /\ DOMAIN s = 1 .. Len(s)
           /\ \A n \in DOMAIN s : n \in DOMAIN Append(s, x) /\ Append(s, x)[n] = s[n]
           /\ Len(s) + 1 \in DOMAIN Append(s, x) /\ Append(s, x)[Len(s) + 1] = x
           /\ \A n \in DOMAIN Append(s, x) : n \in DOMAIN s \/ n = Len(s) + 1
           /\ Len(s) + 1 \notin DOMAIN s
  <1>1. /\ Append(s, x) \in Seq(S) /\ Append(s, x) # <<>>
        /\ Len(s) \in Nat /\ Len(Append(s, x)) = Len(s) + 1 /\ DOMAIN s = 1 .. Len(s)
        /\ DOMAIN Append(s, x) = 1 .. Len(s) + 1
        /\ \A n \in 1 .. Len(s) : Append(s, x)[n] = s[n]
        /\ Append(s, x)[Len(s) + 1] = x
    OBVIOUS
  <1> QED
    BY <1>1

\* What is behind the first part of a concatenation or in it.
LEMMA ConcatParts ==
    ASSUME NEW S, NEW s \in Seq(S), NEW t \in Seq(S)
    PROVE  /\ s \o t \in Seq(S)
           /\ DOMAIN s = 1 .. Len(s) /\ Len(s) \in Nat
           /\ DOMAIN t = 1 .. Len(t) /\ Len(t) \in Nat
           /\ DOMAIN (s \o t) = 1 .. Len(s) + Len(t)
           /\ \A n \in DOMAIN s : (s \o t)[n] = s[n]
           /\ \A n \in DOMAIN t : (s \o t)[Len(s) + n] = t[n]
           /\ \A n \in DOMAIN (s \o t) :
                n \in DOMAIN s \/ (n - Len(s) \in DOMAIN t /\ (s \o t)[n] = t[n - Len(s)])
  OBVIOUS

LEMMA LargerRange ==
    ASSUME NEW S, NEW T, S \subseteq T, NEW s \in Seq(S)
    PROVE  s \in Seq(T)
  OBVIOUS

LEMMA NoneType ==
    ASSUME NEW S
    PROVE  <<>> \in Seq(S) /\ DOMAIN <<>> = {}
  OBVIOUS

-----------------------------------------------------------------------------
(***************************************************************************)
(* The client's types are kept by its own steps.                           *)
(***************************************************************************)
LEMMA PacketFacts ==
    ASSUME NEW packet \in FromLobby
    PROVE  /\ packet.header \in Numbered => packet.id \in Ids
           /\ packet.header = "ServerInfo" => packet.address \in Seq(Nat)
           /\ packet.header \in Bare \cup Numbered \cup {"ServerInfo"}
  BY DEF FromLobby, Numbered, Bare

LEMMA SentType ==
    ASSUME ClientInv, NEW packet \in ToLobby
    PROVE  /\ Me!Sent(packet) \in Seq(ToLobby)
           /\ Me!Sent(packet) = IF lobby_link THEN Append(outbox, packet) ELSE outbox
  BY AppendFacts DEF Me!Sent, ClientInv, Valued

LEMMA PacketTypes ==
    /\ \A i \in Ids : Me!Introduction(i) \in ToLobby
    /\ \A h \in Asked \cup {"RoomList"}, r \in Typed : Me!Request(h, r) \in ToLobby
    /\ \A w \in Waits, r \in Typed : Me!Frame(w, r) \in Frames /\ Me!Frame(w, r).at = w
                                     /\ Me!Frame(w, r).room = r
  BY DEF Me!Introduction, Me!Request, Me!Frame, Me!NoRoom, ToLobby, Typed, Frames

LEMMA Top ==
    ASSUME ClientInv
    PROVE  /\ Len(stack) \in Nat /\ Len(stack) >= 1 /\ DOMAIN stack = 1 .. Len(stack)
           /\ Len(stack) \in DOMAIN stack /\ Me!Here = stack[Len(stack)]
           /\ Me!Here.at \in Waits /\ Me!Here.room \in Typed
           /\ Me!Here.at \in Bottom <=> Len(stack) = 1
           /\ Me!Here.at \in Bottom => Me!Here = stack[1]
           /\ 1 \in DOMAIN stack
  <1>1. StackOK(stack)
    BY DEF ClientInv
  <1>2. /\ Len(stack) \in Nat /\ Len(stack) >= 1 /\ DOMAIN stack = 1 .. Len(stack)
        /\ stack[Len(stack)] \in Frames
        /\ stack[Len(stack)].at \in Bottom <=> Len(stack) = 1
    BY <1>1, StackFacts
  <1>3. Me!Here = stack[Len(stack)]
    BY DEF Me!Here
  <1> QED
    BY <1>2, <1>3 DEF Frames

-----------------------------------------------------------------------------
(***************************************************************************)
(* What a step makes of the stack: nothing, a wait less, another wait on   *)
(* top, a wait more.                                                       *)
(***************************************************************************)
Leaving == {"leave", "exit", "srv_leave"}
Owing == {"create", "join"} \cup Leaving
Waiting == {n \in DOMAIN stack : stack[n].at \in Owing}
Nested == \E n \in DOMAIN stack : stack[n].at \in ServerWaits

LEMMA Kept ==
    ASSUME ClientInv, UNCHANGED stack
    PROVE  /\ StackOK(stack)' /\ Me!Here' = Me!Here /\ stack'[1] = stack[1]
           /\ Waiting' = Waiting /\ \A n \in Waiting : stack'[n] = stack[n]
           /\ Nested' = Nested
  BY DEF ClientInv, StackOK, Me!Here, Waiting, Nested

LEMMA Popped ==
    ASSUME ClientInv, Me!Here.at \notin Bottom, stack' = Rest(stack)
    PROVE  /\ StackOK(stack)' /\ Me!Here'.at \notin Events /\ stack'[1] = stack[1]
           /\ Waiting' = Waiting \ {Len(stack)} /\ \A n \in Waiting' : stack'[n] = stack[n]
           /\ Nested' => Nested
  <1>1. StackOK(stack) /\ stack[Len(stack)].at \notin Bottom
    BY Top DEF ClientInv
  <1>2. /\ StackOK(stack)' /\ stack'[1] = stack[1]
        /\ \A n \in DOMAIN stack' : n \in DOMAIN stack /\ n # Len(stack) /\ stack'[n] = stack[n]
        /\ \A n \in DOMAIN stack : n # Len(stack) => n \in DOMAIN stack'
        /\ stack'[Len(stack')].at \notin Events
    <2> DEFINE t == Rest(stack)
    <2>1. /\ StackOK(t) /\ t[1] = stack[1]
          /\ \A n \in DOMAIN t : n \in DOMAIN stack /\ n # Len(stack) /\ t[n] = stack[n]
          /\ \A n \in DOMAIN stack : n # Len(stack) => n \in DOMAIN t
          /\ t[Len(t)].at \notin Events
      BY <1>1, Pop
    <2>2. stack' = t
      OBVIOUS
    <2> HIDE DEF t
    <2>3. StackOK(stack) ' <=> StackOK(stack')
      BY DEF StackOK
    <2> QED
      BY <2>1, <2>2, <2>3
  <1>3. Waiting' = {n \in DOMAIN stack' : stack'[n].at \in Owing}
    BY DEF Waiting
  <1>4. Waiting' = Waiting \ {Len(stack)} /\ \A n \in Waiting' : stack'[n] = stack[n]
    BY <1>2, <1>3 DEF Waiting
  <1>5. Nested' => Nested
    BY <1>2 DEF Nested
  <1> QED
    BY <1>2, <1>4, <1>5 DEF Me!Here

LEMMA Swapped ==
    ASSUME ClientInv, NEW f \in Frames, stack' = Replaced(stack, f),
           \/ Me!Here.at \in Bottom /\ f.at \in Bottom
           \/ Me!Here.at \in Events /\ f.at \in ServerWaits
    PROVE  /\ StackOK(stack)' /\ Me!Here' = f
           /\ stack'[1] = IF Me!Here.at \in Bottom THEN f ELSE stack[1]
           /\ Waiting' = IF f.at \in Owing THEN Waiting \cup {Len(stack)} ELSE Waiting
           /\ \A n \in Waiting : stack'[n] = stack[n]
           /\ stack'[Len(stack)] = f
           /\ Nested' => Nested
  <1>1. /\ StackOK(stack) /\ Me!Here = stack[Len(stack)] /\ Len(stack) \in DOMAIN stack
        /\ Me!Here.at \in Bottom <=> Len(stack) = 1
    BY Top DEF ClientInv
  <1>2. /\ StackOK(stack)' /\ stack'[1] = IF Len(stack) = 1 THEN f ELSE stack[1]
        /\ DOMAIN stack' = DOMAIN stack /\ stack'[Len(stack)] = f /\ stack'[Len(stack')] = f
        /\ \A n \in DOMAIN stack : n # Len(stack) => stack'[n] = stack[n]
    <2> DEFINE t == Replaced(stack, f)
    <2>1. /\ StackOK(t) /\ t[1] = IF Len(stack) = 1 THEN f ELSE stack[1]
          /\ DOMAIN t = DOMAIN stack /\ t[Len(stack)] = f /\ t[Len(t)] = f
          /\ \A n \in DOMAIN stack : n # Len(stack) => t[n] = stack[n]
      BY <1>1, Swap
    <2>2. stack' = t
      OBVIOUS
    <2> HIDE DEF t
    <2>3. StackOK(stack)' <=> StackOK(stack')
      BY DEF StackOK
    <2> QED
      BY <2>1, <2>2, <2>3
  <1>3. Waiting' = {n \in DOMAIN stack' : stack'[n].at \in Owing}
    BY DEF Waiting
  <1>4. Me!Here.at \notin Owing
    BY DEF Bottom, Alone, Early, Events, Owing, Leaving
  <1>5. /\ Waiting' = IF f.at \in Owing THEN Waiting \cup {Len(stack)} ELSE Waiting
        /\ \A n \in Waiting : stack'[n] = stack[n]
    BY <1>1, <1>2, <1>3, <1>4 DEF Waiting
  <1>6. Nested' => Nested
    <2>1. CASE Me!Here.at \in Events
      BY <1>1, <2>1 DEF Nested, ServerWaits
    <2>2. CASE f.at \in Bottom
      <3>1. f.at \notin ServerWaits
        BY <2>2 DEF Bottom, Alone, Early, ServerWaits, Events
      <3> QED
        BY <1>2, <3>1 DEF Nested
    <2> QED
      BY <2>1, <2>2
  <1> QED
    BY <1>1, <1>2, <1>5, <1>6 DEF Me!Here

LEMMA Pushed ==
    ASSUME ClientInv, NEW f \in Frames, stack' = Append(stack, f),
           \/ Me!Here.at = "main" /\ f.at \in Commands
           \/ Me!Here.at \notin Alone \cup Events /\ f.at \in ServerWaits
    PROVE  /\ StackOK(stack)' /\ Me!Here' = f /\ stack'[1] = stack[1]
           /\ Waiting' = IF f.at \in Owing THEN Waiting \cup {Len(stack) + 1} ELSE Waiting
           /\ \A n \in Waiting : stack'[n] = stack[n]
           /\ stack'[Len(stack) + 1] = f
           /\ Nested' => Nested \/ f.at \in ServerWaits
  <1>1. StackOK(stack) /\ Me!Here = stack[Len(stack)]
    BY Top DEF ClientInv
  <1>2. /\ StackOK(stack)' /\ stack'[1] = stack[1]
        /\ stack'[Len(stack) + 1] = f /\ stack'[Len(stack')] = f
        /\ \A n \in DOMAIN stack : n \in DOMAIN stack' /\ stack'[n] = stack[n]
        /\ \A n \in DOMAIN stack' : n \in DOMAIN stack \/ n = Len(stack) + 1
        /\ Len(stack) + 1 \in DOMAIN stack' /\ Len(stack) + 1 \notin DOMAIN stack
    <2> DEFINE t == Append(stack, f)
    <2>1. /\ StackOK(t) /\ t[1] = stack[1] /\ t[Len(stack) + 1] = f /\ t[Len(t)] = f
          /\ \A n \in DOMAIN stack : n \in DOMAIN t /\ t[n] = stack[n]
          /\ \A n \in DOMAIN t : n \in DOMAIN stack \/ n = Len(stack) + 1
          /\ Len(stack) + 1 \in DOMAIN t /\ Len(stack) + 1 \notin DOMAIN stack
      BY <1>1, Push
    <2>2. stack' = t
      OBVIOUS
    <2> HIDE DEF t
    <2>3. StackOK(stack)' <=> StackOK(stack')
      BY DEF StackOK
    <2> QED
      BY <2>1, <2>2, <2>3
  <1>3. Waiting' = {n \in DOMAIN stack' : stack'[n].at \in Owing}
    BY DEF Waiting
  <1>4. /\ Waiting' = IF f.at \in Owing THEN Waiting \cup {Len(stack) + 1} ELSE Waiting
        /\ \A n \in Waiting : stack'[n] = stack[n]
    BY <1>2, <1>3 DEF Waiting
  <1>5. Nested' => Nested \/ f.at \in ServerWaits
    BY <1>2 DEF Nested
  <1> QED
    BY <1>2, <1>4, <1>5 DEF Me!Here

\* What the client's own operators make of the stack.
LEMMA Stacks ==
    /\ Me!Below = Rest(stack)
    /\ \A w : Me!Goto(w) = Replaced(stack, Me!Frame(w, 0))
    /\ \A w, r : Me!Call(w, r) = Append(stack, Me!Frame(w, r))
  BY DEF Me!Below, Me!Goto, Me!Call, Me!NoRoom, Rest, Replaced
-----------------------------------------------------------------------------
(***************************************************************************)
(* The client's own steps keep its types.                                  *)
(***************************************************************************)
Listening == Me!AnswerLoop \cup {"main"}

\* process_event starts to connect.
Connects(packet) ==
    /\ packet.header = "ServerInfo" /\ link = "free"
    /\ server_peer' = "slot" /\ link' = "connecting" /\ server' = packet.address
    /\ stack' = Append(stack, Me!Frame("srv_connect", 0))
    /\ UNCHANGED <<roster, in_game, missed>>

\* It has nowhere to connect from.
Ignores(packet) ==
    /\ packet.header = "ServerInfo" /\ link # "free" /\ server_peer' = "null"
    /\ UNCHANGED <<stack, roster, in_game, link, server, missed>>

Learns(packet) ==
    /\ packet.header \in {"ClientAbout", "DiscClientAbout"}
    /\ Me!LearnOf(packet) /\ UNCHANGED missed

Enters(packet) ==
    /\ packet.header = "GameInfo" /\ in_game'
    /\ UNCHANGED <<stack, roster, server_peer, link, server, missed>>

Skips(packet) ==
    /\ packet.header \notin {"ClientAbout", "DiscClientAbout", "ServerInfo", "GameInfo"}
    /\ UNCHANGED <<stack, roster, Me!GameLink, missed>>

LEMMA Processed ==
    ASSUME NEW packet, Me!process_event(packet)
    PROVE  /\ UNCHANGED room_id
           /\ \/ Connects(packet)
              \/ Ignores(packet)
              \/ Learns(packet)
              \/ Enters(packet)
              \/ Skips(packet)
  BY Stacks DEF Me!process_event, Me!BeginConnecting, Me!NoSlotLeft, Me!EnterGame, Me!LearnOf,
     Me!GameLink, Me!NoRoom, Connects, Ignores, Learns, Enters, Skips

Handled(packet) == Me!process_event(packet) \/ Me!ThrowAway(packet)

\* What handling a packet leaves of the types.
LEMMA HandleTypes ==
    ASSUME ClientInv, NEW packet \in FromLobby \cup FromServer, Handled(packet),
           Me!Here.at \in Listening,
           UNCHANGED toGame,
           fromGame' = fromGame \/ packet \in FromServer,
           link # "up" => fromGame' = <<>>
    PROVE  /\ StackOK(stack)' /\ LinkOK' /\ roster' \subseteq Ids
           /\ in_game' \in BOOLEAN /\ room_id' = room_id
  <1>1. Me!Here.at \notin Alone \cup Events
    BY DEF Listening, Me!AnswerLoop, Alone, Early, Events
  <1>2. /\ roster \subseteq Ids /\ in_game \in BOOLEAN
        /\ server_peer \in {"null", "slot"} /\ link \in {"free", "connecting", "up"}
        /\ link = "connecting" <=> Me!Here.at = "srv_connect"
        /\ link # "up" => toGame = <<>> /\ fromGame = <<>>
        /\ stack[1].at \in Early => link = "free"
    BY DEF ClientInv, Valued, LinkOK, Me!At
  <1>3. UNCHANGED room_id
    BY Processed DEF Handled, Me!ThrowAway, Me!Place
  <1>4. CASE Connects(packet)
    <2> DEFINE f == Me!Frame("srv_connect", 0)
    <2>1. f \in Frames /\ f.at = "srv_connect" /\ f.at \in ServerWaits
      BY PacketTypes DEF Waits, Typed, ServerWaits, Events
    <2>2. stack' = Append(stack, f)
      BY <1>4 DEF Connects
    <2> HIDE DEF f
    <2>3. StackOK(stack)' /\ Me!Here' = f /\ stack'[1] = stack[1]
      BY <1>1, <2>1, <2>2, Pushed
    <2>4. fromGame' = <<>> /\ toGame' = <<>>
      BY <1>2, <1>4 DEF Connects
    <2>5. stack[1].at \notin Early
      BY <1>1, Top DEF ClientInv, StackOK, Alone, Bottom
    <2>6. LinkOK'
      BY <1>4, <2>1, <2>3, <2>4, <2>5 DEF Connects, LinkOK, Me!At
    <2> QED
      BY <1>2, <1>3, <1>4, <2>3, <2>6 DEF Connects
  <1>5. CASE UNCHANGED <<stack, link>> /\ server_peer' \in {"null", "slot"}
             /\ roster' \subseteq Ids /\ in_game' \in BOOLEAN
    <2>1. StackOK(stack)' /\ Me!Here' = Me!Here
      BY <1>5, Kept
    <2>2. Me!At("srv_key") => link = "up"
      BY DEF ClientInv, LinkOK
    <2>3. LinkOK'
      BY <1>2, <1>5, <2>1, <2>2 DEF LinkOK, Me!At
    <2> QED
      BY <1>3, <1>5, <2>1, <2>3
  <1>6. ~Connects(packet) =>
          UNCHANGED <<stack, link>> /\ server_peer' \in {"null", "slot"}
          /\ roster' \subseteq Ids /\ in_game' \in BOOLEAN
    <2>1. CASE Me!ThrowAway(packet)
      BY <1>2, <2>1 DEF Me!ThrowAway, Me!Place, Me!GameLink
    <2>2. CASE Ignores(packet)
      BY <1>2, <2>2 DEF Ignores
    <2>3. CASE Learns(packet)
      <3>1. packet.id \in Ids
        BY <2>3 DEF Learns, FromLobby, FromServer, Bare, Numbered
      <3> QED
        BY <1>2, <2>3, <3>1 DEF Learns, Me!LearnOf, Me!GameLink
    <2>4. CASE Enters(packet)
      BY <1>2, <2>4 DEF Enters
    <2>5. CASE Skips(packet)
      BY <1>2, <2>5 DEF Skips, Me!GameLink
    <2> QED
      BY <2>1, <2>2, <2>3, <2>4, <2>5, Processed DEF Handled
  <1> QED
    BY <1>4, <1>5, <1>6

\* The next packet of the lobby, or of the game server.
LEMMA NextPacket ==
    ASSUME ClientInv
    PROVE  /\ Me!NextFromLobby => /\ inbox # <<>> /\ Head(inbox) \in FromLobby
                                  /\ inbox' \in Seq(FromLobby) /\ UNCHANGED fromGame
           /\ Me!NextFromGame => /\ fromGame # <<>> /\ Head(fromGame) \in FromServer /\ link = "up"
                                 /\ fromGame' \in Seq(FromServer) /\ UNCHANGED inbox
  BY TailFacts DEF ClientInv, Valued, LinkOK, Me!NextFromLobby, Me!NextFromGame

LEMMA MainReadsCases ==
    ASSUME ClientInv, Me!MainReads
    PROVE  /\ Me!Here.at \in {"main"} /\ Me!Here.at \in Listening
           /\ UNCHANGED <<Me!Identity, Me!Typing, outbox, toGame, Me!History>>
           /\ \/ /\ Me!NextFromLobby
                 /\ \E packet \in FromLobby :
                      packet = Head(inbox) /\ IF ~Me!Deaf THEN Me!process_event(packet)
                                              ELSE Me!ThrowAway(packet)
              \/ /\ Me!NextFromGame
                 /\ \E packet \in FromServer :
                      packet = Head(fromGame) /\ IF TRUE THEN Me!process_event(packet)
                                                 ELSE Me!ThrowAway(packet)
  <1>1. /\ Me!Here.at \in {"main"} /\ Me!Here.at \in Listening
        /\ UNCHANGED <<Me!Identity, Me!Typing, outbox, toGame, Me!History>>
    BY DEF Me!MainReads, Me!At, Listening
  <1>2. CASE Me!NextFromLobby
             /\ IF ~Me!Deaf THEN Me!process_event(Head(inbox)) ELSE Me!ThrowAway(Head(inbox))
    <2>1. PICK packet \in FromLobby : packet = Head(inbox)
      BY <1>2, NextPacket
    <2>2. IF ~Me!Deaf THEN Me!process_event(packet) ELSE Me!ThrowAway(packet)
      BY <1>2, <2>1 DEF Me!process_event, Me!ThrowAway, Me!LearnOf, Me!BeginConnecting
    <2> QED
      BY <1>1, <1>2, <2>1, <2>2
  <1>3. CASE Me!NextFromGame
             /\ IF TRUE THEN Me!process_event(Head(fromGame))
                ELSE Me!ThrowAway(Head(fromGame))
    <2>1. PICK packet \in FromServer : packet = Head(fromGame)
      BY <1>3, NextPacket
    <2>2. IF TRUE THEN Me!process_event(packet) ELSE Me!ThrowAway(packet)
      BY <1>3, <2>1 DEF Me!process_event, Me!ThrowAway, Me!LearnOf, Me!BeginConnecting
    <2> QED
      BY <1>1, <1>3, <2>1, <2>2
  <1> QED
    BY <1>2, <1>3 DEF Me!MainReads, Me!Handle

LEMMA MainReadsTypes ==
    ASSUME ClientInv, Me!MainReads, UNCHANGED sealed
    PROVE  ClientInv'
  <1>1. /\ Me!Here.at \in Listening
        /\ UNCHANGED <<Me!Identity, Me!Typing, outbox, toGame, Me!History>>
        /\ \/ Me!NextFromLobby /\ \E packet \in FromLobby : Handled(packet)
           \/ Me!NextFromGame /\ \E packet \in FromServer : Handled(packet)
    BY MainReadsCases DEF Handled
  <1>2. PICK packet \in FromLobby \cup FromServer :
          /\ Handled(packet)
          /\ Me!NextFromLobby \/ (Me!NextFromGame /\ packet \in FromServer)
    BY <1>1
  <1>3. link # "up" => fromGame = <<>>
    BY DEF ClientInv, LinkOK
  <1>4. inbox \in Seq(FromLobby) /\ fromGame \in Seq(FromServer)
    BY DEF ClientInv, Valued
  <1>5. /\ inbox' \in Seq(FromLobby) /\ fromGame' \in Seq(FromServer)
        /\ fromGame' = fromGame \/ packet \in FromServer
        /\ link # "up" => fromGame' = <<>>
    BY <1>2, <1>3, <1>4, NextPacket
  <1>6. /\ StackOK(stack)' /\ LinkOK' /\ roster' \subseteq Ids
        /\ in_game' \in BOOLEAN /\ room_id' = room_id
    BY <1>1, <1>2, <1>5, HandleTypes
  <1>7. Valued'
    BY <1>1, <1>5, <1>6 DEF ClientInv, Valued, Me!Identity, Me!Typing, Me!History
  <1> QED
    BY <1>6, <1>7 DEF ClientInv

LEMMA LoopReadsCases ==
    ASSUME ClientInv, Me!LoopReads
    PROVE  /\ Me!Here.at \in Me!AnswerLoop /\ Me!Here.at \in Listening
           /\ UNCHANGED <<Me!Identity, Me!Typing, outbox, toGame, Me!History>>
           /\ \/ /\ Me!NextFromLobby /\ ~(~Me!Deaf /\ Head(inbox).header \in Me!Wanted)
                 /\ \E packet \in FromLobby :
                      packet = Head(inbox) /\ IF Me!ReadsTwice THEN Me!process_event(packet)
                                              ELSE Me!ThrowAway(packet)
              \/ /\ Me!NextFromGame
                 /\ \E packet \in FromServer :
                      packet = Head(fromGame) /\ IF ~keyed THEN Me!process_event(packet)
                                                 ELSE Me!ThrowAway(packet)
  <1>1. /\ Me!Here.at \in Me!AnswerLoop /\ Me!Here.at \in Listening
        /\ UNCHANGED <<Me!Identity, Me!Typing, outbox, toGame, Me!History>>
    BY DEF Me!LoopReads, Me!At, Listening
  <1>2. CASE Me!NextFromLobby /\ ~(~Me!Deaf /\ Head(inbox).header \in Me!Wanted)
             /\ IF Me!ReadsTwice THEN Me!process_event(Head(inbox)) ELSE Me!ThrowAway(Head(inbox))
    <2>1. PICK packet \in FromLobby : packet = Head(inbox)
      BY <1>2, NextPacket
    <2>2. IF Me!ReadsTwice THEN Me!process_event(packet) ELSE Me!ThrowAway(packet)
      BY <1>2, <2>1 DEF Me!process_event, Me!ThrowAway, Me!LearnOf, Me!BeginConnecting
    <2> QED
      BY <1>1, <1>2, <2>1, <2>2
  <1>3. CASE Me!NextFromGame
             /\ IF ~keyed THEN Me!process_event(Head(fromGame))
                ELSE Me!ThrowAway(Head(fromGame))
    <2>1. PICK packet \in FromServer : packet = Head(fromGame)
      BY <1>3, NextPacket
    <2>2. IF ~keyed THEN Me!process_event(packet) ELSE Me!ThrowAway(packet)
      BY <1>3, <2>1 DEF Me!process_event, Me!ThrowAway, Me!LearnOf, Me!BeginConnecting
    <2> QED
      BY <1>1, <1>3, <2>1, <2>2
  <1> QED
    BY <1>2, <1>3 DEF Me!LoopReads, Me!Handle

LEMMA LoopReadsTypes ==
    ASSUME ClientInv, Me!LoopReads, UNCHANGED sealed
    PROVE  ClientInv'
  <1>1. /\ Me!Here.at \in Listening
        /\ UNCHANGED <<Me!Identity, Me!Typing, outbox, toGame, Me!History>>
        /\ \/ Me!NextFromLobby /\ \E packet \in FromLobby : Handled(packet)
           \/ Me!NextFromGame /\ \E packet \in FromServer : Handled(packet)
    BY LoopReadsCases DEF Handled
  <1>2. PICK packet \in FromLobby \cup FromServer :
          /\ Handled(packet)
          /\ Me!NextFromLobby \/ (Me!NextFromGame /\ packet \in FromServer)
    BY <1>1
  <1>3. link # "up" => fromGame = <<>>
    BY DEF ClientInv, LinkOK
  <1>4. inbox \in Seq(FromLobby) /\ fromGame \in Seq(FromServer)
    BY DEF ClientInv, Valued
  <1>5. /\ inbox' \in Seq(FromLobby) /\ fromGame' \in Seq(FromServer)
        /\ fromGame' = fromGame \/ packet \in FromServer
        /\ link # "up" => fromGame' = <<>>
    BY <1>2, <1>3, <1>4, NextPacket
  <1>6. /\ StackOK(stack)' /\ LinkOK' /\ roster' \subseteq Ids
        /\ in_game' \in BOOLEAN /\ room_id' = room_id
    BY <1>1, <1>2, <1>5, HandleTypes
  <1>7. Valued'
    BY <1>1, <1>5, <1>6 DEF ClientInv, Valued, Me!Identity, Me!Typing, Me!History
  <1> QED
    BY <1>6, <1>7 DEF ClientInv

\* The end of a wait for an answer.
Ends == stack' = Me!Finished

LEMMA EndsTypes ==
    ASSUME ClientInv, Me!Here.at \in Me!AnswerLoop, Ends
    PROVE  /\ StackOK(stack)' /\ Me!Here'.at \notin Events \cup Early
           /\ stack'[1].at \notin Early
           /\ \/ Me!Here.at = "exit" /\ Me!Here' = Me!Frame("done", 0) /\ Len(stack') = 1
                 /\ Waiting' = {} /\ ~Nested'
              \/ /\ Me!Here.at # "exit" /\ Me!Here'.at # "done"
                 /\ Waiting' = Waiting \ {Len(stack)}
                 /\ \A n \in Waiting' : stack'[n] = stack[n]
                 /\ Nested' => Nested
  <1>1. /\ StackOK(stack) /\ Me!Here = stack[Len(stack)] /\ Len(stack) \in DOMAIN stack
        /\ Me!Here.at \in Bottom <=> Len(stack) = 1
    BY Top DEF ClientInv
  <1>2. stack' = IF Me!Here.at = "greet_list" THEN Me!Goto("main")
                 ELSE IF Me!Here.at = "exit" THEN <<Me!Frame("done", 0)>>
                 ELSE Me!Below
    BY DEF Ends, Me!Finished, Me!At, Me!NoRoom
  <1>3. CASE Me!Here.at = "greet_list"
    <2> DEFINE f == Me!Frame("main", 0)
    <2>1. f \in Frames /\ f.at = "main" /\ f.at \in Bottom /\ f.at \notin Owing
      BY PacketTypes DEF Waits, Typed, Bottom, Owing, Leaving
    <2>2. stack' = Replaced(stack, f)
      BY <1>2, <1>3, Stacks
    <2> HIDE DEF f
    <2>3. Me!Here.at \in Bottom
      BY <1>3 DEF Bottom
    <2>4. /\ StackOK(stack)' /\ Me!Here' = f /\ stack'[1] = f
          /\ Waiting' = Waiting /\ \A n \in Waiting : stack'[n] = stack[n] /\ (Nested' => Nested)
      BY <2>1, <2>2, <2>3, Swapped
    <2>4a. Nested' => Nested
      BY <2>1, <2>2, <2>3, Swapped
    <2>5. Len(stack) \notin Waiting
      BY <1>1, <1>3 DEF Waiting, Owing, Leaving
    <2> QED
      BY <1>3, <2>1, <2>4, <2>4a, <2>5 DEF Events, Early
  <1>4. CASE Me!Here.at = "exit"
    <2> DEFINE f == Me!Frame("done", 0)
    <2>1. f \in Frames /\ f.at = "done"
      BY PacketTypes DEF Waits, Typed
    <2>2. stack' = <<f>>
      BY <1>2, <1>4
    <2>3. stack' \in Seq(Frames) /\ Len(stack') = 1 /\ stack' # <<>> /\ DOMAIN stack' = {1}
          /\ stack'[1] = f
      BY <2>1, <2>2
    <2> HIDE DEF f
    <2>4. StackOK(stack)'
      BY <2>1, <2>3 DEF StackOK, Bottom, Alone, Commands, Events
    <2>5. Waiting' = {} /\ ~Nested'
      BY <2>1, <2>3 DEF Waiting, Nested, Owing, Leaving, ServerWaits, Events
    <2> QED
      BY <1>4, <2>1, <2>3, <2>4, <2>5 DEF Me!Here, Events, Early, f
  <1>5. CASE Me!Here.at \notin {"greet_list", "exit"}
    <2>1. Me!Here.at \notin Bottom
      BY <1>5 DEF Me!AnswerLoop, Bottom, Alone, Early
    <2>2. stack' = Rest(stack)
      BY <1>2, <1>5, Stacks
    <2>3. /\ StackOK(stack)' /\ Me!Here'.at \notin Events /\ stack'[1] = stack[1]
          /\ Waiting' = Waiting \ {Len(stack)} /\ \A n \in Waiting' : stack'[n] = stack[n]
          /\ Nested' => Nested
      BY <2>1, <2>2, Popped
    <2>4. stack[1].at \notin Alone
      BY <1>1, <2>1 DEF StackOK
    <2>5. /\ Me!Here'.at \in Bottom => Me!Here' = stack'[1]
      <3>1. StackOK(stack')
        BY <2>3 DEF StackOK
      <3>2. Me!Here' = stack'[Len(stack')]
        BY DEF Me!Here
      <3> QED
        BY <3>1, <3>2, StackFacts
    <2>6. Me!Here'.at \notin Alone
      BY <2>3, <2>4, <2>5 DEF Bottom
    <2> QED
      BY <1>5, <2>3, <2>4, <2>6 DEF Alone
  <1> QED
    BY <1>3, <1>4, <1>5
LEMMA LoopAnsweredTypes ==
    ASSUME ClientInv, Me!LoopAnswered, UNCHANGED sealed
    PROVE  ClientInv' /\ Me!Here.at \in Me!AnswerLoop /\ Ends
  <1>1. /\ Me!Here.at \in Me!AnswerLoop /\ inbox # <<>> /\ inbox' = Tail(inbox) /\ Ends
        /\ creation_stage' = (creation_stage /\ ~Me!At("create"))
        /\ \/ Me!ForgetRoom
           \/ /\ room_id' = (IF Me!At("join") THEN Me!JoinedRoom(Head(inbox).header) ELSE room_id)
              /\ UNCHANGED <<roster, missed, in_game, link, fromGame, toGame, left_early>>
        /\ UNCHANGED <<Me!Identity, server_peer, server, outbox, typed, gave_up, gone, crossed>>
    BY DEF Me!LoopAnswered, Ends
  <1>2. /\ StackOK(stack)' /\ Me!Here'.at \notin Events \cup Early /\ stack'[1].at \notin Early
    BY <1>1, EndsTypes
  <1>3. inbox' \in Seq(FromLobby) /\ Me!Here.room \in Typed
    BY <1>1, TailFacts, Top DEF ClientInv, Valued
  <1>4. link # "connecting" /\ link \in {"free", "up"} /\ server_peer \in {"null", "slot"}
        /\ (link # "up" => toGame = <<>> /\ fromGame = <<>>)
        /\ fromGame \in Seq(FromServer) /\ toGame \in Seq(ToServer)
    BY <1>1 DEF ClientInv, Valued, LinkOK, Me!At, Me!AnswerLoop
  <1>5. /\ link' \in {"free", "up"} /\ (link' # "up" => toGame' = <<>> /\ fromGame' = <<>>)
        /\ fromGame' \in Seq(FromServer) /\ toGame' \in Seq(ToServer)
        /\ in_game' \in BOOLEAN /\ left_early' \in BOOLEAN
        /\ room_id' \in Typed /\ roster' \subseteq Ids
    <2>1. CASE Me!ForgetRoom
      <3>1. in_game \in BOOLEAN /\ left_early \in BOOLEAN
        BY DEF ClientInv, Valued
      <3> QED
        BY <1>4, <2>1, <3>1, NoneType DEF Me!ForgetRoom, Me!NoRoom, Typed
    <2>2. CASE /\ room_id' = (IF Me!At("join") THEN Me!JoinedRoom(Head(inbox).header) ELSE room_id)
               /\ UNCHANGED <<roster, missed, in_game, link, fromGame, toGame, left_early>>
      <3>1. room_id' \in Typed
        BY <1>3, <2>2 DEF Me!JoinedRoom, ClientInv, Valued
      <3> QED
        BY <1>4, <2>2, <3>1 DEF ClientInv, Valued
    <2> QED
      BY <1>1, <2>1, <2>2
  <1>6. LinkOK'
    BY <1>1, <1>2, <1>4, <1>5 DEF LinkOK, Me!At, Events
  <1>7. creation_stage' \in BOOLEAN
    BY <1>1
  <1>8. Valued'
    BY <1>1, <1>3, <1>5, <1>7 DEF ClientInv, Valued, Me!Identity
  <1> QED
    BY <1>1, <1>2, <1>6, <1>8 DEF ClientInv

\* The end of a wait that leaves the rest to the connection.
LEMMA QuietEndTypes ==
    ASSUME ClientInv, Me!Here.at \in Me!AnswerLoop, Ends, UNCHANGED <<server_peer, fromGame, toGame, link>>
    PROVE  StackOK(stack)' /\ LinkOK'
  <1>1. /\ StackOK(stack)' /\ Me!Here'.at \notin Events \cup Early /\ stack'[1].at \notin Early
    BY EndsTypes
  <1>2. link # "connecting"
    BY DEF ClientInv, LinkOK, Me!At, Me!AnswerLoop
  <1> QED
    BY <1>1, <1>2 DEF ClientInv, LinkOK, Me!At, Events

LEMMA LoopGivesUpTypes ==
    ASSUME ClientInv, Me!LoopGivesUp, UNCHANGED sealed
    PROVE  ClientInv' /\ Me!Here.at \in Me!AnswerLoop /\ Ends
  <1>1. /\ Me!Here.at \in Me!AnswerLoop /\ Ends
        /\ creation_stage' = (creation_stage /\ ~Me!At("create"))
        /\ gave_up' = (gave_up \/ Me!Unanswered)
        /\ UNCHANGED <<Me!Identity, Me!Place, Me!GameLink, inbox, outbox, fromGame, toGame, typed,
                       missed, left_early, gone, crossed>>
    BY DEF Me!LoopGivesUp, Ends
  <1>2. StackOK(stack)' /\ LinkOK'
    BY <1>1, QuietEndTypes DEF Me!GameLink
  <1>3. creation_stage' \in BOOLEAN /\ gave_up' \in BOOLEAN
    BY <1>1
  <1>4. Valued'
    BY <1>1, <1>3 DEF ClientInv, Valued, Me!Identity, Me!Place, Me!GameLink
  <1> QED
    BY <1>1, <1>2, <1>4 DEF ClientInv

\* A step of the greeting.
LEMMA GreetTypes ==
    ASSUME ClientInv, NEW w, stack' = Me!Goto(w), w \in Bottom \ {"greet_connect"}, Me!Here.at \in Bottom,
           link = "free" \/ w \notin Early,
           UNCHANGED <<server_peer, link, fromGame, toGame>>
    PROVE  /\ StackOK(stack)' /\ LinkOK' /\ Me!Here' = Me!Frame(w, 0) /\ stack'[1] = Me!Here'
           /\ Waiting' = Waiting /\ (\A n \in Waiting : stack'[n] = stack[n])
           /\ Nested' => Nested
  <1> DEFINE f == Me!Frame(w, 0)
  <1>1. f \in Frames /\ f.at = w /\ w \notin Owing
    BY PacketTypes DEF Bottom, Alone, Early, Waits, Typed, Owing, Leaving
  <1>2. stack' = Replaced(stack, f)
    BY Stacks
  <1> HIDE DEF f
  <1>3. /\ StackOK(stack)' /\ Me!Here' = f /\ stack'[1] = f
        /\ Waiting' = Waiting /\ (\A n \in Waiting : stack'[n] = stack[n])
        /\ Nested' => Nested
    BY <1>1, <1>2, Swapped
  <1>4. w \notin Events /\ link # "connecting"
    BY DEF Bottom, Alone, Early, Events, ClientInv, LinkOK, Me!At
  <1>5. LinkOK'
    BY <1>1, <1>3, <1>4 DEF ClientInv, LinkOK, Me!At, Events
  <1> QED
    BY <1>3, <1>5 DEF f

LEMMA GreetConnectedTypes ==
    ASSUME ClientInv, Me!GreetConnected, UNCHANGED sealed
    PROVE  ClientInv' /\ stack[1].at \in Early
  <1>1. /\ Me!Here.at = "greet_connect"
        /\ \/ stack' = Me!Goto("greet_key") /\ UNCHANGED lobby_link
           \/ stack' = Me!Goto("main") /\ lobby_link' = FALSE
        /\ UNCHANGED <<Me!Place, Me!GameLink, fromGame, toGame, Me!Typing, Me!History>>
        /\ UNCHANGED <<keyed, sealed, my_id, inbox, outbox, missed>>
    BY DEF Me!GreetConnected, Me!GreetKeeps, Me!At
  <1>2. Me!Here.at \in Bottom /\ stack[1].at \in Early /\ link = "free"
    BY <1>1, Top DEF Bottom, Alone, Early, ClientInv, LinkOK
  <1>3. "greet_key" \in Bottom \ {"greet_connect"} /\ "main" \in Bottom \ {"greet_connect"}
    BY DEF Bottom, Alone, Early
  <1>4. StackOK(stack)' /\ LinkOK'
    BY <1>1, <1>2, <1>3, GreetTypes DEF Me!GameLink
  <1>5. Valued'
    BY <1>1 DEF ClientInv, Valued, Me!Place, Me!GameLink, Me!Typing, Me!History
  <1> QED
    BY <1>2, <1>4, <1>5 DEF ClientInv

LEMMA GreetKeyTypes ==
    ASSUME ClientInv, Me!GreetKey, UNCHANGED sealed
    PROVE  ClientInv' /\ stack[1].at \in Early
  <1>1. /\ Me!Here.at = "greet_key" /\ stack' = Me!Goto("greet_id")
        /\ \/ /\ inbox # <<>> /\ inbox' = Tail(inbox)
              /\ keyed' = (Head(inbox).header = "Key")
           \/ UNCHANGED <<inbox, keyed>>
        /\ UNCHANGED <<Me!Place, Me!GameLink, fromGame, toGame, Me!Typing, Me!History>>
        /\ UNCHANGED <<lobby_link, sealed, my_id, outbox, missed>>
    BY DEF Me!GreetKey, Me!GreetKeeps, Me!At
  <1>2. Me!Here.at \in Bottom /\ stack[1].at \in Early /\ link = "free"
    BY <1>1, Top DEF Bottom, Alone, Early, ClientInv, LinkOK
  <1>3. "greet_id" \in Bottom \ {"greet_connect"}
    BY DEF Bottom, Alone, Early
  <1>4. StackOK(stack)' /\ LinkOK'
    BY <1>1, <1>2, <1>3, GreetTypes DEF Me!GameLink
  <1>5. inbox' \in Seq(FromLobby) /\ keyed' \in BOOLEAN
    BY <1>1, TailFacts DEF ClientInv, Valued
  <1>6. Valued'
    BY <1>1, <1>5 DEF ClientInv, Valued, Me!Place, Me!GameLink, Me!Typing, Me!History
  <1> QED
    BY <1>2, <1>4, <1>6 DEF ClientInv

LEMMA GreetIdTypes ==
    ASSUME ClientInv, Me!GreetId, UNCHANGED sealed
    PROVE  /\ ClientInv' /\ stack[1].at \in Early
           /\ my_id' \in Ids /\ outbox' = Me!Sent(Me!Introduction(my_id'))
  <1>1. /\ Me!Here.at = "greet_id" /\ stack' = Me!Goto("greet_list")
        /\ \/ /\ inbox # <<>> /\ inbox' = Tail(inbox)
              /\ my_id' = IF ~Me!Deaf /\ Head(inbox).header = "ClientId" THEN Head(inbox).id
                          ELSE my_id
           \/ UNCHANGED <<inbox, my_id>>
        /\ outbox' = Me!Sent(Me!Introduction(my_id'))
        /\ UNCHANGED <<Me!Place, Me!GameLink, fromGame, toGame, Me!Typing, Me!History>>
        /\ UNCHANGED <<lobby_link, keyed, sealed, missed>>
    BY DEF Me!GreetId, Me!GreetKeeps, Me!At
  <1>2. Me!Here.at \in Bottom /\ stack[1].at \in Early /\ link = "free"
    BY <1>1, Top DEF Bottom, Alone, Early, ClientInv, LinkOK
  <1>3. "greet_list" \in Bottom \ {"greet_connect"}
    BY DEF Bottom, Alone, Early
  <1>4. StackOK(stack)' /\ LinkOK'
    BY <1>1, <1>2, <1>3, GreetTypes DEF Me!GameLink
  <1>5. inbox' \in Seq(FromLobby) /\ my_id' \in Ids
    <2>1. inbox \in Seq(FromLobby) /\ my_id \in Ids
      BY DEF ClientInv, Valued
    <2>2. CASE inbox # <<>> /\ inbox' = Tail(inbox)
               /\ my_id' = IF ~Me!Deaf /\ Head(inbox).header = "ClientId" THEN Head(inbox).id
                           ELSE my_id
      <3>1. Head(inbox) \in FromLobby /\ inbox' \in Seq(FromLobby)
        BY <2>1, <2>2, TailFacts
      <3>2. Head(inbox).header = "ClientId" => Head(inbox).id \in Ids
        BY <3>1, PacketFacts DEF Numbered
      <3> QED
        BY <2>1, <2>2, <3>1, <3>2
    <2> QED
      BY <1>1, <2>1, <2>2
  <1>6. PICK i \in Ids : i = my_id'
    BY <1>5
  <1>7. Me!Introduction(i) \in ToLobby /\ outbox' = Me!Sent(Me!Introduction(i))
    BY <1>1, <1>6, PacketTypes
  <1>8. outbox' \in Seq(ToLobby)
    BY <1>7, SentType
  <1>9. Valued'
    BY <1>1, <1>5, <1>8 DEF ClientInv, Valued, Me!Place, Me!GameLink, Me!Typing, Me!History
  <1> QED
    BY <1>1, <1>2, <1>4, <1>5, <1>9 DEF ClientInv
LEMMA ServerConnectedTypes ==
    ASSUME ClientInv, Me!ServerConnected, UNCHANGED sealed
    PROVE  /\ ClientInv' /\ Waiting' = Waiting /\ (\A n \in Waiting : stack'[n] = stack[n])
           /\ Nested' => Nested
           /\ Nested /\ stack'[1] = stack[1] /\ Me!Here'.at = "srv_key"
  <1>1. /\ Me!Here.at = "srv_connect" /\ stack' = Me!Goto("srv_key")
        /\ link' = "up" /\ fromGame' = <<[header |-> "Key"]>>
        /\ UNCHANGED <<Me!Identity, Me!Place, in_game, server_peer, server, toGame, inbox, outbox,
                       Me!Typing, missed, Me!History>>
    BY DEF Me!ServerConnected, Me!At
  <1> DEFINE f == Me!Frame("srv_key", 0)
  <1>2. f \in Frames /\ f.at = "srv_key" /\ f.at \notin Owing
    BY PacketTypes DEF Waits, Typed, Owing, Leaving
  <1>3. stack' = Replaced(stack, f)
    BY <1>1, Stacks
  <1> HIDE DEF f
  <1>4. Me!Here.at \in Events /\ f.at \in ServerWaits /\ Me!Here.at \notin Bottom
    BY <1>1, <1>2 DEF Events, ServerWaits, Bottom, Alone, Early
  <1>5. /\ StackOK(stack)' /\ Me!Here' = f /\ stack'[1] = stack[1]
        /\ Waiting' = Waiting /\ (\A n \in Waiting : stack'[n] = stack[n])
        /\ Nested' => Nested
    BY <1>2, <1>3, <1>4, Swapped
  <1>6. stack[1].at \notin Early /\ Nested
    <2>1. Len(stack) # 1 /\ Len(stack) \in DOMAIN stack /\ Me!Here = stack[Len(stack)]
      BY <1>4, Top
    <2> QED
      BY <1>4, <2>1 DEF ClientInv, StackOK, Alone, Nested, ServerWaits
  <1>7. fromGame' \in Seq(FromServer)
    BY <1>1 DEF FromServer
  <1>8. LinkOK'
    BY <1>1, <1>2, <1>5, <1>6 DEF ClientInv, LinkOK, Me!At
  <1>9. Valued'
    BY <1>1, <1>7 DEF ClientInv, Valued, Me!Identity, Me!Place, Me!Typing, Me!History
  <1> QED
    BY <1>2, <1>5, <1>6, <1>8, <1>9 DEF ClientInv

LEMMA ServerRefusedTypes ==
    ASSUME ClientInv, Me!ServerRefused, UNCHANGED sealed
    PROVE  /\ ClientInv' /\ Waiting' = Waiting \cup {Len(stack)}
           /\ (\A n \in Waiting : stack'[n] = stack[n])
           /\ stack'[Len(stack)] = Me!Frame("srv_leave", 0)
           /\ Nested /\ stack'[1] = stack[1] /\ Me!Here'.at = "srv_leave"
  <1>1. /\ Me!Here.at = "srv_connect" /\ stack' = Me!Goto("srv_leave")
        /\ link' = "free"
        /\ \/ inbox # <<>> /\ inbox' = Tail(inbox)
           \/ UNCHANGED inbox
        /\ outbox' = Me!Sent(Me!Request("DisconnectRoom", room_id))
        /\ crossed' = (crossed \/ Me!Unanswered)
        /\ UNCHANGED <<Me!Identity, Me!Place, in_game, server_peer, server, fromGame, toGame,
                       Me!Typing, gave_up, left_early, gone>>
    BY DEF Me!ServerRefused, Me!At, Me!Abandoned
  <1> DEFINE f == Me!Frame("srv_leave", 0)
  <1>2. f \in Frames /\ f.at = "srv_leave" /\ f.at \in Owing
    BY PacketTypes DEF Waits, Typed, Owing, Leaving
  <1>3. stack' = Replaced(stack, f)
    BY <1>1, Stacks
  <1> HIDE DEF f
  <1>4. Me!Here.at \in Events /\ f.at \in ServerWaits /\ Me!Here.at \notin Bottom
    BY <1>1, <1>2 DEF Events, ServerWaits, Bottom, Alone, Early
  <1>5. /\ StackOK(stack)' /\ Me!Here' = f /\ stack'[1] = stack[1]
        /\ Waiting' = Waiting \cup {Len(stack)} /\ (\A n \in Waiting : stack'[n] = stack[n])
        /\ stack'[Len(stack)] = f
    BY <1>2, <1>3, <1>4, Swapped
  <1>6. stack[1].at \notin Early /\ Nested
    <2>1. Len(stack) # 1 /\ Len(stack) \in DOMAIN stack /\ Me!Here = stack[Len(stack)]
      BY <1>4, Top
    <2> QED
      BY <1>4, <2>1 DEF ClientInv, StackOK, Alone, Nested, ServerWaits
  <1>7. inbox' \in Seq(FromLobby)
    BY <1>1, TailFacts DEF ClientInv, Valued
  <1>8. outbox' \in Seq(ToLobby)
    <2>1. PICK packet : packet = Me!Request("DisconnectRoom", room_id)
      OBVIOUS
    <2>2. packet \in ToLobby
      <3>1. room_id \in Typed
        BY DEF ClientInv, Valued
      <3> QED
        BY <2>1, <3>1, PacketTypes DEF Asked
    <2>3. outbox' = Me!Sent(packet)
      BY <1>1, <2>1
    <2> QED
      BY <2>2, <2>3, SentType
  <1>9. link = "connecting"
    BY <1>1 DEF ClientInv, LinkOK, Me!At
  <1>10. LinkOK'
    BY <1>1, <1>2, <1>5, <1>6, <1>9 DEF ClientInv, LinkOK, Me!At
  <1>11. crossed' \in BOOLEAN
    BY <1>1
  <1>12. Valued'
    BY <1>1, <1>7, <1>8, <1>11 DEF ClientInv, Valued, Me!Identity, Me!Place, Me!Typing
  <1> QED
    BY <1>2, <1>5, <1>6, <1>10, <1>12 DEF ClientInv, f

\* A wait for one event ends with nothing to wait for.
LEMMA EventEnds ==
    ASSUME ClientInv, Me!Here.at \in Events, stack' = Me!Below
    PROVE  /\ StackOK(stack)' /\ Me!Here'.at \notin Events \cup Alone /\ stack'[1] = stack[1]
           /\ Waiting' = Waiting /\ (\A n \in Waiting : stack'[n] = stack[n])
           /\ Nested' => Nested
           /\ Nested /\ stack[1].at \notin Early
  <1>1. Me!Here.at \notin Bottom /\ Me!Here.at \notin Owing
    BY DEF Events, Bottom, Alone, Early, Owing, Leaving
  <1>2. /\ StackOK(stack)' /\ Me!Here'.at \notin Events /\ stack'[1] = stack[1]
        /\ Waiting' = Waiting \ {Len(stack)} /\ \A n \in Waiting' : stack'[n] = stack[n]
        /\ Nested' => Nested
    BY <1>1, Stacks, Popped
  <1>3. Len(stack) \notin Waiting /\ Len(stack) # 1 /\ Len(stack) \in DOMAIN stack /\ Me!Here = stack[Len(stack)]
    BY <1>1, Top DEF Waiting
  <1>4. stack[1].at \notin Alone /\ Nested
    BY <1>3 DEF ClientInv, StackOK, Alone, Nested, ServerWaits
  <1>5. Me!Here'.at \in Bottom => Me!Here' = stack'[1]
    <2>1. StackOK(stack')
      BY <1>2 DEF StackOK
    <2>2. Me!Here' = stack'[Len(stack')]
      BY DEF Me!Here
    <2> QED
      BY <2>1, <2>2, StackFacts
  <1> QED
    BY <1>2, <1>3, <1>4, <1>5 DEF Alone, Bottom

LEMMA ServerKeyTypes ==
    ASSUME ClientInv, Me!ServerKey, UNCHANGED sealed
    PROVE  ClientInv' /\ Me!Here.at \in Events /\ stack' = Me!Below
  <1>1. /\ Me!Here.at = "srv_key" /\ stack' = Me!Below
        /\ \/ Me!NextFromGame
           \/ Me!NextFromLobby
           \/ UNCHANGED <<inbox, fromGame>>
        /\ toGame' = IF link = "up" THEN Append(toGame, Me!ToGameServer) ELSE toGame
        /\ crossed' = (crossed \/ Me!Unanswered)
        /\ UNCHANGED <<Me!Identity, Me!Place, Me!GameLink, outbox, Me!Typing, gave_up, left_early, gone>>
    BY DEF Me!ServerKey, Me!At
  <1>2. Me!Here.at \in Events
    BY <1>1 DEF Events
  <1>3. /\ StackOK(stack)' /\ Me!Here'.at \notin Events /\ stack'[1] = stack[1]
        /\ stack[1].at \notin Early
    BY <1>1, <1>2, EventEnds
  <1>4. inbox' \in Seq(FromLobby) /\ fromGame' \in Seq(FromServer)
    <2>1. inbox \in Seq(FromLobby) /\ fromGame \in Seq(FromServer)
      BY DEF ClientInv, Valued
    <2> QED
      BY <1>1, <2>1, NextPacket
  <1>5. link = "up" /\ toGame' \in Seq(ToServer)
    <2>1. link = "up" /\ toGame \in Seq(ToServer) /\ Me!ToGameServer \in ToServer
      BY <1>1 DEF ClientInv, Valued, LinkOK, Me!At, Me!ToGameServer, ToServer
    <2> QED
      BY <1>1, <2>1, AppendFacts
  <1>6. LinkOK'
    BY <1>1, <1>3, <1>5 DEF ClientInv, LinkOK, Me!At, Me!GameLink, Events
  <1>7. crossed' \in BOOLEAN
    BY <1>1
  <1>8. Valued'
    BY <1>1, <1>4, <1>5, <1>7 DEF ClientInv, Valued, Me!Identity, Me!Place, Me!GameLink, Me!Typing
  <1> QED
    BY <1>1, <1>2, <1>3, <1>6, <1>8 DEF ClientInv

LEMMA ServerGoneTypes ==
    ASSUME ClientInv, Me!ServerGone, UNCHANGED sealed
    PROVE  /\ ClientInv'
           /\ \/ Me!Here.at \in Events /\ stack' = Me!Below
              \/ Me!Here.at = "main" /\ UNCHANGED stack
              \/ Me!Here.at \in Me!AnswerLoop /\ Ends
  <1>1. /\ link = "up" /\ Me!Here.at # "done" /\ link' = "free" /\ fromGame' = <<>> /\ gone' = TRUE
        /\ IF Me!Here.at = "srv_key" THEN stack' = Me!Below ELSE
           IF Me!Here.at = "main" THEN UNCHANGED stack ELSE Ends
        /\ creation_stage' = (creation_stage /\ ~Me!At("create"))
        /\ gave_up' = (gave_up \/ (Me!Here.at \in Me!AnswerLoop /\ Me!Unanswered))
        /\ toGame' = <<>>
        /\ UNCHANGED <<Me!Identity, Me!Place, in_game, server_peer, server, inbox, outbox, typed,
                       missed, left_early, crossed>>
    BY DEF Me!ServerGone, Me!At, Ends
  <1>2. stack[1].at \notin Early /\ Me!Here.at # "srv_connect"
    BY <1>1 DEF ClientInv, LinkOK, Me!At
  <1>3. Me!Here.at \notin {"srv_key", "main"} => Me!Here.at \in Me!AnswerLoop
    <2>1. Me!Here.at \notin Early
      BY <1>2, Top DEF Bottom, Alone
    <2> QED
      BY <1>1, <1>2, <2>1, Top DEF Waits, Early, Me!AnswerLoop
  <1>4. StackOK(stack)' /\ Me!Here'.at \notin Events /\ stack'[1].at \notin Early
    <2>1. CASE Me!Here.at = "srv_key"
      <3>1. Me!Here.at \in Events /\ stack' = Me!Below
        BY <1>1, <2>1 DEF Events
      <3> QED
        BY <3>1, EventEnds
    <2>2. CASE Me!Here.at = "main"
      BY <1>1, <1>2, <2>2, Kept DEF Events
    <2>3. CASE Me!Here.at \notin {"srv_key", "main"}
      BY <1>1, <1>3, <2>3, EndsTypes
    <2> QED
      BY <2>1, <2>2, <2>3
  <1>5. fromGame' \in Seq(FromServer) /\ toGame' \in Seq(ToServer)
    BY <1>1, NoneType
  <1>6. LinkOK'
    BY <1>1, <1>4 DEF ClientInv, LinkOK, Me!At, Events
  <1>7. creation_stage' \in BOOLEAN /\ gave_up' \in BOOLEAN /\ gone' \in BOOLEAN
    BY <1>1
  <1>8. Valued'
    BY <1>1, <1>5, <1>7 DEF ClientInv, Valued, Me!Identity, Me!Place
  <1> QED
    BY <1>1, <1>3, <1>4, <1>6, <1>8 DEF ClientInv, Events

LEMMA ServerGreetsTypes ==
    ASSUME ClientInv, Me!ServerGreets, UNCHANGED sealed
    PROVE  ClientInv'
  <1>1. /\ toGame # <<>> /\ toGame' = Tail(toGame)
        /\ fromGame' = Append(fromGame, [header |-> "GameInfo"])
        /\ UNCHANGED <<stack, Me!Identity, Me!Place, Me!GameLink, inbox, outbox, Me!Typing, missed, Me!History>>
    BY DEF Me!ServerGreets
  <1>2. StackOK(stack)' /\ Me!Here' = Me!Here
    BY <1>1, Kept
  <1>3. link = "up"
    BY <1>1 DEF ClientInv, LinkOK
  <1>4. fromGame' \in Seq(FromServer) /\ toGame' \in Seq(ToServer)
    <2>1. [header |-> "GameInfo"] \in FromServer
      BY DEF FromServer
    <2> QED
      BY <1>1, <2>1, AppendFacts, TailFacts DEF ClientInv, Valued
  <1>5. LinkOK'
    BY <1>1, <1>2, <1>3 DEF ClientInv, LinkOK, Me!At, Me!GameLink
  <1>6. Valued'
    BY <1>1, <1>4 DEF ClientInv, Valued, Me!Identity, Me!Place, Me!GameLink, Me!Typing, Me!History
  <1> QED
    BY <1>2, <1>5, <1>6 DEF ClientInv

\* A command that waits for an answer, and what it asks.
Commanded(w, packet, r) ==
    /\ Me!Here.at = "main" /\ w \in Commands /\ r \in Typed
    /\ stack' = Append(stack, Me!Frame(w, r)) /\ outbox' = Me!Sent(packet)
    /\ packet \in ToLobby
    /\ \/ w = "create" /\ packet = Me!Request("NewRoomInfo", 0)
       \/ w = "rooms" /\ packet = Me!Request("RoomList", 0)
       \/ w = "join" /\ packet = Me!Request("ConnectRoom", r) /\ room_id = 0
       \/ w \in {"leave", "exit"} /\ packet = Me!Request("DisconnectRoom", room_id)

LEMMA TypedCases ==
    ASSUME ClientInv, Me!TypeRoom \/ Me!TypeRooms \/ Me!TypeConnect \/ Me!TypeDisconnect \/ Me!TypeExit
    PROVE  /\ Me!Line
           /\ \/ \E w, packet, r : Commanded(w, packet, r)
              \/ stack' = Me!Goto("done") /\ UNCHANGED outbox
  <1>1. 0 \in Typed /\ room_id \in Typed /\ Typable \subseteq Typed
    BY DEF ClientInv, Valued, Typed
  <1>2. /\ \A h \in Asked \cup {"RoomList"}, r \in Typed : Me!Request(h, r) \in ToLobby
        /\ \A w, r : Me!Call(w, r) = Append(stack, Me!Frame(w, r))
    BY PacketTypes, Stacks
  <1>3. Me!Line => Me!Here.at = "main"
    BY DEF Me!Line, Me!At
  <1>4. CASE Me!TypeRoom
    <2>1. Commanded("create", Me!Request("NewRoomInfo", 0), 0)
      BY <1>1, <1>2, <1>3, <1>4 DEF Me!TypeRoom, Me!Ask, Commanded, Commands, Asked, Me!NoRoom
    <2> QED
      BY <1>4, <2>1 DEF Me!TypeRoom
  <1>5. CASE Me!TypeRooms
    <2>1. Commanded("rooms", Me!Request("RoomList", 0), 0)
      BY <1>1, <1>2, <1>3, <1>5 DEF Me!TypeRooms, Me!Ask, Commanded, Commands, Asked, Me!NoRoom
    <2> QED
      BY <1>5, <2>1 DEF Me!TypeRooms
  <1>6. CASE Me!TypeConnect
    <2>1. PICK r \in Typable : Me!Ask("join", Me!Request("ConnectRoom", r), r)
      BY <1>6 DEF Me!TypeConnect
    <2>2. Commanded("join", Me!Request("ConnectRoom", r), r)
      BY <1>1, <1>2, <1>3, <1>6, <2>1 DEF Me!TypeConnect, Me!Ask, Commanded, Commands, Asked, Me!NoRoom
    <2> QED
      BY <1>6, <2>2 DEF Me!TypeConnect
  <1>7. CASE Me!TypeDisconnect
    <2>1. PICK i \in Typed : i = room_id
      BY <1>1
    <2>2. Commanded("leave", Me!Request("DisconnectRoom", i), 0)
      BY <1>1, <1>2, <1>3, <1>7, <2>1 DEF Me!TypeDisconnect, Me!Ask, Commanded, Commands, Asked, Me!NoRoom
    <2> QED
      BY <1>7, <2>2 DEF Me!TypeDisconnect
  <1>8. CASE Me!TypeExit
    <2>1. PICK i \in Typed : i = room_id
      BY <1>1
    <2>2. CASE Me!Ask("exit", Me!Request("DisconnectRoom", room_id), Me!NoRoom)
      <3>1. Commanded("exit", Me!Request("DisconnectRoom", i), 0)
        BY <1>1, <1>2, <1>3, <1>8, <2>1, <2>2 DEF Me!TypeExit, Me!Ask, Commanded, Commands, Asked, Me!NoRoom
      <3> QED
        BY <1>8, <3>1 DEF Me!TypeExit
    <2> QED
      BY <1>8, <2>2 DEF Me!TypeExit
  <1> QED
    BY <1>4, <1>5, <1>6, <1>7, <1>8

LEMMA CommandedTypes ==
    ASSUME ClientInv, NEW w, NEW packet, NEW r, Commanded(w, packet, r)
    PROVE  /\ StackOK(stack)' /\ Me!Here' = Me!Frame(w, r) /\ stack'[1] = stack[1]
           /\ Waiting' = (IF w \in Owing THEN Waiting \cup {Len(stack) + 1} ELSE Waiting)
           /\ (\A n \in Waiting : stack'[n] = stack[n]) /\ stack'[Len(stack) + 1] = Me!Frame(w, r)
           /\ Nested' => Nested
           /\ outbox' \in Seq(ToLobby)
           /\ Me!Frame(w, r).at = w /\ Me!Frame(w, r).room = r
  <1> DEFINE f == Me!Frame(w, r)
  <1>1. f \in Frames /\ f.at = w /\ f.room = r /\ w \in Commands
    BY PacketTypes DEF Commanded, Commands, Waits
  <1>2. stack' = Append(stack, f) /\ Me!Here.at = "main"
    BY DEF Commanded
  <1>3. w \notin ServerWaits
    BY <1>1 DEF Commands, ServerWaits, Events
  <1>4. outbox' \in Seq(ToLobby)
    BY SentType DEF Commanded
  <1> HIDE DEF f
  <1>5. /\ StackOK(stack)' /\ Me!Here' = f /\ stack'[1] = stack[1]
        /\ Waiting' = (IF f.at \in Owing THEN Waiting \cup {Len(stack) + 1} ELSE Waiting)
        /\ (\A n \in Waiting : stack'[n] = stack[n]) /\ stack'[Len(stack) + 1] = f
        /\ Nested' => Nested \/ f.at \in ServerWaits
    BY <1>1, <1>2, Pushed
  <1> QED
    BY <1>1, <1>3, <1>4, <1>5 DEF f

\* The main loop ends.
LEMMA QuitsTypes ==
    ASSUME ClientInv, Me!Here.at = "main", stack' = Me!Goto("done"),
           UNCHANGED <<server_peer, link, fromGame, toGame>>
    PROVE  StackOK(stack)' /\ LinkOK' /\ Me!Here'.at = "done"
  <1>1. "done" \in Bottom \ {"greet_connect"} /\ Me!Here.at \in Bottom /\ "done" \notin Early
    BY DEF Bottom, Alone, Early
  <1>2. StackOK(stack)' /\ LinkOK' /\ Me!Here' = Me!Frame("done", 0)
    BY <1>1, GreetTypes
  <1> QED
    BY <1>2 DEF Me!Frame

LEMMA LineTypes ==
    ASSUME ClientInv, UNCHANGED sealed,
           Me!TypeRoom \/ Me!TypeRooms \/ Me!TypeConnect \/ Me!TypeDisconnect \/ Me!TypeExit
    PROVE  ClientInv'
  <1>1. /\ Me!Here.at = "main"
        /\ UNCHANGED <<Me!Identity, Me!Place, Me!GameLink, inbox, fromGame, toGame, creation_stage,
                       missed, Me!History>>
        /\ \/ \E w, packet, r : Commanded(w, packet, r)
           \/ stack' = Me!Goto("done") /\ UNCHANGED outbox
    BY TypedCases DEF Me!Line, Me!At
  <1>2. StackOK(stack)' /\ LinkOK' /\ outbox' \in Seq(ToLobby)
    <2>1. CASE \E w, packet, r : Commanded(w, packet, r)
      <3>1. PICK w, packet, r : Commanded(w, packet, r)
        BY <2>1
      <3>2. /\ StackOK(stack)' /\ Me!Here' = Me!Frame(w, r) /\ stack'[1] = stack[1]
            /\ outbox' \in Seq(ToLobby) /\ Me!Frame(w, r).at = w
        BY <3>1, CommandedTypes
      <3>3. w \notin Events
        BY <3>1 DEF Commanded, Commands, Events
      <3>4. LinkOK'
        BY <1>1, <3>2, <3>3 DEF ClientInv, LinkOK, Me!At, Me!GameLink, Events
      <3> QED
        BY <3>2, <3>4
    <2>2. CASE stack' = Me!Goto("done") /\ UNCHANGED outbox
      BY <1>1, <2>2, QuitsTypes DEF Me!GameLink, ClientInv, Valued
    <2> QED
      BY <1>1, <2>1, <2>2
  <1>3. Valued'
    BY <1>1, <1>2 DEF ClientInv, Valued, Me!Identity, Me!Place, Me!GameLink, Me!History
  <1> QED
    BY <1>2, <1>3 DEF ClientInv

LEMMA QuietTypes ==
    ASSUME ClientInv, Me!TypeCreate \/ Me!Terminated, UNCHANGED sealed
    PROVE  ClientInv'
  <1>1. /\ Me!Here.at = "main" /\ creation_stage' \in BOOLEAN
        /\ UNCHANGED <<Me!Identity, Me!Place, Me!GameLink, inbox, outbox, fromGame, toGame,
                       missed, Me!History>>
        /\ UNCHANGED stack \/ stack' = Me!Goto("done")
    BY DEF Me!TypeCreate, Me!Terminated, Me!At, Me!Typing, ClientInv, Valued
  <1>2. StackOK(stack)' /\ LinkOK'
    <2>1. CASE UNCHANGED stack
      BY <1>1, <2>1, Kept DEF ClientInv, LinkOK, Me!GameLink, Me!At
    <2>2. CASE stack' = Me!Goto("done")
      BY <1>1, <2>2, QuitsTypes DEF Me!GameLink
    <2> QED
      BY <1>1, <2>1, <2>2
  <1>3. Valued'
    BY <1>1 DEF ClientInv, Valued, Me!Identity, Me!Place, Me!GameLink, Me!History
  <1> QED
    BY <1>2, <1>3 DEF ClientInv

\* Every step of the client.
LEMMA ClientTypes ==
    ASSUME ClientInv, Me!ClientNext
    PROVE  ClientInv' /\ UNCHANGED sealed
  <1>1. UNCHANGED sealed
    BY DEF Me!ClientNext, Me!MainReads, Me!LoopAnswered, Me!LoopReads, Me!LoopGivesUp, Me!GreetConnected,
       Me!GreetKey, Me!GreetId, Me!ServerConnected, Me!ServerRefused, Me!ServerKey, Me!ServerGone,
       Me!ServerGreets, Me!Types, Me!TypeRoom, Me!TypeRooms, Me!TypeConnect, Me!TypeDisconnect,
       Me!TypeExit, Me!TypeCreate, Me!Line, Me!Terminated, Me!Identity
  <1> QED
    BY <1>1, MainReadsTypes, LoopAnsweredTypes, LoopReadsTypes, LoopGivesUpTypes, GreetConnectedTypes,
       GreetKeyTypes, GreetIdTypes, ServerConnectedTypes, ServerRefusedTypes, ServerKeyTypes,
       ServerGoneTypes, ServerGreetsTypes, LineTypes, QuietTypes DEF Me!ClientNext, Me!Types
-----------------------------------------------------------------------------
(***************************************************************************)
(* The lobby's steps that are about somebody else.                         *)
(***************************************************************************)
MyRooms == {r \in Rooms : me \in Members(r)}
TheirsInv == their_id \in [Others -> Ids]

\* What the members of a room are told unasked.
Reports == Talk \cup [header : {"ServerInfo"}, address : Seq(Nat)]

\* What a handler did if it was about somebody else.
Elsewhere ==
    /\ LobbyInv' /\ TheirsInv' /\ conn'[me] = conn[me] /\ MyRooms' = MyRooms
    /\ out'[me] \in Seq(Reports) /\ (MyRooms = {} => out'[me] = <<>>)
    /\ LobbyStep /\ UNCHANGED <<sealed, outbox>>

LEMMA PacketTexts ==
    /\ \A h \in {"ClientAbout", "DiscClientAbout"}, i \in Ids : About(h, i) \in Talk
    /\ \A a \in Seq(Nat) : ServerInfo(a) \in Reports
    /\ \A x \in Talk : x \in Reports
    /\ \A h \in Bare : Message(h) \in FromLobby
    /\ \A i \in Ids : About("ClientId", i) \in FromLobby
    /\ \A x \in Reports : x \in FromLobby
  <1>1. /\ \A h \in {"ClientAbout", "DiscClientAbout"}, i \in Ids : About(h, i) \in Talk
        /\ \A a \in Seq(Nat) : ServerInfo(a) \in Reports
        /\ \A x \in Talk : x \in Reports
    BY DEF About, ServerInfo, Talk, Reports
  <1>2. /\ \A h \in Bare : Message(h) \in FromLobby
        /\ \A i \in Ids : About("ClientId", i) \in FromLobby
    BY DEF Message, About, FromLobby, Numbered
  <1>3. \A x \in Reports : x \in FromLobby
    BY DEF Reports, Talk, FromLobby, Numbered
  <1> QED
    BY <1>1, <1>2, <1>3

LEMMA SingleType ==
    ASSUME NEW S, NEW x \in S
    PROVE  <<x>> \in Seq(S) /\ <<>> \in Seq(S) /\ Len(<<x>>) = 1 /\ <<x>>[1] = x
           /\ DOMAIN <<x>> = {1}
  OBVIOUS

LEMMA SameRooms ==
    ASSUME SameMembers
    PROVE  MyRooms' = MyRooms
  BY DEF SameMembers, MyRooms, Members

\* Rooms that keep me in or out.
LEMMA EditRooms ==
    ASSUME Rooms' = Rooms, \A r \in Rooms : me \in DOMAIN rooms'[r].clients <=> me \in Members(r)
    PROVE  MyRooms' = MyRooms
  BY DEF MyRooms, Members

LEMMA OtherFacts ==
    ASSUME NEW p \in Others
    PROVE  p \in Client /\ p \in Peer /\ p # me /\ p # AgentSlot
  BY Constants DEF Client

LEMMA ComesElsewhere ==
    ASSUME LobbyInv, TheirsInv, OtherComes
    PROVE  Elsewhere
  <1>1. PICK p \in Others :
          /\ \/ Connect(p) /\ their_id' = [their_id EXCEPT ![p] = id_counter]
             \/ BootClient(p) /\ UNCHANGED their_id
          /\ LobbyStep /\ UNCHANGED <<sealed, outbox>>
    BY DEF OtherComes, Moves
  <1>2. p \in Client /\ p \in Peer /\ p # me /\ UNCHANGED min_port /\ me \in Peer
    BY <1>1, OtherFacts, Constants DEF LobbyStep, agentSide, Client
  <1>3. LobbyInv' /\ SameMembers /\ out'[me] = <<>> /\ conn'[me] = conn[me]
    <2>1. CASE Connect(p)
      <3>1. LobbyInv' /\ SameMembers /\ out'[me] = <<>>
            /\ (conn' = [conn EXCEPT ![p] = "connected"] \/ UNCHANGED conn)
        BY <1>2, <2>1, ConnectEffect
      <3> QED
        BY <1>2, <3>1 DEF LobbyInv, Tabled
    <2>2. CASE BootClient(p)
      <3>1. LobbyInv' /\ SameMembers /\ out'[me] = <<>>
        BY <1>2, <2>2, BootEffect
      <3> QED
        BY <1>2, <2>2, <3>1 DEF BootClient, LobbyInv, Tabled
    <2> QED
      BY <1>1, <2>1, <2>2
  <1>4. TheirsInv'
    <2>1. id_counter \in Ids
      BY Constants DEF LobbyInv, Tabled, Ids
    <2> QED
      BY <1>1, <2>1 DEF TheirsInv, Others
  <1> QED
    BY <1>1, <1>3, <1>4, SameRooms, NoneType DEF Elsewhere

LEMMA IntroducesElsewhere ==
    ASSUME LobbyInv, TheirsInv, OtherIntroducesItself
    PROVE  Elsewhere
  <1>1. PICK p \in Others : ClientAbout(p, their_id[p])
    BY DEF OtherIntroducesItself
  <1>2. LobbyStep /\ UNCHANGED <<sealed, outbox, their_id>> /\ UNCHANGED min_port
    BY DEF OtherIntroducesItself, Moves, LobbyStep, agentSide
  <1>3. p \in Client /\ p \in Peer /\ p # me /\ me \in Peer /\ their_id[p] \in Ids
    BY OtherFacts, Constants DEF TheirsInv, Client
  <1>4. PICK i \in Ids : i = their_id[p]
    BY <1>3
  <1>5. ClientAbout(p, i)
    BY <1>1, <1>4 DEF ClientAbout
  <1>6. LobbyInv' /\ SameMembers /\ out'[me] = <<>> /\ conn' = [conn EXCEPT ![p] = "greeted"]
    BY <1>2, <1>3, <1>5, GreetEffect
  <1>7. conn'[me] = conn[me]
    BY <1>3, <1>6 DEF LobbyInv, Tabled
  <1> QED
    BY <1>2, <1>6, <1>7, SameRooms, NoneType DEF Elsewhere, TheirsInv, Others

LEMMA CreatesElsewhere ==
    ASSUME LobbyInv, TheirsInv, OtherCreatesRoom
    PROVE  Elsewhere
  <1>1. PICK p \in Others : \E max \in Capacity, s \in Settings : NewRoomInfo(p, max, s)
    BY DEF OtherCreatesRoom
  <1>2. LobbyStep /\ UNCHANGED <<sealed, outbox, their_id>> /\ UNCHANGED min_port
    BY DEF OtherCreatesRoom, Moves, LobbyStep, agentSide
  <1>3. p \in Client /\ p # me
    BY OtherFacts
  <1>4. LobbyInv' /\ SameMembers /\ out'[me] = <<>> /\ UNCHANGED conn
    BY <1>1, <1>2, <1>3, AnswerEffect
  <1> QED
    BY <1>2, <1>4, SameRooms, NoneType DEF Elsewhere, TheirsInv, Others

LEMMA JoinsElsewhere ==
    ASSUME LobbyInv, TheirsInv, OtherJoins
    PROVE  Elsewhere
  <1>1. PICK p \in Others, r \in Rooms : Join(p, r)
    BY DEF OtherJoins
  <1>2. LobbyStep /\ UNCHANGED <<sealed, outbox, their_id>> /\ UNCHANGED min_port
    BY DEF OtherJoins, Moves, LobbyStep, agentSide
  <1>3. p \in Client /\ p # me
    BY OtherFacts
  <1> DEFINE i == At(wait_room, p, DefaultId)
  <1>4. /\ LobbyInv' /\ Rooms' = Rooms /\ UNCHANGED conn /\ i \in Ids
        /\ \A q \in Rooms : rooms'[q].clients = IF q = r THEN Put(rooms[r].clients, p, i)
                                                ELSE rooms[q].clients
        /\ out'[me] = IF me \in Members(r) THEN <<About("ClientAbout", i)>> ELSE <<>>
    BY <1>1, <1>2, <1>3, JoinEffect
  <1> HIDE DEF i
  <1>5. \A q \in Rooms : me \in DOMAIN rooms'[q].clients <=> me \in Members(q)
    <2>1. DOMAIN Put(rooms[r].clients, p, i) = Members(r) \cup {p}
      BY DEF Put, Members
    <2>2. \A q \in Rooms : q # r => rooms'[q].clients = rooms[q].clients
      BY <1>4
    <2>3. rooms'[r].clients = Put(rooms[r].clients, p, i)
      BY <1>4
    <2> QED
      BY <1>3, <2>1, <2>2, <2>3 DEF Members
  <1>6. MyRooms' = MyRooms
    BY <1>4, <1>5, EditRooms
  <1>7. out'[me] \in Seq(Reports) /\ (MyRooms = {} => out'[me] = <<>>)
    <2>1. About("ClientAbout", i) \in Reports
      BY <1>4, PacketTexts
    <2> QED
      BY <1>4, <2>1, SingleType DEF MyRooms
  <1> QED
    BY <1>2, <1>4, <1>6, <1>7 DEF Elsewhere, TheirsInv, Others

LEMMA LeavesElsewhere ==
    ASSUME LobbyInv, TheirsInv, OtherLeaves
    PROVE  Elsewhere
  <1>1. PICK p \in Others, r \in Rooms : Leave(p, r)
    BY DEF OtherLeaves
  <1>2. LobbyStep /\ UNCHANGED <<sealed, outbox, their_id>> /\ UNCHANGED min_port
    BY DEF OtherLeaves, Moves, LobbyStep, agentSide
  <1>3. p \in Client /\ p # me
    BY OtherFacts
  <1>4. /\ LobbyInv' /\ Rooms' = Rooms /\ UNCHANGED conn /\ p \in Members(r)
        /\ \A q \in Rooms : rooms'[q].clients = IF q = r THEN Erase(rooms[r].clients, p)
                                                ELSE rooms[q].clients
        /\ out'[me] = IF me \in Members(r) THEN <<About("DiscClientAbout", rooms[r].clients[p])>>
                      ELSE <<>>
    BY <1>1, <1>2, <1>3, LeaveEffect
  <1>5. \A q \in Rooms : me \in DOMAIN rooms'[q].clients <=> me \in Members(q)
    BY <1>3, <1>4 DEF Erase, Members
  <1>6. MyRooms' = MyRooms
    BY <1>4, <1>5, EditRooms
  <1>7. out'[me] \in Seq(Reports) /\ (MyRooms = {} => out'[me] = <<>>)
    <2>1. rooms[r].clients[p] \in Ids
      BY <1>4, RoomFacts DEF LobbyInv
    <2>2. About("DiscClientAbout", rooms[r].clients[p]) \in Reports
      BY <2>1, PacketTexts
    <2> QED
      BY <1>4, <2>2, SingleType DEF MyRooms
  <1> QED
    BY <1>2, <1>4, <1>6, <1>7 DEF Elsewhere, TheirsInv, Others

LEMMA VanishesElsewhere ==
    ASSUME LobbyInv, TheirsInv, OtherVanishes
    PROVE  Elsewhere
  <1>1. PICK p \in Others : Disconnect(p) /\ their_id' = [their_id EXCEPT ![p] = NoId]
    BY DEF OtherVanishes
  <1>2. LobbyStep /\ UNCHANGED <<sealed, outbox>> /\ UNCHANGED min_port
    BY DEF OtherVanishes, Moves, LobbyStep, agentSide
  <1>3. p \in Client /\ p # me /\ me \in Peer
    BY OtherFacts, Constants DEF Client
  <1>4. /\ LobbyInv' /\ Rooms' = Rooms /\ conn' = [conn EXCEPT ![p] = "none"]
        /\ \A q \in Rooms : rooms'[q].clients = Erase(rooms[q].clients, p)
        /\ out'[me] = <<>>
    BY <1>1, <1>2, <1>3, GoneEffect
  <1>5. \A q \in Rooms : me \in DOMAIN rooms'[q].clients <=> me \in Members(q)
    BY <1>3, <1>4 DEF Erase, Members
  <1>6. MyRooms' = MyRooms
    BY <1>4, <1>5, EditRooms
  <1>7. conn'[me] = conn[me]
    BY <1>3, <1>4 DEF LobbyInv, Tabled
  <1>8. TheirsInv'
    BY <1>1, Constants DEF TheirsInv, Others
  <1> QED
    BY <1>2, <1>4, <1>6, <1>7, <1>8, NoneType DEF Elsewhere

LEMMA AgentElsewhere ==
    ASSUME LobbyInv, TheirsInv, AgentLink \/ LobbyServesAgent
    PROVE  Elsewhere
  <1>1. LobbyStep /\ UNCHANGED <<sealed, outbox, their_id>> /\ UNCHANGED min_port
    BY DEF AgentLink, LobbyServesAgent, LobbyStep, agentSide, theirSide
  <1>2. CASE BootAgent \/ BootFail
    <2>1. LobbyInv' /\ SameMembers /\ out'[me] = <<>>
      BY <1>1, <1>2, BootEffect
    <2>2. UNCHANGED conn
      BY <1>2 DEF BootAgent, BootFail
    <2> QED
      BY <1>1, <2>1, <2>2, SameRooms, NoneType DEF Elsewhere, TheirsInv, Others
  <1>3. CASE AgentConnect
    <2>1. AgentSlot \in Peer /\ AgentSlot # me
      BY LobbyAssumption, Constants DEF Client
    <2>2. LobbyInv' /\ SameMembers /\ out'[me] = <<>>
      BY <1>1, <1>3, <2>1, ConnectEffect
    <2>3. UNCHANGED conn
      BY <1>3 DEF AgentConnect
    <2> QED
      BY <1>1, <2>2, <2>3, SameRooms, NoneType DEF Elsewhere, TheirsInv, Others
  <1>4. CASE ServerPort
    <2>1. /\ LobbyInv' /\ Rooms' = Rooms /\ UNCHANGED conn
          /\ \A q \in Rooms : rooms'[q].clients = rooms[q].clients
          /\ \/ UNCHANGED rooms /\ out'[me] = <<>>
             \/ \E r \in Rooms :
                  out'[me] = IF me \in Members(r) THEN <<ServerInfo(rooms'[r].server)>> ELSE <<>>
      BY <1>1, <1>4, PortEffect
    <2>2. MyRooms' = MyRooms
      BY <2>1, EditRooms DEF Members
    <2>3. out'[me] \in Seq(Reports) /\ (MyRooms = {} => out'[me] = <<>>)
      <3>1. CASE out'[me] = <<>>
        BY <3>1, NoneType
      <3>2. CASE \E r \in MyRooms : out'[me] = <<ServerInfo(rooms'[r].server)>>
        <4>1. PICK r \in MyRooms : out'[me] = <<ServerInfo(rooms'[r].server)>>
          BY <3>2
        <4>2. rooms' \in Seq(RoomRecord) /\ Rooms' = DOMAIN rooms' /\ r \in Rooms'
          BY <2>1, <4>1 DEF LobbyInv, Tabled, Rooms, MyRooms
        <4>3. rooms'[r] \in RoomRecord
          BY <4>2, SeqFacts
        <4>4. rooms'[r].server \in Seq(Nat)
          BY <4>3 DEF RoomRecord
        <4>5. ServerInfo(rooms'[r].server) \in Reports
          BY <4>4, PacketTexts
        <4> QED
          BY <4>1, <4>5, SingleType
      <3> QED
        BY <2>1, <3>1, <3>2 DEF MyRooms
    <2> QED
      BY <1>1, <2>1, <2>2, <2>3 DEF Elsewhere, TheirsInv, Others
  <1> QED
    BY <1>2, <1>3, <1>4 DEF AgentLink, LobbyServesAgent

\* The steps that are about somebody else.
TheirSteps ==
    \/ OtherComes \/ OtherIntroducesItself \/ OtherCreatesRoom \/ OtherJoins \/ OtherLeaves
    \/ OtherVanishes \/ AgentLink \/ LobbyServesAgent

LEMMA TheirEffect ==
    ASSUME LobbyInv, TheirsInv, TheirSteps
    PROVE  Elsewhere
  BY ComesElsewhere, IntroducesElsewhere, CreatesElsewhere, JoinsElsewhere, LeavesElsewhere,
     VanishesElsewhere, AgentElsewhere DEF TheirSteps
-----------------------------------------------------------------------------
(***************************************************************************)
(* The lobby's steps that are about the client under study.                *)
(***************************************************************************)
Hello == <<Message("Key"), About("ClientId", id_counter), Message("RoomList")>>

LEMMA GreetsMe ==
    ASSUME LobbyInv, LobbyGreetsMe
    PROVE  /\ LobbyInv' /\ SameMembers /\ LobbyStep /\ UNCHANGED <<outbox, theirSide>>
           /\ lobby_link /\ ~Me!At("greet_connect") /\ ~Me!At("done")
           /\ conn[me] = "none" /\ conn'[me] = "connected"
           /\ \/ out'[me] = Hello /\ sealed' = TRUE
              \/ out'[me] = <<>> /\ UNCHANGED sealed
  <1>1. /\ LobbyStep /\ UNCHANGED <<outbox, theirSide>> /\ UNCHANGED min_port
        /\ lobby_link /\ ~Me!At("greet_connect") /\ ~Me!At("done")
        /\ \/ Connect(me) /\ sealed' = TRUE
           \/ BootClient(me) /\ UNCHANGED sealed
    BY DEF LobbyGreetsMe, LobbyStep, agentSide
  <1>2. me \in Client /\ me \in Peer /\ me # AgentSlot
    BY Constants DEF Client
  <1>3. CASE Connect(me) /\ sealed' = TRUE
    <2>1. LobbyInv' /\ SameMembers /\ out'[me] = Hello
      BY <1>1, <1>2, <1>3, ConnectEffect DEF Hello
    <2>2. conn[me] = "none" /\ conn'[me] = "connected"
      BY <1>2, <1>3 DEF Connect, LobbyInv, Tabled
    <2> QED
      BY <1>1, <1>3, <2>1, <2>2
  <1>4. CASE BootClient(me) /\ UNCHANGED sealed
    <2>1. LobbyInv' /\ SameMembers /\ out'[me] = <<>> /\ conn[me] = "none"
      BY <1>1, <1>2, <1>4, BootEffect
    <2>2. conn'[me] = "connected"
      BY <1>2, <1>4 DEF BootClient, LobbyInv, Tabled
    <2> QED
      BY <1>1, <1>4, <2>1, <2>2
  <1> QED
    BY <1>1, <1>3, <1>4

\* What the lobby makes of a packet of mine, and what it says.
Serves(packet) ==
    \/ /\ Me!Deaf /\ conn[me] # "none" /\ UNCHANGED conn
       /\ SameMembers /\ out'[me] = <<>>
    \/ /\ ~Me!Deaf /\ packet.header = "ClientAbout" /\ conn[me] = "connected"
       /\ conn' = [conn EXCEPT ![me] = "greeted"] /\ SameMembers /\ out'[me] = <<>>
    \/ /\ ~Me!Deaf /\ conn[me] = "greeted" /\ UNCHANGED conn
       /\ \/ packet.header = "RoomList" /\ SameMembers /\ out'[me] = <<Message("RoomList")>>
          \/ packet.header = "NewRoomInfo" /\ SameMembers /\ out'[me] = <<Message("ResultSuccess")>>
          \/ /\ packet.header = "ConnectRoom"
             /\ SameMembers /\ out'[me] = <<Message("ResultFailed")>>
          \/ packet.header = "ConnectRoom" /\ Join(me, packet.room)
          \/ /\ packet.header = "DisconnectRoom" /\ packet.room \notin MyRooms
             /\ SameMembers /\ out'[me] = <<Message("ResultFailed")>>
          \/ packet.header = "DisconnectRoom" /\ Leave(me, packet.room)

LEMMA ServesMe ==
    ASSUME LobbyInv, ClientInv, LobbyServesMe
    PROVE  /\ LobbyInv' /\ LobbyStep /\ UNCHANGED <<sealed, theirSide>>
           /\ outbox # <<>> /\ outbox' = Tail(outbox)
           /\ \E packet \in ToLobby : packet = Head(outbox) /\ Serves(packet)
  <1>1. /\ LobbyStep /\ UNCHANGED <<sealed, theirSide>> /\ UNCHANGED min_port
        /\ outbox # <<>> /\ outbox' = Tail(outbox)
    BY DEF LobbyServesMe, LobbyStep, agentSide
  <1>2. me \in Client
    BY Constants
  <1>3. PICK packet \in ToLobby : packet = Head(outbox)
    BY <1>1, TailFacts DEF ClientInv, Valued
  <1>4. CASE Me!Deaf
    <2>1. Unreadable(me)
      BY <1>4 DEF LobbyServesMe
    <2>2. LobbyInv' /\ SameMembers /\ UNCHANGED conn
      BY <1>1, <1>2, <2>1, AnswerEffect
    <2>3. conn[me] # "none" /\ out'[me] = <<>>
      BY <2>1, ToFacts DEF Unreadable
    <2>4. Serves(packet)
      BY <1>4, <2>2, <2>3 DEF Serves
    <2> QED
      BY <1>1, <1>3, <2>2, <2>4
  <1>5. CASE ~Me!Deaf
    <2>1. LobbyReads(packet)
      <3>1. LobbyReads(Head(outbox))
        BY <1>5 DEF LobbyServesMe
      <3>2. CASE Head(outbox).header = "ClientAbout" /\ ClientAbout(me, Head(outbox).id)
        BY <1>3, <3>2 DEF LobbyReads, ClientAbout
      <3>3. CASE Head(outbox).header = "RoomList" /\ RoomList(me)
        BY <1>3, <3>3 DEF LobbyReads
      <3>4. CASE Head(outbox).header = "NewRoomInfo"
                 /\ \E max \in Capacity, s \in Settings : NewRoomInfo(me, max, s)
        BY <1>3, <3>4 DEF LobbyReads
      <3>5. CASE Head(outbox).header = "ConnectRoom" /\ ConnectRoom(me, Head(outbox).room)
        BY <1>3, <3>5 DEF LobbyReads, ConnectRoom, Join, JoinRefused, start_room, Launch
      <3>6. CASE Head(outbox).header = "DisconnectRoom" /\ DisconnectRoom(me, Head(outbox).room)
        BY <1>3, <3>6 DEF LobbyReads, DisconnectRoom, Leave, LeaveRefused
      <3> QED
        BY <3>1, <3>2, <3>3, <3>4, <3>5, <3>6 DEF LobbyReads
    <2>2. CASE packet.header = "ClientAbout" /\ ClientAbout(me, packet.id)
      <3>1. packet.id \in Ids
        BY <2>2 DEF ToLobby, Asked
      <3>2. /\ LobbyInv' /\ SameMembers /\ out'[me] = <<>>
            /\ conn[me] = "connected" /\ conn' = [conn EXCEPT ![me] = "greeted"]
        BY <1>1, <1>2, <2>2, <3>1, GreetEffect
      <3> QED
        BY <1>1, <1>3, <1>5, <2>2, <3>2 DEF Serves
    <2>3. CASE packet.header = "RoomList" /\ RoomList(me)
      <3>1. LobbyInv' /\ SameMembers /\ UNCHANGED conn
        BY <1>1, <1>2, <2>3, AnswerEffect
      <3>2. conn[me] = "greeted" /\ out'[me] = <<Message("RoomList")>>
        BY <2>3, ToFacts DEF RoomList, Requests
      <3> QED
        BY <1>1, <1>3, <1>5, <2>3, <3>1, <3>2 DEF Serves
    <2>4. CASE packet.header = "NewRoomInfo"
               /\ \E max \in Capacity, s \in Settings : NewRoomInfo(me, max, s)
      <3>1. LobbyInv' /\ SameMembers /\ UNCHANGED conn
        BY <1>1, <1>2, <2>4, AnswerEffect
      <3>2. conn[me] = "greeted" /\ out'[me] = <<Message("ResultSuccess")>>
        BY <2>4, ToFacts DEF NewRoomInfo, Requests
      <3> QED
        BY <1>1, <1>3, <1>5, <2>4, <3>1, <3>2 DEF Serves
    <2>5. CASE packet.header = "ConnectRoom" /\ Join(me, packet.room)
      <3>1. LobbyInv' /\ UNCHANGED conn /\ conn[me] = "greeted"
        BY <1>1, <1>2, <2>5, JoinEffect
      <3> QED
        BY <1>1, <1>3, <1>5, <2>5, <3>1 DEF Serves
    <2>6. CASE packet.header = "ConnectRoom" /\ JoinRefused(me, packet.room)
      <3>1. LobbyInv' /\ SameMembers /\ UNCHANGED conn
        BY <1>1, <1>2, <2>6, AnswerEffect
      <3>2. conn[me] = "greeted" /\ out'[me] = <<Message("ResultFailed")>>
        BY <2>6, ToFacts DEF JoinRefused, Refuse, Requests
      <3> QED
        BY <1>1, <1>3, <1>5, <2>6, <3>1, <3>2 DEF Serves
    <2>7. CASE packet.header = "DisconnectRoom" /\ Leave(me, packet.room)
      <3>1. LobbyInv' /\ UNCHANGED conn /\ conn[me] = "greeted"
        BY <1>1, <1>2, <2>7, LeaveEffect
      <3> QED
        BY <1>1, <1>3, <1>5, <2>7, <3>1 DEF Serves
    <2>8. CASE packet.header = "DisconnectRoom" /\ LeaveRefused(me, packet.room)
      <3>1. LobbyInv' /\ SameMembers /\ UNCHANGED conn
        BY <1>1, <1>2, <2>8, AnswerEffect
      <3>2. conn[me] = "greeted" /\ out'[me] = <<Message("ResultFailed")>>
        BY <2>8, ToFacts DEF LeaveRefused, Refuse, Requests
      <3>3. packet.room \notin MyRooms
        BY <2>8 DEF LeaveRefused, MyRooms, Rooms
      <3> QED
        BY <1>1, <1>3, <1>5, <2>8, <3>1, <3>2, <3>3 DEF Serves
    <2> QED
      BY <2>1, <2>2, <2>3, <2>4, <2>5, <2>6, <2>7, <2>8 DEF LobbyReads, ConnectRoom, DisconnectRoom
  <1> QED
    BY <1>4, <1>5

\* What I hear after the answer to my join.
LEMMA JoinsMe ==
    ASSUME LobbyInv, NEW r, Join(me, r), UNCHANGED min_port
    PROVE  /\ LobbyInv' /\ MyRooms' = MyRooms \cup {r} /\ r \in Rooms
           /\ \E more \in Seq(Reports) : out'[me] = <<Message("ResultSuccess")>> \o more
  <1>1. me \in Client
    BY Constants
  <1> DEFINE i == At(wait_room, me, DefaultId)
  <1>2. /\ LobbyInv' /\ Rooms' = Rooms /\ r \in Rooms
        /\ \A q \in Rooms : rooms'[q].clients = IF q = r THEN Put(rooms[r].clients, me, i)
                                                ELSE rooms[q].clients
        /\ \E intros :
              /\ Introduced(r, intros)
              /\ out'[me] = IF rooms[r].game_start
                            THEN Append(<<Message("ResultSuccess")>> \o intros,
                                        ServerInfo(rooms[r].server))
                            ELSE <<Message("ResultSuccess")>> \o intros
    BY <1>1, JoinEffect
  <1> HIDE DEF i
  <1>3. MyRooms' = MyRooms \cup {r}
    <2>1. DOMAIN Put(rooms[r].clients, me, i) = Members(r) \cup {me}
      BY DEF Put, Members
    <2>2. \A q \in Rooms : me \in DOMAIN rooms'[q].clients <=> (q = r \/ me \in Members(q))
      BY <1>2, <2>1 DEF Members
    <2> QED
      BY <1>2, <2>2 DEF MyRooms, Members
  <1>4. PICK intros :
          /\ Introduced(r, intros)
          /\ out'[me] = IF rooms[r].game_start
                        THEN Append(<<Message("ResultSuccess")>> \o intros,
                                    ServerInfo(rooms[r].server))
                        ELSE <<Message("ResultSuccess")>> \o intros
    BY <1>2
  <1>5. intros \in Seq(Reports)
    <2>1. [header : {"ClientAbout"}, id : Ids] \subseteq Reports
      BY DEF Reports, Talk
    <2> QED
      BY <1>4, <2>1, LargerRange DEF Introduced
  <1>6. ServerInfo(rooms[r].server) \in Reports
    BY <1>2, RoomFacts, PacketTexts DEF LobbyInv
  <1>7. \E more \in Seq(Reports) : out'[me] = <<Message("ResultSuccess")>> \o more
    <2>1. CASE rooms[r].game_start
      <3> DEFINE last == ServerInfo(rooms[r].server)
                 more == Append(intros, last)
                 first == Message("ResultSuccess")
      <3>1. more \in Seq(Reports)
        BY <1>5, <1>6
      <3>2. out'[me] = Append(<<first>> \o intros, last)
        BY <1>4, <2>1
      <3> HIDE DEF last, first
      <3>3. Append(<<first>> \o intros, last) = <<first>> \o Append(intros, last)
        BY <1>5
      <3> QED
        BY <3>1, <3>2, <3>3 DEF first
    <2>2. CASE ~rooms[r].game_start
      BY <1>4, <1>5, <2>2
    <2> QED
      BY <2>1, <2>2
  <1> QED
    BY <1>2, <1>3, <1>7

LEMMA LeavesMe ==
    ASSUME LobbyInv, NEW r, Leave(me, r), UNCHANGED min_port
    PROVE  /\ LobbyInv' /\ r \in MyRooms /\ MyRooms' = MyRooms \ {r}
           /\ out'[me] = <<Message("ResultSuccess")>>
  <1>1. me \in Client
    BY Constants
  <1>2. /\ LobbyInv' /\ Rooms' = Rooms /\ r \in Rooms /\ me \in Members(r)
        /\ \A q \in Rooms : rooms'[q].clients = IF q = r THEN Erase(rooms[r].clients, me)
                                                ELSE rooms[q].clients
        /\ out'[me] = <<Message("ResultSuccess")>>
    BY <1>1, LeaveEffect
  <1>3. \A q \in Rooms : me \in DOMAIN rooms'[q].clients <=> (q # r /\ me \in Members(q))
    <2>1. DOMAIN Erase(rooms[r].clients, me) = Members(r) \ {me}
      BY DEF Erase, Members
    <2> QED
      BY <1>2, <2>1 DEF Members
  <1> QED
    BY <1>2, <1>3 DEF MyRooms, Members

\* What a packet of mine is answered with, and where it takes me.
Replies(packet) ==
    \/ /\ Me!Deaf \/ packet.header = "ClientAbout"
       /\ MyRooms' = MyRooms /\ out'[me] = <<>>
    \/ /\ packet.header = "RoomList" /\ MyRooms' = MyRooms
       /\ out'[me] = <<Message("RoomList")>>
    \/ /\ packet.header = "NewRoomInfo" /\ MyRooms' = MyRooms
       /\ out'[me] = <<Message("ResultSuccess")>>
    \/ /\ packet.header = "ConnectRoom" /\ MyRooms' = MyRooms
       /\ out'[me] = <<Message("ResultFailed")>>
    \/ /\ packet.header = "ConnectRoom" /\ MyRooms' = MyRooms \cup {packet.room}
       /\ packet.room \in Rooms
       /\ \E more \in Seq(Reports) : out'[me] = <<Message("ResultSuccess")>> \o more
    \/ /\ packet.header = "DisconnectRoom" /\ packet.room \notin MyRooms /\ MyRooms' = MyRooms
       /\ out'[me] = <<Message("ResultFailed")>>
    \/ /\ packet.header = "DisconnectRoom" /\ packet.room \in MyRooms
       /\ MyRooms' = MyRooms \ {packet.room}
       /\ out'[me] = <<Message("ResultSuccess")>>

LEMMA ServesReplies ==
    ASSUME LobbyInv, NEW packet, Serves(packet), UNCHANGED min_port
    PROVE  Replies(packet)
  BY SameRooms, JoinsMe, LeavesMe DEF Serves, Replies

LEMMA LosesMe ==
    ASSUME LobbyInv, LobbyLosesMe
    PROVE  /\ LobbyInv' /\ LobbyStep /\ UNCHANGED <<sealed, theirSide>> /\ Me!At("done")
           /\ outbox' = <<>> /\ out'[me] = <<>> /\ conn'[me] = "none"
  <1>1. Disconnect(me) /\ UNCHANGED min_port
    BY DEF LobbyLosesMe, LobbyStep, agentSide
  <1>2. me \in Client /\ me \in Peer
    BY Constants DEF Client
  <1>3. LobbyInv' /\ out'[me] = <<>> /\ conn' = [conn EXCEPT ![me] = "none"]
    BY <1>1, <1>2, GoneEffect
  <1>4. conn'[me] = "none"
    BY <1>2, <1>3 DEF LobbyInv, Tabled
  <1> QED
    BY <1>3, <1>4 DEF LobbyLosesMe

-----------------------------------------------------------------------------
(***************************************************************************)
(* Types.                                                                  *)
(***************************************************************************)
TypeInv == LobbyInv /\ TheirsInv /\ ClientInv

LEMMA SaidTypes ==
    ASSUME NEW packet, LobbyInv, Replies(packet)
    PROVE  out'[me] \in Seq(FromLobby)
  <1>1. \A h \in Bare : <<Message(h)>> \in Seq(FromLobby)
    BY PacketTexts, SingleType
  <1>2. Reports \subseteq FromLobby
    BY PacketTexts
  <1>3. ASSUME NEW more \in Seq(Reports) PROVE <<Message("ResultSuccess")>> \o more \in Seq(FromLobby)
    <2>1. more \in Seq(FromLobby)
      BY <1>2, LargerRange
    <2> QED
      BY <1>1, <2>1, ConcatParts DEF Bare
  <1> QED
    BY <1>1, <1>3, NoneType DEF Replies, Bare

\* A step of the lobby leaves the client's variables alone, but for the ones
\* the two share.
LEMMA WaitsTypes ==
    ASSUME ClientInv, LobbyStep, out'[me] \in Seq(FromLobby), outbox' \in Seq(ToLobby),
           sealed' \in BOOLEAN
    PROVE  ClientInv'
  <1>1. ClientWaits /\ inbox' = inbox \o out'[me]
    BY DEF LobbyStep, Deliver
  <1>2. inbox' \in Seq(FromLobby)
    BY <1>1, ConcatParts DEF ClientInv, Valued
  <1>3. StackOK(stack)' /\ Me!Here' = Me!Here
    BY <1>1, Kept DEF ClientWaits
  <1>4. LinkOK'
    BY <1>1, <1>3 DEF ClientInv, LinkOK, Me!At, ClientWaits
  <1>5. Valued'
    BY <1>1, <1>2 DEF ClientInv, Valued, ClientWaits
  <1> QED
    BY <1>3, <1>4, <1>5 DEF ClientInv

LEMMA LobbyUnchanged ==
    ASSUME LobbyInv, TheirsInv, UNCHANGED <<lobbyVars, agentSide, theirSide>>
    PROVE  LobbyInv' /\ TheirsInv' /\ MyRooms' = MyRooms
  BY DEF LobbyInv, Tabled, Queued, TheirsInv, lobbyVars, agentSide, theirSide, Rooms, Members, MyRooms

LEMMA TypeInit ==
    ASSUME Init
    PROVE  TypeInv
  <1>1. /\ running = FALSE /\ rooms = <<>> /\ wait_room = NoEntries /\ id_counter = 0
        /\ rooms_wait = <<>> /\ conn = [p \in Peer |-> "none"] /\ toAgent = <<>> /\ fromAgent = <<>>
        /\ min_port = FirstPort /\ their_id = [p \in Others |-> NoId] /\ Me!ClientInit
    BY DEF Init, LobbyInit, Agent!Init
  <1>2. Tabled
    <2>1. Rooms = {}
      BY <1>1 DEF Rooms
    <2>2. wait_room \in Tables(Client, Ids)
      BY <1>1, EmptyTable
    <2>3. rooms \in Seq(RoomRecord) /\ id_counter \in 0 .. MaxId
      BY <1>1, Constants
    <2> QED
      BY <1>1, <2>1, <2>2, <2>3 DEF Tabled
  <1>3. Queued
    BY <1>1, Constants DEF Queued
  <1>4. TheirsInv
    BY <1>1, Constants DEF TheirsInv
  <1>5. ClientInv
    <2> DEFINE f == Me!Frame("greet_connect", 0)
    <2>1. f \in Frames /\ f.at = "greet_connect"
      BY PacketTypes DEF Waits, Typed
    <2>2. stack = <<f>>
      BY <1>1 DEF Me!ClientInit, Me!NoRoom
    <2>3. stack \in Seq(Frames) /\ Len(stack) = 1 /\ stack # <<>> /\ DOMAIN stack = {1} /\ stack[1] = f
      BY <2>1, <2>2
    <2> HIDE DEF f
    <2>4. StackOK(stack)
      BY <2>1, <2>3 DEF StackOK, Bottom, Alone, Early, Commands, Events
    <2>5. LinkOK
      <3>1. server_peer = "null" /\ link = "free" /\ fromGame = <<>> /\ toGame = <<>>
        BY <1>1 DEF Me!ClientInit
      <3>2. Me!Here.at = "greet_connect"
        BY <2>1, <2>3 DEF Me!Here
      <3> QED
        BY <3>1, <3>2 DEF LinkOK, Me!At
    <2>6. Valued
      <3>1. my_id \in Ids
        BY <1>1, Constants DEF Me!ClientInit, Me!NoOne, NoId
      <3>2. inbox = <<>> /\ outbox = <<>> /\ fromGame = <<>> /\ toGame = <<>>
        BY <1>1 DEF Me!ClientInit
      <3>3. /\ roster = {} /\ room_id = 0 /\ lobby_link = TRUE /\ keyed = FALSE /\ sealed = FALSE
            /\ creation_stage = FALSE /\ in_game = FALSE /\ gave_up = FALSE
            /\ left_early = FALSE /\ gone = FALSE /\ crossed = FALSE
        BY <1>1 DEF Me!ClientInit, Me!NoRoom
      <3> QED
        BY <3>1, <3>2, <3>3, NoneType DEF Valued, Typed
    <2> QED
      BY <2>4, <2>5, <2>6 DEF ClientInv
  <1> QED
    BY <1>2, <1>3, <1>4, <1>5 DEF TypeInv, LobbyInv

LEMMA TypeStep ==
    ASSUME TypeInv, [Next]_vars
    PROVE  TypeInv'
  <1>1. outbox \in Seq(ToLobby) /\ sealed \in BOOLEAN
    BY DEF TypeInv, ClientInv, Valued
  <1>2. CASE ClientSteps
    <2>1. Me!ClientNext /\ UNCHANGED <<lobbyVars, agentSide, theirSide>>
      BY <1>2 DEF ClientSteps
    <2> QED
      BY <2>1, LobbyUnchanged, ClientTypes DEF TypeInv
  <1>3. CASE LobbyGreetsMe
    <2>1. /\ LobbyInv' /\ LobbyStep /\ UNCHANGED <<outbox, their_id>>
          /\ \/ out'[me] = Hello /\ sealed' = TRUE
             \/ out'[me] = <<>> /\ UNCHANGED sealed
      BY <1>3, GreetsMe DEF TypeInv, theirSide
    <2>2. Hello \in Seq(FromLobby)
      <3>1. Message("Key") \in FromLobby /\ About("ClientId", id_counter) \in FromLobby
            /\ Message("RoomList") \in FromLobby
        BY PacketTexts, Constants DEF TypeInv, LobbyInv, Tabled, Ids, Bare
      <3> QED
        BY <3>1 DEF Hello
    <2>3. out'[me] \in Seq(FromLobby) /\ sealed' \in BOOLEAN /\ outbox' \in Seq(ToLobby)
      BY <1>1, <2>1, <2>2, NoneType
    <2> QED
      BY <2>1, <2>3, WaitsTypes DEF TypeInv, TheirsInv, Others
  <1>4. CASE LobbyServesMe
    <2>1. /\ LobbyInv' /\ LobbyStep /\ UNCHANGED <<sealed, their_id>>
          /\ outbox # <<>> /\ outbox' = Tail(outbox)
      BY <1>4, ServesMe DEF TypeInv, theirSide
    <2>2. PICK packet \in ToLobby : Serves(packet)
      BY <1>4, ServesMe DEF TypeInv
    <2>3. out'[me] \in Seq(FromLobby)
      BY <2>1, <2>2, ServesReplies, SaidTypes DEF TypeInv, LobbyStep, agentSide
    <2>4. outbox' \in Seq(ToLobby) /\ sealed' \in BOOLEAN
      BY <1>1, <2>1, TailFacts
    <2> QED
      BY <2>1, <2>3, <2>4, WaitsTypes DEF TypeInv, TheirsInv, Others
  <1>5. CASE LobbyLosesMe
    <2>1. /\ LobbyInv' /\ LobbyStep /\ UNCHANGED <<sealed, their_id>>
          /\ outbox' = <<>> /\ out'[me] = <<>>
      BY <1>5, LosesMe DEF TypeInv, theirSide
    <2> QED
      BY <1>1, <2>1, NoneType, WaitsTypes DEF TypeInv, TheirsInv, Others
  <1>6. CASE TheirSteps
    <2>1. /\ LobbyInv' /\ TheirsInv' /\ out'[me] \in Seq(Reports) /\ LobbyStep
          /\ UNCHANGED <<sealed, outbox>>
      BY <1>6, TheirEffect DEF TypeInv, Elsewhere
    <2>2. out'[me] \in Seq(FromLobby)
      BY <2>1, PacketTexts, LargerRange
    <2> QED
      BY <1>1, <2>1, <2>2, WaitsTypes DEF TypeInv
  <1>7. CASE AgentLaunches
    <2>1. LobbyInv' /\ UNCHANGED <<clientSide, theirSide>>
      BY <1>7, AgentEffect DEF TypeInv, AgentLaunches
    <2> QED
      BY <2>1 DEF TypeInv, TheirsInv, ClientInv, StackOK, LinkOK, Valued, clientSide, theirSide,
         Me!At, Me!Here
  <1>8. CASE UNCHANGED vars
    BY <1>8, LobbyUnchanged DEF TypeInv, ClientInv, StackOK, LinkOK, Valued, vars, clientSide, Me!At, Me!Here
  <1> QED
    BY <1>2, <1>3, <1>4, <1>5, <1>6, <1>7, <1>8 DEF Next, ClientIdles, TheirSteps

\* Every value the lobby and the client keep, and every packet between them,
\* is of its type, and a wait for a game server is never under another wait.
THEOREM TypesHold == Spec => []TypeInv
  <1>1. Init => TypeInv
    BY TypeInit
  <1>2. TypeInv /\ [Next]_vars => TypeInv'
    BY TypeStep
  <1> QED
    BY <1>1, <1>2, PTL DEF Spec

\* The client's variables keep their types, and its waits and its connection
\* to a game server go together (GameClient.cpp: process_event and Run).
THEOREM SessionTypes == Spec => []TypeOK
  <1>1. TypeInv => TypeOK
    <2> SUFFICES ASSUME TypeInv PROVE TypeOK
      OBVIOUS
    <2>1. /\ \A n \in DOMAIN stack : stack[n].at \in Waits /\ stack[n].room \in Typed
          /\ Len(stack) >= 1
      BY StackFacts DEF TypeInv, ClientInv
    <2>2. Me!At("done") => Len(stack) = 1
      BY Top DEF TypeInv, Me!At, Bottom, Alone
    <2>3. {lobby_link, keyed, sealed, creation_stage, in_game, gave_up, left_early, gone}
            \subseteq BOOLEAN
      BY DEF TypeInv, ClientInv, Valued
    <2>4. /\ server_peer \in {"null", "slot"} /\ link \in {"free", "connecting", "up"}
          /\ link # "up" => toGame = <<>> /\ fromGame = <<>>
          /\ (link = "connecting") = Me!At("srv_connect")
      BY DEF TypeInv, ClientInv, LinkOK, Me!At
    <2>5. my_id \in Ids /\ roster \subseteq Ids /\ room_id \in Typed
      BY DEF TypeInv, ClientInv, Valued
    <2> QED
      BY <2>1, <2>2, <2>3, <2>4, <2>5 DEF TypeOK, Typed
  <1> QED
    BY <1>1, TypesHold, PTL
-----------------------------------------------------------------------------
(***************************************************************************)
(* Marked packets of a queue.                                              *)
(***************************************************************************)
Marks(s, H) == {n \in DOMAIN s : s[n].header \in H}

LEMMA MarksTail ==
    ASSUME NEW S, NEW s \in Seq(S), s # <<>>, NEW H
    PROVE  /\ Marks(s, H) = {} => Marks(Tail(s), H) = {}
           /\ \A m : Marks(s, H) = {m} /\ m # 1 => Marks(Tail(s), H) = {m - 1} /\ Tail(s)[m - 1] = s[m]
           /\ Marks(s, H) = {1} => Marks(Tail(s), H) = {}
           /\ Head(s).header \in H => 1 \in Marks(s, H)
           /\ 1 \in Marks(s, H) => Head(s).header \in H
           /\ Head(s) = s[1]
  <1> DEFINE t == Tail(s)
  <1>1. /\ Head(s) = s[1] /\ 1 \in DOMAIN s /\ DOMAIN s \subseteq Nat
        /\ \A n \in DOMAIN t : n + 1 \in DOMAIN s /\ t[n] = s[n + 1]
        /\ \A n \in DOMAIN s : n # 1 => n - 1 \in DOMAIN t /\ t[n - 1] = s[n]
        /\ DOMAIN t \subseteq Nat \ {0}
    BY TailFacts
  <1> HIDE DEF t
  <1>2. \A n \in Marks(t, H) : n + 1 \in Marks(s, H) /\ n + 1 # 1 /\ n = (n + 1) - 1
    BY <1>1 DEF Marks
  <1>3. ASSUME NEW m, Marks(s, H) = {m}, m # 1
        PROVE  Marks(t, H) = {m - 1} /\ t[m - 1] = s[m]
    <2>1. m \in DOMAIN s /\ m \in Nat /\ m - 1 \in DOMAIN t /\ t[m - 1] = s[m] /\ s[m].header \in H
      BY <1>1, <1>3 DEF Marks
    <2>2. m - 1 \in Marks(t, H)
      BY <2>1 DEF Marks
    <2>3. \A n \in Marks(t, H) : n = m - 1
      BY <1>2, <1>3
    <2> QED
      BY <2>1, <2>2, <2>3
  <1>4. Marks(s, H) = {} => Marks(t, H) = {}
    BY <1>2
  <1>5. Marks(s, H) = {1} => Marks(t, H) = {}
    BY <1>2
  <1> QED
    BY <1>1, <1>3, <1>4, <1>5 DEF t, Marks

LEMMA MarksAppend ==
    ASSUME NEW S, NEW s \in Seq(S), NEW x \in S, NEW H
    PROVE  /\ x.header \notin H => Marks(Append(s, x), H) = Marks(s, H)
           /\ x.header \in H /\ Marks(s, H) = {} => Marks(Append(s, x), H) = {Len(s) + 1}
           /\ \A n \in Marks(s, H) : Append(s, x)[n] = s[n]
           /\ Append(s, x)[Len(s) + 1] = x
  <1> DEFINE t == Append(s, x)
  <1>1. /\ \A n \in DOMAIN s : n \in DOMAIN t /\ t[n] = s[n]
        /\ Len(s) + 1 \in DOMAIN t /\ t[Len(s) + 1] = x
        /\ \A n \in DOMAIN t : n \in DOMAIN s \/ n = Len(s) + 1
    BY AppendFacts
  <1> HIDE DEF t
  <1>2. x.header \notin H => Marks(t, H) = Marks(s, H)
    BY <1>1 DEF Marks
  <1>3. x.header \in H /\ Marks(s, H) = {} => Marks(t, H) = {Len(s) + 1}
    BY <1>1 DEF Marks
  <1> QED
    BY <1>1, <1>2, <1>3 DEF t, Marks

LEMMA MarksConcat ==
    ASSUME NEW S, NEW s \in Seq(S), NEW t \in Seq(S), NEW H
    PROVE  /\ Marks(t, H) = {} => Marks(s \o t, H) = Marks(s, H)
           /\ \A n \in Marks(s, H) : (s \o t)[n] = s[n]
           /\ Marks(s, H) = {} /\ Marks(t, H) = {1} =>
                Marks(s \o t, H) = {Len(s) + 1} /\ (s \o t)[Len(s) + 1] = t[1]
           /\ Marks(s, H) = {} /\ Marks(t, H) = {} => Marks(s \o t, H) = {}
  <1> DEFINE u == s \o t
  <1>1. /\ DOMAIN s = 1 .. Len(s) /\ Len(s) \in Nat
        /\ DOMAIN t = 1 .. Len(t) /\ Len(t) \in Nat
        /\ DOMAIN u = 1 .. Len(s) + Len(t)
        /\ \A n \in DOMAIN s : u[n] = s[n]
        /\ \A n \in DOMAIN t : u[Len(s) + n] = t[n]
        /\ \A n \in DOMAIN u :
             n \in DOMAIN s \/ (n - Len(s) \in DOMAIN t /\ u[n] = t[n - Len(s)])
    BY ConcatParts
  <1> HIDE DEF u
  <1>2. \A n \in DOMAIN s : n \in DOMAIN u
    BY <1>1
  <1>3. \A n \in Marks(u, H) :
          n \in Nat /\ (n \in Marks(s, H) \/ n - Len(s) \in Marks(t, H))
    BY <1>1 DEF Marks
  <1>4. Marks(t, H) = {} => Marks(u, H) = Marks(s, H)
    BY <1>1, <1>2, <1>3 DEF Marks
  <1>5. ASSUME Marks(s, H) = {}, Marks(t, H) = {1}
        PROVE  Marks(u, H) = {Len(s) + 1} /\ u[Len(s) + 1] = t[1]
    <2>1. 1 \in DOMAIN t /\ t[1].header \in H
      BY <1>5 DEF Marks
    <2>2. u[Len(s) + 1] = t[1] /\ Len(s) + 1 \in DOMAIN u
      BY <1>1, <2>1
    <2>3. Len(s) + 1 \in Marks(u, H)
      BY <2>1, <2>2 DEF Marks
    <2>4. \A n \in Marks(u, H) : n = Len(s) + 1
      BY <1>1, <1>3, <1>5
    <2> QED
      BY <2>2, <2>3, <2>4
  <1>6. \A n \in Marks(s, H) : u[n] = s[n]
    BY <1>1 DEF Marks
  <1> QED
    BY <1>4, <1>5, <1>6 DEF u

LEMMA NoMarks ==
    ASSUME NEW S, NEW s \in Seq(S), NEW H, \A x \in S : x.header \notin H
    PROVE  Marks(s, H) = {}
  BY DEF Marks

LEMMA FirstMark ==
    ASSUME NEW S, NEW x, NEW t \in Seq(S), NEW H, \A y \in S : y.header \notin H, x.header \in H
    PROVE  Marks(<<x>> \o t, H) = {1} /\ (<<x>> \o t)[1] = x
  <1> DEFINE u == <<x>> \o t
  <1>1. /\ DOMAIN u = 1 .. 1 + Len(t) /\ Len(t) \in Nat /\ u[1] = x
        /\ \A n \in DOMAIN u : n # 1 => u[n] = t[n - 1] /\ n - 1 \in DOMAIN t
    OBVIOUS
  <1>2. \A n \in DOMAIN u : n # 1 => u[n] \in S
    BY <1>1
  <1>3. 1 \in DOMAIN u
    BY <1>1
  <1> HIDE DEF u
  <1>4. Marks(u, H) = {1}
    BY <1>1, <1>2, <1>3 DEF Marks
  <1> QED
    BY <1>1, <1>4 DEF u

-----------------------------------------------------------------------------
(***************************************************************************)
(* The greeting, and who may be connected to a game server.                *)
(***************************************************************************)
Done == Me!At("done")
AskedAt == Marks(outbox, Asked)
AnsweredAt == Marks(inbox, Me!Results)
KeyAt == Marks(inbox, {"Key"})

\* The lobby encrypts what it sends to a client that has been sent its key;
\* a client that waits for a game server was told of it in a packet that it
\* could read; and what it cannot read is no answer.
ArrivedInv ==
    /\ stack[1].at \in {"greet_connect", "greet_key"} => ~keyed
    /\ conn[me] # "none" => lobby_link /\ ~Me!At("greet_connect")
    /\ conn[me] = "none" /\ ~Done => inbox = <<>>
    /\ keyed \/ KeyAt # {} => sealed
    /\ sealed => conn[me] # "none" \/ Done
    /\ Nested => conn[me] # "none" /\ ~Me!Deaf
    /\ Me!Deaf => AnsweredAt = {}

LEMMA DoneFacts ==
    ASSUME ClientInv
    PROVE  /\ Done <=> Me!Here.at = "done"
           /\ Me!Here.at = "done" => Len(stack) = 1 /\ Waiting = {} /\ ~Nested
           /\ Me!Here.at \in Bottom => Waiting = {} /\ ~Nested
           /\ Me!Here.at \in Bottom => stack[1] = Me!Here
           /\ Me!Here.at \notin Bottom => stack[1].at \in {"main", "greet_list"}
           /\ Me!Here.at \in Owing => Len(stack) \in Waiting /\ stack[Len(stack)] = Me!Here
           /\ Me!Here.at = "rooms" => Waiting = {}
  <1>1. /\ Len(stack) \in Nat /\ Len(stack) >= 1 /\ DOMAIN stack = 1 .. Len(stack)
        /\ Len(stack) \in DOMAIN stack /\ Me!Here = stack[Len(stack)]
        /\ Me!Here.at \in Bottom <=> Len(stack) = 1
    BY Top
  <1>2. Me!Here.at \in Bottom => Waiting = {} /\ ~Nested
    <2>1. \A w \in Bottom : w \notin Owing /\ w \notin ServerWaits
      BY DEF Bottom, Alone, Early, Owing, Leaving, ServerWaits, Events
    <2> QED
      BY <1>1, <2>1 DEF Waiting, Nested
  <1>3. Me!Here.at \notin Bottom => stack[1].at \in {"main", "greet_list"}
    BY <1>1 DEF ClientInv, StackOK, Bottom
  <1>4. Me!Here.at = "rooms" => Waiting = {}
    <2> SUFFICES ASSUME Me!Here.at = "rooms" PROVE Waiting = {}
      OBVIOUS
    <2>1. Len(stack) = 2 /\ stack[1].at = "main"
      BY <1>1 DEF ClientInv, StackOK, Commands
    <2>2. \A n \in DOMAIN stack : n = 1 \/ n = 2
      BY <1>1, <2>1
    <2>3. "main" \notin Owing /\ "rooms" \notin Owing
      BY DEF Owing, Leaving
    <2> QED
      BY <1>1, <2>1, <2>2, <2>3 DEF Waiting
  <1>5. "done" \in Bottom
    BY DEF Bottom, Alone
  <1> QED
    BY <1>1, <1>2, <1>3, <1>4, <1>5 DEF Done, Me!At, Waiting
\* The packets in flight after one is taken, or none.
Takes == inbox' = inbox \/ (inbox # <<>> /\ inbox' = Tail(inbox))

LEMMA TakesMarks ==
    ASSUME ClientInv, Takes
    PROVE  /\ \A H : Marks(inbox, H) = {} => Marks(inbox, H)' = {}
           /\ inbox = <<>> => inbox' = <<>>
  BY MarksTail DEF ClientInv, Valued, Takes, Marks

LEMMA ArrivedKept ==
    ASSUME ClientInv, ArrivedInv, Takes, UNCHANGED <<conn, sealed, keyed, lobby_link>>,
           stack'[1].at \in {"greet_connect", "greet_key"} => stack[1].at \in {"greet_connect", "greet_key"},
           Me!At("greet_connect")' => Me!At("greet_connect"),
           Done => Done',
           Nested' => Nested \/ (conn[me] # "none" /\ ~Me!Deaf)
    PROVE  ArrivedInv'
  <1>1. /\ KeyAt = {} => KeyAt' = {}
        /\ AnsweredAt = {} => AnsweredAt' = {}
        /\ inbox = <<>> => inbox' = <<>>
    BY TakesMarks DEF KeyAt, AnsweredAt, Me!Results
  <1>2. Me!Deaf' <=> Me!Deaf
    BY DEF Me!Deaf
  <1> QED
    BY <1>1, <1>2 DEF ArrivedInv

\* A frame pushed, swapped or popped while the greeting is over.
LEMMA ArrivedHandles ==
    ASSUME ClientInv, ArrivedInv, UNCHANGED <<conn, sealed>>,
           Me!MainReads \/ Me!LoopReads
    PROVE  ArrivedInv'
  <1>1. /\ Me!Here.at \in Listening /\ UNCHANGED <<keyed, lobby_link>>
        /\ \/ Me!NextFromLobby /\ \E packet \in FromLobby :
                Me!ThrowAway(packet) \/ (~Me!Deaf /\ Me!process_event(packet))
           \/ Me!NextFromGame /\ \E packet \in FromServer : Me!ThrowAway(packet) \/ Me!process_event(packet)
    <2>1. Me!ReadsTwice => ~Me!Deaf
      BY DEF Me!ReadsTwice, Me!Deaf, ClientInv, Valued
    <2>2. CASE Me!MainReads
      BY <2>2, MainReadsCases DEF Me!Identity
    <2>3. CASE Me!LoopReads
      BY <2>1, <2>3, LoopReadsCases DEF Me!Identity
    <2> QED
      BY <2>2, <2>3
  <1>2. Takes
    BY <1>1, NextPacket DEF Takes, Me!NextFromLobby, Me!NextFromGame
  <1>3. Me!Here.at \notin Alone \cup Events
    BY <1>1 DEF Listening, Me!AnswerLoop, Alone, Early, Events
  <1>4. CASE UNCHANGED stack
    <2>1. Nested' = Nested /\ stack'[1] = stack[1] /\ Me!Here' = Me!Here
      BY <1>4, Kept
    <2> QED
      BY <1>1, <1>2, <1>4, <2>1, ArrivedKept DEF Done, Me!At
  <1>5. CASE stack' = Append(stack, Me!Frame("srv_connect", 0)) /\ conn[me] # "none" /\ ~Me!Deaf
    <2> DEFINE f == Me!Frame("srv_connect", 0)
    <2>1. f \in Frames /\ f.at = "srv_connect" /\ f.at \in ServerWaits
      BY PacketTypes DEF Waits, Typed, ServerWaits, Events
    <2>2. stack' = Append(stack, f)
      BY <1>5
    <2> HIDE DEF f
    <2>3. Me!Here' = f /\ stack'[1] = stack[1]
      BY <1>3, <2>1, <2>2, Pushed
    <2>4. ~Done
      BY <1>3 DEF Done, Me!At, Alone
    <2> QED
      BY <1>1, <1>2, <1>5, <2>1, <2>3, <2>4, ArrivedKept DEF Me!At
  <1>6. \/ UNCHANGED stack
        \/ stack' = Append(stack, Me!Frame("srv_connect", 0)) /\ conn[me] # "none" /\ ~Me!Deaf
    <2>1. Me!NextFromLobby => conn[me] # "none"
      <3>1. ~Done
        BY <1>3 DEF Done, Me!At, Alone
      <3> QED
        BY <3>1 DEF ArrivedInv, Me!NextFromLobby
    <2>2. \A packet : Me!process_event(packet) /\ ~Connects(packet) => UNCHANGED stack
      BY Processed DEF Ignores, Learns, Me!LearnOf, Enters, Skips
    <2>3. \A packet \in FromServer : ~Connects(packet)
      BY DEF FromServer, Connects
    <2> QED
      BY <1>1, <2>1, <2>2, <2>3 DEF Me!ThrowAway, Connects
  <1> QED
    BY <1>4, <1>5, <1>6

LEMMA ArrivedEnds ==
    ASSUME ClientInv, ArrivedInv, Takes, UNCHANGED <<conn, sealed, keyed, lobby_link>>,
           \/ Me!Here.at \in Me!AnswerLoop /\ Ends
           \/ Me!Here.at \in Events /\ stack' = Me!Below
           \/ UNCHANGED stack
    PROVE  ArrivedInv'
  <1>1. CASE Me!Here.at \in Me!AnswerLoop /\ Ends
    <2>1. stack'[1].at \notin Early /\ Me!Here'.at \notin Early /\ (Nested' => Nested)
      BY <1>1, EndsTypes
    <2>2. ~Done
      BY <1>1 DEF Done, Me!At, Me!AnswerLoop
    <2> QED
      BY <2>1, <2>2, ArrivedKept DEF Early, Me!At
  <1>2. CASE Me!Here.at \in Events /\ stack' = Me!Below
    <2>1. stack'[1] = stack[1] /\ Me!Here'.at \notin Alone /\ Nested
      BY <1>2, EventEnds
    <2>2. ~Done
      BY <1>2 DEF Done, Me!At, Events
    <2> QED
      BY <2>1, <2>2, ArrivedKept DEF Alone, Early, Me!At
  <1>3. CASE UNCHANGED stack
    <2>1. Nested' = Nested /\ stack'[1] = stack[1] /\ Me!Here' = Me!Here
      BY <1>3, Kept
    <2> QED
      BY <1>3, <2>1, ArrivedKept DEF Done, Me!At
  <1> QED
    BY <1>1, <1>2, <1>3

LEMMA ArrivedConnected ==
    ASSUME ClientInv, ArrivedInv, UNCHANGED <<conn, sealed>>, Me!GreetConnected
    PROVE  ArrivedInv'
  <1>1. /\ Me!Here.at = "greet_connect"
        /\ \/ stack' = Me!Goto("greet_key") /\ UNCHANGED lobby_link
           \/ stack' = Me!Goto("main") /\ lobby_link' = FALSE
        /\ UNCHANGED <<server_peer, link, fromGame, toGame, keyed, inbox>>
    BY DEF Me!GreetConnected, Me!GreetKeeps, Me!At, Me!GameLink
  <1>2. Me!Here.at \in Bottom /\ stack[1] = Me!Here /\ link = "free" /\ ~Done /\ ~Nested
    BY <1>1, DoneFacts DEF Bottom, Alone, Early, ClientInv, LinkOK
  <1>3. \/ Me!Here'.at = "greet_key" /\ ~Nested'
        \/ Me!Here'.at = "main" /\ stack'[1] = Me!Here' /\ ~Nested'
    <2>1. "greet_key" \in Bottom \ {"greet_connect"} /\ "main" \in Bottom \ {"greet_connect"}
      BY DEF Bottom, Alone, Early
    <2>2. \A w : Me!Frame(w, 0).at = w
      BY DEF Me!Frame
    <2> QED
      BY <1>1, <1>2, <2>1, <2>2, GreetTypes
  <1>4. conn[me] = "none" /\ ~keyed
    BY <1>1, <1>2 DEF ArrivedInv, Me!At
  <1>5. inbox = <<>> /\ ~sealed
    BY <1>2, <1>4 DEF ArrivedInv
  <1>6. KeyAt' = {} /\ AnsweredAt' = {}
    BY <1>1, <1>5 DEF KeyAt, AnsweredAt, Marks
  <1> QED
    BY <1>1, <1>3, <1>4, <1>5, <1>6 DEF ArrivedInv, Me!At, Done

LEMMA ArrivedKey ==
    ASSUME ClientInv, ArrivedInv, UNCHANGED <<conn, sealed>>, Me!GreetKey
    PROVE  ArrivedInv'
  <1>1. /\ Me!Here.at = "greet_key" /\ stack' = Me!Goto("greet_id")
        /\ \/ /\ inbox # <<>> /\ inbox' = Tail(inbox)
              /\ keyed' = (Head(inbox).header = "Key")
           \/ UNCHANGED <<inbox, keyed>>
        /\ UNCHANGED <<server_peer, link, fromGame, toGame, lobby_link>>
    BY DEF Me!GreetKey, Me!GreetKeeps, Me!At, Me!GameLink
  <1>2. Me!Here.at \in Bottom /\ stack[1] = Me!Here /\ link = "free" /\ ~Done /\ ~Nested
    BY <1>1, DoneFacts DEF Bottom, Alone, Early, ClientInv, LinkOK
  <1>3. Me!Here'.at = "greet_id" /\ stack'[1] = Me!Here' /\ ~Nested'
    <2>1. "greet_id" \in Bottom \ {"greet_connect"}
      BY DEF Bottom, Alone, Early
    <2>2. \A w : Me!Frame(w, 0).at = w
      BY DEF Me!Frame
    <2> QED
      BY <1>1, <1>2, <2>1, <2>2, GreetTypes
  <1>4. ~keyed
    BY <1>1, <1>2 DEF ArrivedInv
  <1>5. Takes
    BY <1>1 DEF Takes
  <1>6. /\ KeyAt = {} => KeyAt' = {}
        /\ AnsweredAt = {} => AnsweredAt' = {}
        /\ inbox = <<>> => inbox' = <<>>
    BY <1>5, TakesMarks DEF KeyAt, AnsweredAt, Me!Results
  <1>7. keyed' => KeyAt # {}
    BY <1>1, <1>4, MarksTail DEF KeyAt, ClientInv, Valued
  <1>8. keyed' => sealed
    BY <1>7 DEF ArrivedInv
  <1>9. Me!Deaf' => Me!Deaf
    <2>1. keyed = FALSE /\ sealed \in BOOLEAN /\ sealed' = sealed /\ keyed' \in BOOLEAN
      BY <1>1, <1>4 DEF ClientInv, Valued
    <2> QED
      BY <1>8, <2>1 DEF Me!Deaf
  <1>10. ~Done' /\ stack'[1].at = "greet_id" /\ ~Me!At("greet_connect")'
    BY <1>3 DEF Done, Me!At
  <1>11. KeyAt' # {} => sealed
    BY <1>6 DEF ArrivedInv
  <1>12. /\ conn[me] # "none" => lobby_link
         /\ conn[me] = "none" => inbox' = <<>>
         /\ sealed => conn[me] # "none"
         /\ Me!Deaf' => AnsweredAt' = {}
    BY <1>2, <1>6, <1>9 DEF ArrivedInv
  <1> QED
    BY <1>1, <1>3, <1>8, <1>10, <1>11, <1>12 DEF ArrivedInv

LEMMA ArrivedRest ==
    ASSUME ClientInv, ArrivedInv, UNCHANGED <<conn, sealed>>,
           Me!GreetId \/ Me!ServerConnected \/ Me!ServerRefused \/ Me!Types \/ Me!Terminated
    PROVE  ArrivedInv'
  <1>1. UNCHANGED <<keyed, lobby_link>>
    BY DEF Me!GreetId, Me!ServerConnected, Me!ServerRefused, Me!Types, Me!TypeRoom, Me!TypeRooms,
       Me!TypeConnect, Me!TypeDisconnect, Me!TypeExit, Me!TypeCreate, Me!Line, Me!Terminated,
       Me!Identity
  <1>2. Takes
    BY DEF Takes, Me!GreetId, Me!ServerConnected, Me!ServerRefused, Me!Types, Me!TypeRoom,
       Me!TypeRooms, Me!TypeConnect, Me!TypeDisconnect, Me!TypeExit, Me!TypeCreate, Me!Line,
       Me!Terminated
  <1>3. \A w : Me!Frame(w, 0).at = w
    BY DEF Me!Frame
  <1>4. CASE Me!GreetId
    <2>1. Me!Here.at = "greet_id" /\ stack' = Me!Goto("greet_list")
          /\ UNCHANGED <<server_peer, link, fromGame, toGame>>
      BY <1>4 DEF Me!GreetId, Me!At, Me!GreetKeeps, Me!GameLink
    <2>2. Me!Here.at \in Bottom /\ "greet_list" \in Bottom \ {"greet_connect"} /\ ~Done
          /\ "greet_list" \notin Early
      BY <2>1 DEF Bottom, Alone, Early, Done, Me!At
    <2>3. Me!Here'.at = "greet_list" /\ stack'[1] = Me!Here' /\ (Nested' => Nested)
      BY <1>3, <2>1, <2>2, GreetTypes
    <2> QED
      BY <1>1, <1>2, <2>2, <2>3, ArrivedKept DEF Me!At
  <1>5. CASE Me!ServerConnected \/ Me!ServerRefused
    <2>1. stack'[1] = stack[1] /\ Nested /\ Me!Here'.at \in {"srv_key", "srv_leave"}
      BY <1>5, ServerConnectedTypes, ServerRefusedTypes
    <2>2. ~Done
      BY <1>5 DEF Me!ServerConnected, Me!ServerRefused, Done, Me!At
    <2> QED
      BY <1>1, <1>2, <2>1, <2>2, ArrivedKept DEF Me!At
  <1>6. CASE Me!Here.at = "main" /\ stack' = Me!Goto("done")
    <2>1. Me!Here.at \in Bottom /\ "done" \in Bottom \ {"greet_connect"} /\ ~Done
      BY <1>6 DEF Bottom, Alone, Early, Done, Me!At
    <2> DEFINE f == Me!Frame("done", 0)
    <2>2. f \in Frames /\ f.at = "done"
      BY PacketTypes DEF Waits, Typed
    <2>3. stack' = Replaced(stack, f)
      BY <1>6, Stacks
    <2> HIDE DEF f
    <2>4. Me!Here' = f /\ stack'[1] = f /\ (Nested' => Nested)
      BY <2>1, <2>2, <2>3, Swapped
    <2> QED
      BY <1>1, <1>2, <2>1, <2>2, <2>4, ArrivedKept DEF Me!At
  <1>7. CASE \E w, packet, r : Commanded(w, packet, r)
    <2>1. PICK w, packet, r : Commanded(w, packet, r)
      BY <1>7
    <2>2. stack'[1] = stack[1] /\ Me!Here'.at = w /\ (Nested' => Nested)
      BY <2>1, CommandedTypes
    <2>3. ~Done /\ w # "greet_connect"
      BY <2>1 DEF Commanded, Done, Me!At, Commands
    <2> QED
      BY <1>1, <1>2, <2>2, <2>3, ArrivedKept DEF Me!At
  <1>8. CASE Me!TypeCreate
    BY <1>1, <1>2, <1>8, ArrivedEnds DEF Me!TypeCreate
  <1>9. CASE Me!Terminated
    BY <1>6, <1>9 DEF Me!Terminated, Me!At
  <1>10. CASE Me!TypeRoom \/ Me!TypeRooms \/ Me!TypeConnect \/ Me!TypeDisconnect \/ Me!TypeExit
    BY <1>6, <1>7, <1>10, TypedCases DEF Me!Line, Me!At
  <1> QED
    BY <1>4, <1>5, <1>8, <1>9, <1>10 DEF Me!Types

LEMMA ArrivedClient ==
    ASSUME ClientInv, ArrivedInv, UNCHANGED conn, Me!ClientNext
    PROVE  ArrivedInv'
  <1>1. UNCHANGED sealed
    BY ClientTypes
  <1>2. CASE Me!LoopAnswered \/ Me!LoopGivesUp \/ Me!ServerKey \/ Me!ServerGone \/ Me!ServerGreets
    <2>1. UNCHANGED <<keyed, lobby_link>>
      BY <1>2 DEF Me!LoopAnswered, Me!LoopGivesUp, Me!ServerKey, Me!ServerGone, Me!ServerGreets, Me!Identity
    <2>2. Takes
      BY <1>2 DEF Takes, Me!LoopAnswered, Me!LoopGivesUp, Me!ServerKey, Me!ServerGone, Me!ServerGreets,
         Me!NextFromLobby, Me!NextFromGame
    <2>3. \/ Me!Here.at \in Me!AnswerLoop /\ Ends
          \/ Me!Here.at \in Events /\ stack' = Me!Below
          \/ UNCHANGED stack
      BY <1>1, <1>2, LoopAnsweredTypes, LoopGivesUpTypes, ServerKeyTypes, ServerGoneTypes
         DEF Me!ServerGreets
    <2> QED
      BY <1>1, <2>1, <2>2, <2>3, ArrivedEnds
  <1> QED
    BY <1>1, <1>2, ArrivedHandles, ArrivedConnected, ArrivedKey, ArrivedRest DEF Me!ClientNext

-----------------------------------------------------------------------------
\* What I may hear: nothing while I am not connected, no second key, and no
\* answer while the lobby cannot read me.
LEMMA ArrivedHears ==
    ASSUME ClientInv, ArrivedInv, LobbyStep, UNCHANGED sealed,
           conn'[me] # "none" <=> conn[me] # "none",
           conn[me] = "none" => out'[me] = <<>>,
           out'[me] \in Seq(FromLobby),
           Marks(out'[me], {"Key"}) = {},
           Me!Deaf => Marks(out'[me], Me!Results) = {}
    PROVE  ArrivedInv'
  <1>1. inbox' = inbox \o out'[me] /\ UNCHANGED <<stack, keyed, lobby_link>>
    BY DEF LobbyStep, Deliver, ClientWaits
  <1>2. /\ Nested' = Nested /\ stack'[1] = stack[1] /\ Done' = Done
        /\ Me!At("greet_connect")' = Me!At("greet_connect") /\ Me!Deaf' = Me!Deaf
    BY <1>1, Kept DEF Done, Me!At, Me!Deaf
  <1>3. inbox \in Seq(FromLobby)
    BY DEF ClientInv, Valued
  <1>4. KeyAt = {} => KeyAt' = {}
    BY <1>1, <1>3, MarksConcat DEF KeyAt
  <1>5. Me!Deaf /\ AnsweredAt = {} => AnsweredAt' = {}
    BY <1>1, <1>3, MarksConcat DEF AnsweredAt, Me!Results
  <1>6. conn[me] = "none" /\ inbox = <<>> => inbox' = <<>>
    BY <1>1
  <1> QED
    BY <1>1, <1>2, <1>4, <1>5, <1>6 DEF ArrivedInv

LEMMA NoMarksIn ==
    /\ Marks(<<>>, {"Key"}) = {} /\ Marks(<<>>, Me!Results) = {}
    /\ \A h : h # "Key" => Marks(<<Message(h)>>, {"Key"}) = {}
    /\ \A h : h \notin Me!Results => Marks(<<Message(h)>>, Me!Results) = {}
    /\ \A x \in Seq(Reports) : Marks(x, {"Key"}) = {} /\ Marks(x, Me!Results) = {}
    /\ \A x \in Seq(Reports), h \in Me!Results :
         LET heard == <<Message(h)>> \o x
         IN  Marks(heard, {"Key"}) = {} /\ Marks(heard, Me!Results) = {1} /\ heard[1] = Message(h)
  <1>1. Marks(<<>>, {"Key"}) = {} /\ Marks(<<>>, Me!Results) = {}
    BY DEF Marks
  <1>2. ASSUME NEW h, NEW H, h \notin H PROVE Marks(<<Message(h)>>, H) = {}
    BY <1>2 DEF Marks, Message
  <1>3. \A y \in Reports : y.header # "Key" /\ y.header \notin Me!Results
    BY DEF Reports, Talk, Me!Results
  <1>4. ASSUME NEW x \in Seq(Reports)
        PROVE  Marks(x, {"Key"}) = {} /\ Marks(x, Me!Results) = {}
    BY <1>3, NoMarks
  <1>5. ASSUME NEW x \in Seq(Reports), NEW h \in Me!Results
        PROVE  LET heard == <<Message(h)>> \o x
               IN  Marks(heard, {"Key"}) = {} /\ Marks(heard, Me!Results) = {1}
                   /\ heard[1] = Message(h)
    <2> DEFINE first == Message(h)
               heard == <<first>> \o x
    <2>1. first.header = h
      BY DEF Message
    <2>2. Message(h) = first
      OBVIOUS
    <2>3. Marks(<<first>>, {"Key"}) = {}
      BY <1>2 DEF Me!Results
    <2> HIDE DEF first
    <2>4. Marks(heard, Me!Results) = {1} /\ heard[1] = first
      BY <1>3, <2>1, FirstMark
    <2>5. Marks(heard, {"Key"}) = {}
      <3>1. <<first>> \in Seq({first} \cup Reports) /\ x \in Seq({first} \cup Reports)
        OBVIOUS
      <3> QED
        BY <1>4, <2>3, <3>1, MarksConcat
    <2> QED
      BY <2>2, <2>4, <2>5
  <1> QED
    BY <1>1, <1>2, <1>4, <1>5

LEMMA ArrivedGreets ==
    ASSUME LobbyInv, ClientInv, ArrivedInv, LobbyGreetsMe
    PROVE  ArrivedInv'
  <1>1. /\ LobbyStep /\ lobby_link /\ ~Me!At("greet_connect") /\ ~Me!At("done")
        /\ conn[me] = "none" /\ conn'[me] = "connected"
        /\ \/ out'[me] = Hello /\ sealed' = TRUE
           \/ out'[me] = <<>> /\ UNCHANGED sealed
    BY GreetsMe
  <1>2. inbox' = inbox \o out'[me] /\ UNCHANGED <<stack, keyed, lobby_link>>
    BY <1>1 DEF LobbyStep, Deliver, ClientWaits
  <1>3. /\ Nested' = Nested /\ stack'[1] = stack[1] /\ Done' = Done
        /\ Me!At("greet_connect")' = Me!At("greet_connect")
    BY <1>2, Kept DEF Done, Me!At
  <1>4. inbox = <<>> /\ ~Done /\ ~Nested /\ ~sealed /\ ~keyed
    BY <1>1 DEF ArrivedInv, Done
  <1>5. AnsweredAt' = {}
    <2>1. CASE out'[me] = Hello
      <3> DEFINE a == Message("Key")
                 b == About("ClientId", id_counter)
                 c == Message("RoomList")
      <3>1. a.header \notin Me!Results /\ b.header \notin Me!Results /\ c.header \notin Me!Results
        BY DEF Message, About, Me!Results
      <3>2. Hello = <<a, b, c>>
        BY DEF Hello
      <3> HIDE DEF a, b, c
      <3>3. inbox' = <<a, b, c>>
        BY <1>2, <1>4, <2>1, <3>2
      <3>4. \A n \in DOMAIN <<a, b, c>> : <<a, b, c>>[n] \in {a, b, c}
        OBVIOUS
      <3> QED
        BY <3>1, <3>3, <3>4 DEF AnsweredAt, Marks
    <2>2. CASE out'[me] = <<>>
      BY <1>2, <1>4, <2>2 DEF AnsweredAt, Marks
    <2> QED
      BY <1>1, <2>1, <2>2
  <1>6. KeyAt' # {} => sealed'
    <2>1. out'[me] = <<>> => KeyAt' = {}
      BY <1>2, <1>4 DEF KeyAt, Marks
    <2> QED
      BY <1>1, <2>1
  <1> QED
    BY <1>1, <1>2, <1>3, <1>4, <1>5, <1>6 DEF ArrivedInv

LEMMA ArrivedServes ==
    ASSUME LobbyInv, ClientInv, ArrivedInv, LobbyServesMe
    PROVE  ArrivedInv'
  <1>1. LobbyStep /\ UNCHANGED <<sealed, min_port>>
    BY ServesMe DEF LobbyStep, agentSide
  <1>2. PICK packet \in ToLobby : Serves(packet)
    BY ServesMe
  <1>3. Replies(packet) /\ out'[me] \in Seq(FromLobby)
    BY <1>1, <1>2, ServesReplies, SaidTypes
  <1>4. conn[me] # "none" /\ conn'[me] # "none"
    <2>1. conn \in [Peer -> {"none", "connected", "greeted"}] /\ me \in Peer
      BY Constants DEF LobbyInv, Tabled, Client
    <2>2. CASE UNCHANGED conn
      BY <1>2, <2>2 DEF Serves
    <2>3. CASE conn' = [conn EXCEPT ![me] = "greeted"] /\ conn[me] = "connected"
      BY <2>1, <2>3
    <2>4. Join(me, packet.room) => conn[me] = "greeted" /\ UNCHANGED conn
      BY DEF Join, Requests, Links
    <2> QED
      BY <1>2, <2>2, <2>3, <2>4 DEF Serves
  <1>5. Marks(out'[me], {"Key"}) = {}
    <2>1. {"ResultSuccess", "ResultFailed"} = Me!Results
      BY DEF Me!Results
    <2>2. \A h \in {"RoomList", "ResultSuccess", "ResultFailed"} : Marks(<<Message(h)>>, {"Key"}) = {}
      BY NoMarksIn
    <2>3. \A x \in Seq(Reports) : Marks(<<Message("ResultSuccess")>> \o x, {"Key"}) = {}
      BY <2>1, NoMarksIn
    <2> QED
      BY <1>3, <2>2, <2>3, NoMarksIn DEF Replies
  <1>6. Me!Deaf => Marks(out'[me], Me!Results) = {}
    BY <1>2, NoMarksIn DEF Serves
  <1> QED
    BY <1>1, <1>3, <1>4, <1>5, <1>6, ArrivedHears

LEMMA ArrivedLoses ==
    ASSUME LobbyInv, ClientInv, ArrivedInv, LobbyLosesMe
    PROVE  ArrivedInv'
  <1>1. LobbyStep /\ Me!At("done") /\ out'[me] = <<>> /\ conn'[me] = "none" /\ UNCHANGED sealed
    BY LosesMe
  <1>2. inbox' = inbox \o <<>> /\ UNCHANGED <<stack, keyed, lobby_link>>
    BY <1>1 DEF LobbyStep, Deliver, ClientWaits
  <1>3. /\ Nested' = Nested /\ stack'[1] = stack[1] /\ Done' = Done /\ Me!Deaf' = Me!Deaf
    BY <1>1, <1>2, Kept DEF Done, Me!At, Me!Deaf
  <1>4. inbox' = inbox
    BY <1>2 DEF ClientInv, Valued
  <1>5. Done /\ ~Nested /\ KeyAt' = KeyAt /\ AnsweredAt' = AnsweredAt
    BY <1>1, <1>4, DoneFacts DEF Done, Me!At, KeyAt, AnsweredAt, Marks
  <1> QED
    BY <1>1, <1>2, <1>3, <1>4, <1>5 DEF ArrivedInv

\* A member of a room is connected.
LEMMA MembersConnected ==
    ASSUME LobbyInv
    PROVE  MyRooms # {} => conn[me] = "greeted"
  BY RoomFacts DEF LobbyInv, Tabled, MyRooms, Members

LEMMA ArrivedElsewhere ==
    ASSUME LobbyInv, ClientInv, ArrivedInv, Elsewhere
    PROVE  ArrivedInv'
  <1>1. /\ LobbyStep /\ UNCHANGED sealed /\ conn'[me] = conn[me]
        /\ out'[me] \in Seq(Reports) /\ (MyRooms = {} => out'[me] = <<>>)
    BY DEF Elsewhere
  <1>2. out'[me] \in Seq(FromLobby)
    BY <1>1, PacketTexts, LargerRange
  <1>3. conn[me] = "none" => MyRooms = {}
    BY MembersConnected
  <1> QED
    BY <1>1, <1>2, <1>3, NoMarksIn, ArrivedHears

ReachInv == TypeInv /\ ArrivedInv

LEMMA ReachInit ==
    ASSUME Init
    PROVE  ReachInv
  <1>1. TypeInv
    BY TypeInit
  <1>2. /\ stack = <<Me!Frame("greet_connect", 0)>> /\ ~keyed /\ ~sealed /\ inbox = <<>>
        /\ conn = [p \in Peer |-> "none"] /\ me \in Peer
    BY Constants DEF Init, LobbyInit, Me!ClientInit, Me!NoRoom, Client
  <1>3. conn[me] = "none" /\ KeyAt = {} /\ AnsweredAt = {} /\ ~Me!Deaf
    <2>1. keyed = FALSE /\ sealed = FALSE /\ DOMAIN inbox = {}
      BY <1>2, NoneType DEF Init, Me!ClientInit
    <2>2. KeyAt = {} /\ AnsweredAt = {} /\ ~Me!Deaf
      BY <2>1 DEF KeyAt, AnsweredAt, Marks, Me!Deaf
    <2>3. conn[me] = "none"
      BY <1>2
    <2> QED
      BY <2>2, <2>3
  <1>4. ~Nested
    <2> DEFINE f == Me!Frame("greet_connect", 0)
    <2>1. f.at \notin ServerWaits
      BY DEF Me!Frame, ServerWaits, Events
    <2>2. stack = <<f>>
      BY <1>2
    <2> HIDE DEF f
    <2> QED
      BY <2>1, <2>2 DEF Nested
  <1> QED
    BY <1>1, <1>2, <1>3, <1>4 DEF ReachInv, ArrivedInv

LEMMA ReachStep ==
    ASSUME ReachInv, [Next]_vars
    PROVE  ReachInv'
  <1>1. TypeInv' /\ LobbyInv /\ ClientInv /\ ArrivedInv /\ TheirsInv
    BY TypeStep DEF ReachInv, TypeInv
  <1>2. CASE ClientSteps
    BY <1>1, <1>2, ArrivedClient DEF ClientSteps, ReachInv, lobbyVars
  <1>3. CASE LobbyGreetsMe
    BY <1>1, <1>3, ArrivedGreets DEF ReachInv
  <1>4. CASE LobbyServesMe
    BY <1>1, <1>4, ArrivedServes DEF ReachInv
  <1>5. CASE LobbyLosesMe
    BY <1>1, <1>5, ArrivedLoses DEF ReachInv
  <1>6. CASE TheirSteps
    BY <1>1, <1>6, TheirEffect, ArrivedElsewhere DEF ReachInv
  <1>7. CASE UNCHANGED <<clientSide, conn>>
    <2>1. UNCHANGED <<stack, keyed, sealed, lobby_link, inbox, conn>>
      BY <1>7 DEF clientSide
    <2>2. Nested' = Nested /\ stack'[1] = stack[1] /\ Me!Here' = Me!Here
      BY <1>1, <2>1, Kept
    <2> QED
      BY <1>1, <2>1, <2>2, ArrivedKept DEF ReachInv, Takes, Done, Me!At
  <1> QED
    BY <1>2, <1>3, <1>4, <1>5, <1>6, <1>7
       DEF Next, ClientIdles, TheirSteps, AgentLaunches, vars, lobbyVars

\* A client holds the key, or has it in flight, only when the lobby encrypts
\* what it sends; a connected client is linked and past its first wait; a
\* client that waits for a game server reads what the lobby sends, and no
\* answer comes to a client that cannot (EnetLobby.cpp: CONNECT and RECEIVE).
THEOREM KeysAgree == Spec => []ReachInv
  <1>1. Init => ReachInv
    BY ReachInit
  <1>2. ReachInv /\ [Next]_vars => ReachInv'
    BY ReachStep
  <1> QED
    BY <1>1, <1>2, PTL DEF Spec

-----------------------------------------------------------------------------
(***************************************************************************)
(* Where the client's requests are.                                        *)
(***************************************************************************)
Orderly == ~gave_up /\ ~crossed /\ ~Done
Agree == MyRooms = {room_id} \ {0}

\* A wait and the request it waits for; a wait and the answer on its way.
Matches(frame, packet) ==
    \/ frame.at = "create" /\ packet.header = "NewRoomInfo"
    \/ /\ frame.at = "join" /\ room_id = 0
       /\ packet.header = "ConnectRoom" /\ packet.room = frame.room
    \/ frame.at \in Leaving /\ packet.header = "DisconnectRoom" /\ packet.room = room_id
Settles(frame, answer) ==
    \/ frame.at = "create" /\ Agree
    \/ /\ frame.at = "join" /\ room_id = 0
       /\ MyRooms = IF answer.header = "ResultSuccess" THEN {frame.room} ELSE {}
    \/ /\ frame.at \in Leaving /\ MyRooms = {}
       /\ answer.header = "ResultFailed" => room_id = 0

AtRest == Waiting = {} /\ AskedAt = {} /\ AnsweredAt = {} /\ Agree
InFlight(w, n) ==
    /\ Waiting = {w} /\ AskedAt = {n} /\ AnsweredAt = {} /\ Agree
    /\ Matches(stack[w], outbox[n])
Replied(w, n) ==
    /\ Waiting = {w} /\ AskedAt = {} /\ AnsweredAt = {n}
    /\ Settles(stack[w], inbox[n])
Unheard(w) ==
    /\ Waiting = {w} /\ AskedAt = {} /\ AnsweredAt = {} /\ Agree
    /\ ~lobby_link \/ Me!Deaf

\* At most one request is on its way, with one wait for it; the client and
\* the lobby differ at most by what the answer in flight says.
Balanced ==
    \/ AtRest
    \/ \E w \in Waiting, n \in AskedAt : InFlight(w, n)
    \/ \E w \in Waiting, n \in AnsweredAt : Replied(w, n)
    \/ \E w \in Waiting : Unheard(w)
AgreeInv == Orderly => Balanced

\* The marked packet of s, if there is one, is the one of t.
Follows(s, t, H) ==
    /\ Marks(s, H) = {} => Marks(t, H) = {}
    /\ \A n : Marks(s, H) = {n} => \E k : Marks(t, H) = {k} /\ t[k] = s[n]

LEMMA FollowsSame ==
    ASSUME NEW s, NEW H
    PROVE  Follows(s, s, H)
  BY DEF Follows

LEMMA FollowsTail ==
    ASSUME NEW S, NEW s \in Seq(S), s # <<>>, NEW H, Head(s).header \notin H
    PROVE  Follows(s, Tail(s), H)
  <1>1. 1 \notin Marks(s, H)
    BY MarksTail
  <1>2. \A n : Marks(s, H) = {n} => n # 1
    BY <1>1
  <1>3. /\ Marks(s, H) = {} => Marks(Tail(s), H) = {}
        /\ \A m : Marks(s, H) = {m} /\ m # 1 =>
                  Marks(Tail(s), H) = {m - 1} /\ Tail(s)[m - 1] = s[m]
    BY MarksTail, Zenon
  <1> QED
    BY <1>2, <1>3 DEF Follows

LEMMA FollowsAppend ==
    ASSUME NEW S, NEW s \in Seq(S), NEW x \in S, NEW H, x.header \notin H
    PROVE  Follows(s, Append(s, x), H)
  <1>1. /\ x.header \notin H => Marks(Append(s, x), H) = Marks(s, H)
        /\ \A n \in Marks(s, H) : Append(s, x)[n] = s[n]
    <2>1. \A n \in DOMAIN s : Append(s, x)[n] = s[n]
      BY AppendFacts
    <2>2. x.header \notin H => Marks(Append(s, x), H) = Marks(s, H)
      BY MarksAppend
    <2> QED
      BY <2>1, <2>2 DEF Marks
  <1> QED
    BY <1>1 DEF Follows

LEMMA FollowsConcat ==
    ASSUME NEW S, NEW s \in Seq(S), NEW t \in Seq(S), NEW H, Marks(t, H) = {}
    PROVE  Follows(s, s \o t, H)
  <1>1. /\ Marks(t, H) = {} => Marks(s \o t, H) = Marks(s, H)
        /\ \A n \in Marks(s, H) : (s \o t)[n] = s[n]
    <2>1. \A n \in DOMAIN s : (s \o t)[n] = s[n]
      BY ConcatParts
    <2>2. Marks(t, H) = {} => Marks(s \o t, H) = Marks(s, H)
      BY MarksConcat
    <2> QED
      BY <2>1, <2>2 DEF Marks
  <1> QED
    BY <1>1 DEF Follows

\* The headers of what is marked.
LEMMA MarkedHeaders ==
    ASSUME ClientInv
    PROVE  /\ inbox # <<>> /\ AnsweredAt = {} => Head(inbox).header \notin Me!Results
           /\ inbox # <<>> /\ Head(inbox).header \in Me!Results => 1 \in AnsweredAt
           /\ outbox # <<>> /\ AskedAt = {} => Head(outbox).header \notin Asked
           /\ outbox # <<>> /\ Head(outbox).header \in Asked => 1 \in AskedAt
           /\ Me!Unanswered <=> AskedAt # {} \/ AnsweredAt # {}
  <1>1. /\ inbox # <<>> /\ Head(inbox).header \in Me!Results => 1 \in AnsweredAt
        /\ outbox # <<>> /\ Head(outbox).header \in Asked => 1 \in AskedAt
    BY MarksTail DEF AskedAt, AnsweredAt, ClientInv, Valued
  <1>2. Me!Unanswered <=> AskedAt # {} \/ AnsweredAt # {}
    BY DEF Me!Unanswered, AskedAt, AnsweredAt, Marks, Asked
  <1> QED
    BY <1>1, <1>2

LEMMA TakesFollows ==
    ASSUME ClientInv, Takes,
           inbox' = inbox \/ AnsweredAt = {} \/ Head(inbox).header \notin Me!Results
    PROVE  Follows(inbox, inbox', Me!Results)
  <1>1. CASE inbox' = inbox
    BY <1>1, FollowsSame
  <1>2. CASE inbox # <<>> /\ inbox' = Tail(inbox) /\ Head(inbox).header \notin Me!Results
    BY <1>2, FollowsTail DEF ClientInv, Valued
  <1> QED
    BY <1>1, <1>2, MarkedHeaders DEF Takes

LEMMA Undisturbed ==
    ASSUME Balanced, room_id' = room_id, MyRooms' = MyRooms, Waiting' = Waiting,
           \A w \in Waiting : stack'[w] = stack[w],
           Follows(outbox, outbox', Asked), Follows(inbox, inbox', Me!Results),
           (~lobby_link \/ Me!Deaf) => (~lobby_link' \/ Me!Deaf')
    PROVE  Balanced'
  <1>1. Agree' = Agree
    BY DEF Agree
  <1>2. /\ AskedAt = {} => AskedAt' = {}
        /\ AnsweredAt = {} => AnsweredAt' = {}
        /\ \A n : AskedAt = {n} => \E k : AskedAt' = {k} /\ outbox'[k] = outbox[n]
        /\ \A n : AnsweredAt = {n} => \E k : AnsweredAt' = {k} /\ inbox'[k] = inbox[n]
    BY DEF Follows, AskedAt, AnsweredAt, Me!Results
  <1>3. CASE AtRest
    BY <1>1, <1>2, <1>3 DEF AtRest, Balanced
  <1>4. ASSUME NEW w \in Waiting, NEW n \in AskedAt, InFlight(w, n)
        PROVE  Balanced'
    <2>1. PICK k : AskedAt' = {k} /\ outbox'[k] = outbox[n]
      BY <1>2, <1>4 DEF InFlight
    <2>2. AnsweredAt' = {} /\ Waiting' = {w} /\ stack'[w] = stack[w] /\ Agree'
      BY <1>1, <1>2, <1>4 DEF InFlight
    <2>3. Matches(stack[w], outbox[n])
      BY <1>4 DEF InFlight
    <2>5. InFlight(w, k)'
      BY <2>1, <2>2, <2>3 DEF InFlight, Matches
    <2> QED
      BY <2>1, <2>2, <2>5 DEF Balanced
  <1>5. ASSUME NEW w \in Waiting, NEW n \in AnsweredAt, Replied(w, n)
        PROVE  Balanced'
    <2>1. PICK k : AnsweredAt' = {k} /\ inbox'[k] = inbox[n]
      BY <1>2, <1>5 DEF Replied
    <2>2. AskedAt' = {} /\ Waiting' = {w} /\ stack'[w] = stack[w]
      BY <1>2, <1>5 DEF Replied
    <2>3. Settles(stack[w], inbox[n])
      BY <1>5 DEF Replied
    <2>5. Replied(w, k)'
      BY <1>1, <2>1, <2>2, <2>3 DEF Replied, Settles
    <2> QED
      BY <2>1, <2>2, <2>5 DEF Balanced
  <1>6. ASSUME NEW w \in Waiting, Unheard(w)
        PROVE  Balanced'
    <2>1. Unheard(w)'
      BY <1>1, <1>2, <1>6 DEF Unheard
    <2> QED
      BY <1>6, <2>1 DEF Balanced
  <1> QED
    BY <1>3, <1>4, <1>5, <1>6 DEF Balanced

\* Nobody waits: nothing is on its way.
LEMMA NobodyWaits ==
    ASSUME Balanced, Waiting = {}
    PROVE  AtRest
  BY DEF Balanced

LEMMA RestKept ==
    ASSUME Balanced, Waiting = {}, Waiting' = {}, room_id' = room_id, MyRooms' = MyRooms,
           Follows(outbox, outbox', Asked), Follows(inbox, inbox', Me!Results)
    PROVE  Balanced'
  <1>1. AtRest
    BY NobodyWaits
  <1>2. AskedAt' = {} /\ AnsweredAt' = {} /\ Agree'
    BY <1>1 DEF AtRest, Follows, AskedAt, AnsweredAt, Agree, Me!Results
  <1> QED
    BY <1>2 DEF Balanced, AtRest

\* No request is on its way.
LEMMA NothingAsked ==
    ASSUME Balanced, AskedAt = {}, AnsweredAt = {}
    PROVE  Agree /\ (Waiting = {} \/ \E w : Waiting = {w} /\ (~lobby_link \/ Me!Deaf))
  BY DEF Balanced, AtRest, InFlight, Replied, Unheard

-----------------------------------------------------------------------------
(***************************************************************************)
(* The client's own steps keep the balance.                                *)
(***************************************************************************)
LEMMA OrderlyBefore ==
    ASSUME Orderly', ~Done, gave_up' = gave_up \/ ~gave_up, crossed' = crossed \/ ~crossed
    PROVE  Orderly
  BY DEF Orderly

\* A packet handled in the main loop or under a wait is no answer.
LEMMA ReadsPass ==
    ASSUME ClientInv, ArrivedInv, AgreeInv, UNCHANGED sealed, Me!MainReads \/ Me!LoopReads
    PROVE  /\ Me!Here.at \in Listening /\ ~Done /\ Takes
           /\ UNCHANGED <<keyed, lobby_link, outbox, gave_up, crossed, room_id>>
           /\ Waiting' = Waiting /\ (\A w \in Waiting : stack'[w] = stack[w])
           /\ Orderly' => /\ Orderly /\ Balanced
                          /\ inbox' = inbox \/ Head(inbox).header \notin Me!Results
  <1>1. /\ Me!Here.at \in Listening
        /\ UNCHANGED <<keyed, lobby_link, outbox, gave_up, crossed>>
        /\ \/ Me!NextFromLobby /\ \E packet \in FromLobby : Handled(packet)
           \/ Me!NextFromGame /\ \E packet \in FromServer : Handled(packet)
    BY MainReadsCases, LoopReadsCases DEF Handled, Me!Identity, Me!History
  <1>2. Takes
    BY <1>1 DEF Takes, Me!NextFromLobby, Me!NextFromGame
  <1>3. Me!Here.at \notin Alone \cup Events /\ ~Done
    BY <1>1 DEF Listening, Me!AnswerLoop, Alone, Early, Events, Done, Me!At
  <1>4. Waiting' = Waiting /\ (\A w \in Waiting : stack'[w] = stack[w])
    <2>1. CASE UNCHANGED stack
      BY <2>1, Kept
    <2>2. CASE stack' = Append(stack, Me!Frame("srv_connect", 0))
      <3> DEFINE f == Me!Frame("srv_connect", 0)
      <3>1. f \in Frames /\ f.at = "srv_connect" /\ f.at \in ServerWaits /\ f.at \notin Owing
        BY PacketTypes DEF Waits, Typed, ServerWaits, Events, Owing, Leaving
      <3>2. stack' = Append(stack, f)
        BY <2>2
      <3> HIDE DEF f
      <3> QED
        BY <1>3, <3>1, <3>2, Pushed
    <2>3. \A packet : Me!process_event(packet) =>
             UNCHANGED stack \/ stack' = Append(stack, Me!Frame("srv_connect", 0))
      BY Processed DEF Connects, Ignores, Learns, Me!LearnOf, Enters, Skips
    <2> QED
      BY <1>1, <2>1, <2>2, <2>3 DEF Handled, Me!ThrowAway
  <1>5. room_id' = room_id
    <2>1. \A packet : Handled(packet) => room_id' = room_id
      BY Processed DEF Handled, Me!ThrowAway, Me!Place
    <2> QED
      BY <1>1, <2>1
  <1>6. ASSUME Orderly'
        PROVE  Orderly /\ Balanced /\ (inbox' = inbox \/ Head(inbox).header \notin Me!Results)
    <2>0. Orderly /\ Balanced
      BY <1>1, <1>3, <1>6, OrderlyBefore DEF AgreeInv
    <2>1. CASE Waiting = {} /\ Me!NextFromLobby
      <3>1. AnsweredAt = {} /\ inbox # <<>>
        BY <2>0, <2>1, NobodyWaits DEF AtRest, Me!NextFromLobby
      <3> QED
        BY <2>0, <3>1, MarkedHeaders
    <2>2. CASE Waiting # {} /\ Me!NextFromLobby
      <3>1. Me!Here.at \notin Bottom /\ Me!Here.at # "rooms"
        BY <2>2, DoneFacts
      <3>2. Me!LoopReads /\ Me!Here.at \in Me!AnswerLoop
        BY <3>1 DEF Me!MainReads, Me!LoopReads, Me!At, Bottom
      <3>3. inbox # <<>>
        BY <2>2 DEF Me!NextFromLobby
      <3>4. Me!Wanted = Me!Results
        BY <3>1 DEF Me!Wanted, Me!At, Bottom
      <3>5. Me!NextFromGame => inbox' = inbox
        BY DEF Me!NextFromGame
      <3>6. Me!Deaf \/ Head(inbox).header \notin Me!Results \/ Me!NextFromGame
        BY <3>2, <3>4 DEF Me!LoopReads
      <3>7. Me!Deaf => Head(inbox).header \notin Me!Results
        BY <3>3, MarkedHeaders DEF ArrivedInv
      <3> QED
        BY <2>0, <3>5, <3>6, <3>7
    <2>3. Me!NextFromGame => inbox' = inbox
      BY DEF Me!NextFromGame
    <2> QED
      BY <1>1, <2>0, <2>1, <2>2, <2>3
  <1> QED
    BY <1>1, <1>2, <1>3, <1>4, <1>5, <1>6

LEMMA ReadsBalance ==
    ASSUME ClientInv, ArrivedInv, AgreeInv, MyRooms' = MyRooms, UNCHANGED sealed,
           Me!MainReads \/ Me!LoopReads
    PROVE  AgreeInv'
  <1>1. /\ Takes /\ UNCHANGED <<keyed, lobby_link, outbox, room_id>>
        /\ Waiting' = Waiting /\ (\A w \in Waiting : stack'[w] = stack[w])
        /\ Orderly' => Balanced /\ (inbox' = inbox \/ Head(inbox).header \notin Me!Results)
    BY ReadsPass
  <1>2. SUFFICES ASSUME Orderly' PROVE Balanced'
    BY DEF AgreeInv
  <1>3. Follows(inbox, inbox', Me!Results)
    BY <1>1, <1>2, TakesFollows
  <1>4. Follows(outbox, outbox', Asked) /\ Me!Deaf' = Me!Deaf /\ lobby_link' = lobby_link
    BY <1>1, FollowsSame DEF Me!Deaf
  <1> QED
    BY <1>1, <1>2, <1>3, <1>4, Undisturbed

\* A wait that ends with nothing on its way.
LEMMA EndsBalance ==
    ASSUME ClientInv, Balanced, MyRooms' = MyRooms, Me!Here.at \in Me!AnswerLoop, Ends,
           UNCHANGED <<room_id, inbox, outbox>>, ~Me!Unanswered, ~Done'
    PROVE  Balanced'
  <1>1. AskedAt = {} /\ AnsweredAt = {}
    BY MarkedHeaders
  <1>2. Agree /\ \A n \in Waiting : Waiting = {n}
    BY <1>1, NothingAsked
  <1>3. Me!Here.at # "exit" /\ Waiting' = Waiting \ {Len(stack)}
    BY EndsTypes DEF Done, Me!At, Me!Frame
  <1>4. Waiting' = {}
    <2>1. Me!Here.at \in Owing \/ Me!Here.at \in {"rooms", "greet_list"}
      BY DEF Me!AnswerLoop, Owing, Leaving
    <2>2. Me!Here.at \in Owing => Len(stack) \in Waiting
      BY DoneFacts
    <2>3. Me!Here.at \in {"rooms", "greet_list"} => Waiting = {}
      BY DoneFacts DEF Bottom
    <2> QED
      BY <1>2, <1>3, <2>1, <2>2, <2>3
  <1>5. AskedAt' = {} /\ AnsweredAt' = {} /\ Agree'
    BY <1>1, <1>2 DEF AskedAt, AnsweredAt, Agree, Marks
  <1> QED
    BY <1>4, <1>5 DEF Balanced, AtRest

LEMMA GivesUpBalance ==
    ASSUME ClientInv, AgreeInv, MyRooms' = MyRooms, UNCHANGED sealed, Me!LoopGivesUp
    PROVE  AgreeInv'
  <1>1. /\ Me!Here.at \in Me!AnswerLoop /\ Ends
        /\ gave_up' = (gave_up \/ Me!Unanswered) /\ UNCHANGED <<room_id, inbox, outbox, crossed>>
    BY DEF Me!LoopGivesUp, Ends, Me!Place
  <1>2. ~Done
    BY <1>1 DEF Done, Me!At, Me!AnswerLoop
  <1>3. ASSUME Orderly' PROVE Balanced'
    <2>1. Orderly /\ ~Me!Unanswered /\ ~Done'
      BY <1>1, <1>2, <1>3 DEF Orderly
    <2> QED
      BY <1>1, <2>1, EndsBalance DEF AgreeInv
  <1> QED
    BY <1>3 DEF AgreeInv

LEMMA ServerGoneBalance ==
    ASSUME ClientInv, AgreeInv, MyRooms' = MyRooms, UNCHANGED sealed, Me!ServerGone
    PROVE  AgreeInv'
  <1>1. /\ gave_up' = (gave_up \/ (Me!Here.at \in Me!AnswerLoop /\ Me!Unanswered))
        /\ UNCHANGED <<room_id, inbox, outbox, crossed, keyed, lobby_link>> /\ ~Done
    BY DEF Me!ServerGone, Me!Place, Done, Me!Identity
  <1>2. \/ Me!Here.at \in Events /\ stack' = Me!Below
        \/ Me!Here.at = "main" /\ UNCHANGED stack
        \/ Me!Here.at \in Me!AnswerLoop /\ Ends
    BY ServerGoneTypes
  <1>3. ASSUME Orderly', Waiting' = Waiting, \A w \in Waiting : stack'[w] = stack[w] PROVE Balanced'
    <2>1. Orderly
      BY <1>1, <1>3 DEF Orderly
    <2>2. Follows(outbox, outbox', Asked) /\ Follows(inbox, inbox', Me!Results) /\ Me!Deaf' = Me!Deaf
      BY <1>1, FollowsSame DEF Me!Deaf
    <2> QED
      BY <1>1, <1>3, <2>1, <2>2, Undisturbed DEF AgreeInv
  <1>4. ASSUME Orderly', Me!Here.at \in Me!AnswerLoop, Ends PROVE Balanced'
    <2>1. Orderly /\ ~Me!Unanswered /\ ~Done'
      BY <1>1, <1>4 DEF Orderly
    <2> QED
      BY <1>1, <1>4, <2>1, EndsBalance DEF AgreeInv
  <1> QED
    BY <1>2, <1>3, <1>4, EventEnds, Kept DEF AgreeInv

\* The waits for a game server, but for the one that asks to leave.
LEMMA ServerWaitsBalance ==
    ASSUME ClientInv, AgreeInv, MyRooms' = MyRooms, UNCHANGED sealed,
           Me!ServerConnected \/ Me!ServerKey \/ Me!ServerGreets
    PROVE  AgreeInv'
  <1>1. /\ UNCHANGED <<room_id, outbox, keyed, lobby_link, gave_up>>
        /\ ~crossed' => ~crossed /\ (Me!ServerKey => ~Me!Unanswered)
    <2>1. UNCHANGED <<room_id, outbox, keyed, lobby_link, gave_up>>
      BY DEF Me!ServerConnected, Me!ServerKey, Me!ServerGreets, Me!Identity, Me!Place, Me!History
    <2>2. Me!ServerKey => crossed' = (crossed \/ Me!Unanswered)
      BY DEF Me!ServerKey
    <2>3. ~Me!ServerKey => crossed' = crossed
      BY DEF Me!ServerConnected, Me!ServerGreets, Me!History
    <2>4. ASSUME Me!ServerKey, ~crossed' PROVE ~crossed /\ ~Me!Unanswered
      BY <2>2, <2>4
    <2>5. ASSUME ~Me!ServerKey, ~crossed' PROVE ~crossed
      BY <2>3, <2>5
    <2> QED
      BY <2>1, <2>4, <2>5
  <1>2. Takes /\ (Me!ServerKey \/ inbox' = inbox)
    BY DEF Me!ServerConnected, Me!ServerKey, Me!ServerGreets, Takes, Me!NextFromLobby, Me!NextFromGame
  <1>3. (Waiting' = Waiting /\ \A w \in Waiting : stack'[w] = stack[w]) /\ (Done => Done')
    <2>1. CASE Me!ServerConnected
      BY <2>1, ServerConnectedTypes DEF Me!ServerConnected, Done, Me!At
    <2>2. CASE Me!ServerKey
      BY <2>2, ServerKeyTypes, EventEnds DEF Me!ServerKey, Done, Me!At
    <2>3. CASE Me!ServerGreets
      BY <2>3, Kept DEF Me!ServerGreets, Done, Me!At
    <2> QED
      BY <2>1, <2>2, <2>3
  <1>4. SUFFICES ASSUME Orderly' PROVE Balanced'
    BY DEF AgreeInv
  <1>5. Orderly /\ (Me!ServerKey => ~Me!Unanswered)
    BY <1>1, <1>3, <1>4 DEF Orderly
  <1>6. Balanced
    BY <1>5 DEF AgreeInv
  <1>7. inbox' = inbox \/ AnsweredAt = {} \/ Head(inbox).header \notin Me!Results
    BY <1>2, <1>5, MarkedHeaders
  <1>8. Follows(inbox, inbox', Me!Results) /\ Follows(outbox, outbox', Asked) /\ Me!Deaf' = Me!Deaf
    BY <1>1, <1>2, <1>7, TakesFollows, FollowsSame DEF Me!Deaf
  <1> QED
    BY <1>1, <1>3, <1>6, <1>8, Undisturbed

\* A request leaves when nothing else is on its way.
LEMMA AskBalance ==
    ASSUME ClientInv, MyRooms' = MyRooms, room_id' = room_id, Takes,
           AskedAt = {}, AnsweredAt = {}, Agree,
           NEW packet \in ToLobby, packet.header \in Asked, outbox' = Append(outbox, packet),
           NEW w, Waiting' = {w}, NEW frame, frame = stack'[w], Matches(frame, packet)
    PROVE  Balanced'
  <1>1. PICK n : n = Len(outbox) + 1
    OBVIOUS
  <1>2. AskedAt' = {n} /\ outbox'[n] = packet
    <2>1. outbox \in Seq(ToLobby)
      BY DEF ClientInv, Valued
    <2>2. Marks(Append(outbox, packet), Asked) = {n}
      BY <1>1, <2>1, MarksAppend DEF AskedAt
    <2>3. Append(outbox, packet)[n] = packet
      BY <1>1, <2>1, AppendFacts
    <2> QED
      BY <2>2, <2>3 DEF AskedAt
  <1>3. AnsweredAt' = {} /\ Agree'
    BY TakesMarks DEF AnsweredAt, Agree, Me!Results
  <1>4. InFlight(w, n)'
    BY <1>2, <1>3 DEF InFlight, Matches
  <1> QED
    BY <1>2, <1>4 DEF Balanced

\* Giving up a game server asks to leave the room.
LEMMA RefusedBalance ==
    ASSUME ClientInv, ArrivedInv, AgreeInv, MyRooms' = MyRooms, UNCHANGED sealed, Me!ServerRefused
    PROVE  AgreeInv'
  <1>1. /\ crossed' = (crossed \/ Me!Unanswered) /\ UNCHANGED <<room_id, gave_up>>
        /\ outbox' = Me!Sent(Me!Request("DisconnectRoom", room_id)) /\ ~Done
    BY DEF Me!ServerRefused, Me!Place, Done, Me!At
  <1>2. Takes
    BY DEF Me!ServerRefused, Takes
  <1>3. /\ Waiting' = Waiting \cup {Len(stack)} /\ Nested
        /\ stack'[Len(stack)] = Me!Frame("srv_leave", 0)
    BY ServerRefusedTypes
  <1>4. SUFFICES ASSUME Orderly' PROVE Balanced'
    BY DEF AgreeInv
  <1>5. Orderly /\ AskedAt = {} /\ AnsweredAt = {}
    BY <1>1, <1>4, MarkedHeaders DEF Orderly
  <1>6. lobby_link /\ ~Me!Deaf
    BY <1>3 DEF ArrivedInv
  <1>7. Waiting = {} /\ Agree
    BY <1>5, <1>6, NothingAsked DEF AgreeInv
  <1>8. PICK packet \in ToLobby : packet = Me!Request("DisconnectRoom", room_id)
    BY PacketTypes DEF Asked, ClientInv, Valued
  <1>9. PICK w : w = Len(stack)
    OBVIOUS
  <1>10. packet.header = "DisconnectRoom" /\ packet.room = room_id /\ packet.header \in Asked
    BY <1>8 DEF Asked, Me!Request
  <1>11. outbox' = Append(outbox, packet)
    BY <1>1, <1>6, <1>8 DEF Me!Sent
  <1>12. PICK frame : frame = stack'[w] /\ frame.at = "srv_leave"
    BY <1>3, <1>9 DEF Me!Frame
  <1>13. Matches(frame, packet)
    BY <1>10, <1>12 DEF Matches, Leaving
  <1>14. Waiting' = {w}
    BY <1>3, <1>7, <1>9
  <1> QED
    BY <1>1, <1>2, <1>5, <1>6, <1>7, <1>10, <1>11, <1>12, <1>13, <1>14, AskBalance

\* The answer a wait takes is the one it waits for.
AnswerComes ==
    /\ Waiting = {Len(stack)} /\ stack[Len(stack)] = Me!Here
    /\ AskedAt = {} /\ AnsweredAt = {1} /\ inbox[1] = Head(inbox)
    /\ Head(inbox).header \in Me!Results /\ Settles(Me!Here, Head(inbox))
    /\ AskedAt' = {} /\ AnsweredAt' = {}

LEMMA AnswerTaken ==
    ASSUME ClientInv, AgreeInv, Me!LoopAnswered, Orderly'
    PROVE  /\ Orderly /\ Balanced /\ Takes /\ UNCHANGED <<keyed, lobby_link, outbox>>
           /\ Waiting' = {} /\ Me!Here.at # "exit"
           /\ \/ /\ Me!Here.at \in {"greet_list", "rooms"}
                 /\ Waiting = {} /\ AnsweredAt = {} /\ UNCHANGED <<room_id, roster>>
              \/ /\ Me!Here.at = "create" /\ AnswerComes /\ UNCHANGED <<room_id, roster>>
              \/ /\ Me!Here.at = "join" /\ AnswerComes /\ UNCHANGED roster
                 /\ room_id' = IF Head(inbox).header = "ResultSuccess" THEN Me!Here.room ELSE room_id
              \/ /\ Me!Here.at \in Leaving /\ AnswerComes
                 /\ \/ Head(inbox).header = "ResultSuccess" /\ room_id' = 0 /\ roster' = {}
                    \/ Head(inbox).header = "ResultFailed" /\ UNCHANGED <<room_id, roster>>
  <1>1. /\ Me!Here.at \in Me!AnswerLoop /\ inbox # <<>> /\ inbox' = Tail(inbox)
        /\ Head(inbox).header \in Me!Wanted /\ stack' = Me!Finished
        /\ UNCHANGED <<keyed, lobby_link, outbox, gave_up, crossed>>
        /\ \/ /\ Me!Here.at \in Leaving /\ Head(inbox).header = "ResultSuccess"
              /\ room_id' = 0 /\ roster' = {}
           \/ /\ ~(Me!Here.at \in Leaving /\ Head(inbox).header = "ResultSuccess")
              /\ room_id' = (IF Me!At("join") THEN Me!JoinedRoom(Head(inbox).header) ELSE room_id)
              /\ roster' = roster
    BY DEF Me!LoopAnswered, Me!ForgetRoom, Me!Identity, Leaving, Me!NoRoom
  <1>2. Ends /\ ~Done
    BY <1>1 DEF Ends, Done, Me!At, Me!AnswerLoop
  <1>3. Orderly /\ Balanced /\ ~Done'
    BY <1>1, <1>2 DEF Orderly, AgreeInv
  <1>4. Me!Here.at # "exit" /\ Waiting' = Waiting \ {Len(stack)}
    BY <1>1, <1>2, <1>3, EndsTypes DEF Done, Me!At, Me!Frame
  <1>5. Takes
    BY <1>1 DEF Takes
  <1>6. CASE Me!Here.at \in {"greet_list", "rooms"}
    <2>1. Waiting = {} /\ Waiting' = {} /\ AnsweredAt = {}
      BY <1>3, <1>4, <1>6, DoneFacts, NobodyWaits DEF Bottom, AtRest
    <2>2. room_id' = room_id /\ roster' = roster
      BY <1>1, <1>6 DEF Me!At, Leaving
    <2> QED
      BY <1>1, <1>3, <1>4, <1>5, <1>6, <2>1, <2>2
  <1>7. CASE Me!Here.at \in {"create", "join", "leave", "srv_leave"}
    <2>1. Len(stack) \in Waiting /\ stack[Len(stack)] = Me!Here
      BY <1>7, DoneFacts DEF Owing, Leaving
    <2>2. Head(inbox).header \in Me!Results
      BY <1>1, <1>7 DEF Me!Wanted, Me!At
    <2>3. 1 \in AnsweredAt
      BY <1>1, <2>2, MarkedHeaders
    <2>4. PICK w, n : Replied(w, n)
      BY <1>3, <2>3 DEF Balanced, AtRest, InFlight, Unheard
    <2>5. w = Len(stack) /\ n = 1
      BY <2>1, <2>3, <2>4 DEF Replied
    <2>6. inbox[1] = Head(inbox)
      BY <1>1, TailFacts DEF ClientInv, Valued
    <2>7. Settles(Me!Here, Head(inbox)) /\ Waiting = {Len(stack)} /\ AskedAt = {} /\ AnsweredAt = {1}
      BY <2>1, <2>4, <2>5, <2>6 DEF Replied
    <2>8. AnsweredAt' = {} /\ AskedAt' = {} /\ Waiting' = {}
      <3>1. Marks(Tail(inbox), Me!Results) = {}
        BY <1>1, <2>7, MarksTail DEF AnsweredAt, ClientInv, Valued
      <3> QED
        BY <1>1, <1>4, <2>7, <3>1 DEF AnsweredAt, AskedAt, Me!Results
    <2>9. AnswerComes
      BY <2>1, <2>2, <2>6, <2>7, <2>8 DEF AnswerComes
    <2>10. CASE Me!Here.at = "create"
      BY <1>1, <1>3, <1>4, <1>5, <2>8, <2>9, <2>10 DEF Me!At, Leaving
    <2>11. CASE Me!Here.at = "join"
      BY <1>1, <1>3, <1>4, <1>5, <2>8, <2>9, <2>11 DEF Me!At, Leaving, Me!JoinedRoom
    <2>12. CASE Me!Here.at \in Leaving
      <3>1. ~Me!At("join")
        BY <2>12 DEF Me!At, Leaving
      <3>2. \/ Head(inbox).header = "ResultSuccess" /\ room_id' = 0 /\ roster' = {}
            \/ Head(inbox).header = "ResultFailed" /\ UNCHANGED <<room_id, roster>>
        BY <1>1, <2>2, <2>12, <3>1 DEF Me!Results
      <3> QED
        BY <1>1, <1>3, <1>4, <1>5, <2>8, <2>9, <2>12, <3>2
    <2> QED
      BY <1>7, <2>10, <2>11, <2>12 DEF Leaving
  <1> QED
    BY <1>1, <1>4, <1>6, <1>7 DEF Me!AnswerLoop

\* It settles what the wait on top asked for.
LEMMA AnsweredBalance ==
    ASSUME ClientInv, LobbyInv, AgreeInv, MyRooms' = MyRooms, UNCHANGED sealed, Me!LoopAnswered
    PROVE  AgreeInv'
  <1>1. SUFFICES ASSUME Orderly' PROVE Balanced'
    BY DEF AgreeInv
  <1>2. Balanced /\ Takes /\ UNCHANGED outbox /\ Waiting' = {}
    BY <1>1, AnswerTaken
  <1>3. 0 \notin MyRooms
    BY DEF MyRooms, Rooms, LobbyInv, Tabled
  <1>4. CASE Waiting = {} /\ AnsweredAt = {} /\ UNCHANGED room_id
    <2>1. Follows(inbox, inbox', Me!Results) /\ Follows(outbox, outbox', Asked)
      BY <1>2, <1>4, TakesFollows, FollowsSame
    <2> QED
      BY <1>2, <1>4, <2>1, RestKept
  <1>5. CASE AnswerComes /\ MyRooms = {room_id'} \ {0}
    BY <1>2, <1>5 DEF AnswerComes, Balanced, AtRest, Agree
  <1>6. CASE Me!Here.at = "create" /\ AnswerComes /\ UNCHANGED room_id
    BY <1>5, <1>6 DEF AnswerComes, Settles, Agree, Leaving
  <1>7. CASE /\ Me!Here.at = "join" /\ AnswerComes
             /\ room_id' = IF Head(inbox).header = "ResultSuccess" THEN Me!Here.room ELSE room_id
    BY <1>3, <1>5, <1>7 DEF AnswerComes, Settles, Leaving
  <1>8. CASE /\ Me!Here.at \in Leaving /\ AnswerComes
             /\ \/ Head(inbox).header = "ResultSuccess" /\ room_id' = 0
                \/ Head(inbox).header = "ResultFailed" /\ UNCHANGED room_id
    BY <1>5, <1>8 DEF AnswerComes, Settles, Leaving
  <1> QED
    BY <1>1, <1>4, <1>6, <1>7, <1>8, AnswerTaken

LEMMA GreetingBalance ==
    ASSUME ClientInv, AgreeInv, MyRooms' = MyRooms, UNCHANGED sealed,
           Me!GreetConnected \/ Me!GreetKey \/ Me!GreetId
    PROVE  AgreeInv'
  <1>1. /\ Me!Here.at \in Early /\ UNCHANGED <<room_id, gave_up, crossed, link, server_peer, fromGame, toGame>>
        /\ \E w \in {"greet_key", "main", "greet_id", "greet_list"} : stack' = Me!Goto(w)
    BY DEF Me!GreetConnected, Me!GreetKey, Me!GreetId, Me!GreetKeeps, Me!At, Early, Me!Place,
       Me!History, Me!GameLink
  <1>2. Me!Here.at \in Bottom /\ ~Done /\ Waiting = {}
    BY <1>1, DoneFacts DEF Bottom, Alone, Early, Done, Me!At
  <1>3. Waiting' = {}
    <2>1. PICK w \in {"greet_key", "main", "greet_id", "greet_list"} : stack' = Me!Goto(w)
      BY <1>1
    <2>2. w \in Bottom \ {"greet_connect"}
      BY DEF Bottom, Alone, Early
    <2>3. link = "free"
      BY <1>1, <1>2, DoneFacts DEF ClientInv, LinkOK
    <2> QED
      BY <1>1, <1>2, <2>1, <2>2, <2>3, GreetTypes
  <1>4. SUFFICES ASSUME Orderly' PROVE Balanced'
    BY DEF AgreeInv
  <1>5. Balanced /\ AnsweredAt = {}
    BY <1>1, <1>2, <1>4, NobodyWaits DEF Orderly, AgreeInv, AtRest
  <1>6. Takes
    BY DEF Me!GreetConnected, Me!GreetKey, Me!GreetId, Takes
  <1>7. Follows(inbox, inbox', Me!Results)
    BY <1>5, <1>6, TakesFollows
  <1>8. Follows(outbox, outbox', Asked)
    <2>1. CASE UNCHANGED outbox
      BY <2>1, FollowsSame
    <2>2. CASE Me!GreetId
      <3>1. my_id' \in Ids /\ outbox' = Me!Sent(Me!Introduction(my_id'))
        BY <2>2, GreetIdTypes
      <3>2. PICK packet \in ToLobby : packet = Me!Introduction(my_id')
        BY <3>1, PacketTypes
      <3>3. packet.header \notin Asked
        BY <3>2 DEF Me!Introduction, Asked
      <3>4. outbox' = outbox \/ outbox' = Append(outbox, packet)
        BY <3>1, <3>2 DEF Me!Sent
      <3> QED
        BY <3>3, <3>4, FollowsSame, FollowsAppend DEF ClientInv, Valued
    <2> QED
      BY <2>1, <2>2 DEF Me!GreetConnected, Me!GreetKey
  <1> QED
    BY <1>1, <1>2, <1>3, <1>5, <1>7, <1>8, RestKept

LEMMA CommandBalance ==
    ASSUME ClientInv, AgreeInv, MyRooms' = MyRooms, NEW w, NEW packet, NEW r,
           Commanded(w, packet, r),
           UNCHANGED <<room_id, inbox, keyed, sealed, lobby_link, gave_up, crossed>>
    PROVE  AgreeInv'
  <1>1. /\ Waiting' = IF w \in Owing THEN Waiting \cup {Len(stack) + 1} ELSE Waiting
        /\ stack'[Len(stack) + 1].at = w /\ stack'[Len(stack) + 1].room = r
    BY CommandedTypes
  <1>2. Me!Here.at = "main" /\ outbox' = Me!Sent(packet) /\ packet \in ToLobby /\ w \in Commands
    BY DEF Commanded
  <1>3. Waiting = {} /\ ~Done
    BY <1>2, DoneFacts DEF Bottom, Done, Me!At
  <1>4. SUFFICES ASSUME Orderly' PROVE Balanced'
    BY DEF AgreeInv
  <1>5. Balanced /\ AtRest
    BY <1>3, <1>4, NobodyWaits DEF Orderly, AgreeInv
  <1>6. Follows(inbox, inbox', Me!Results)
    BY FollowsSame
  <1>7. CASE w = "rooms"
    <2>1. packet.header \notin Asked
      BY <1>7 DEF Commanded, Me!Request, Asked
    <2>2. Follows(outbox, outbox', Asked)
      BY <1>2, <2>1, FollowsSame, FollowsAppend DEF ClientInv, Valued, Me!Sent
    <2>3. Waiting' = {}
      BY <1>1, <1>3, <1>7 DEF Owing, Leaving
    <2> QED
      BY <1>3, <1>5, <1>6, <2>2, <2>3, RestKept
  <1>8. CASE w # "rooms" /\ ~lobby_link
    <2>1. PICK k : k = Len(stack) + 1
      OBVIOUS
    <2>2. Waiting' = {k}
      BY <1>1, <1>2, <1>3, <1>8, <2>1 DEF Owing, Leaving, Commands
    <2>3. outbox' = outbox
      BY <1>2, <1>8 DEF Me!Sent
    <2>4. AskedAt' = {} /\ AnsweredAt' = {} /\ Agree'
      BY <1>5, <2>3 DEF AtRest, AskedAt, AnsweredAt, Agree, Marks
    <2>5. Unheard(k)'
      BY <1>8, <2>2, <2>4 DEF Unheard
    <2> QED
      BY <2>2, <2>5 DEF Balanced
  <1>9. CASE w # "rooms" /\ lobby_link
    <2>1. PICK k : k = Len(stack) + 1
      OBVIOUS
    <2>2. Waiting' = {k}
      BY <1>1, <1>2, <1>3, <1>9, <2>1 DEF Owing, Leaving, Commands
    <2>3. PICK frame : frame = stack'[k]
      OBVIOUS
    <2>4. outbox' = Append(outbox, packet)
      BY <1>2, <1>9 DEF Me!Sent
    <2>5. frame.at = w /\ frame.room = r
      BY <1>1, <2>1, <2>3
    <2>6. Matches(frame, packet) /\ packet.header \in Asked
      BY <1>9, <2>5 DEF Commanded, Me!Request, Matches, Asked, Leaving
    <2>7. Takes
      BY DEF Takes
    <2> QED
      BY <1>2, <1>5, <2>2, <2>3, <2>4, <2>6, <2>7, AskBalance DEF AtRest
  <1> QED
    BY <1>7, <1>8, <1>9

LEMMA TypesBalance ==
    ASSUME ClientInv, AgreeInv, MyRooms' = MyRooms, UNCHANGED sealed, Me!Types \/ Me!Terminated
    PROVE  AgreeInv'
  <1>1. CASE Me!Here.at = "main" /\ stack' = Me!Goto("done")
    <2>1. UNCHANGED <<server_peer, link, fromGame, toGame>>
      BY <1>1 DEF Me!Types, Me!TypeRoom, Me!TypeRooms, Me!TypeConnect, Me!TypeDisconnect, Me!TypeExit,
         Me!TypeCreate, Me!Terminated, Me!Line, Me!GameLink
    <2>2. Done'
      BY <1>1, <2>1, QuitsTypes DEF Done, Me!At
    <2> QED
      BY <2>2 DEF AgreeInv, Orderly
  <1>2. CASE Me!TypeCreate
    <2>1. UNCHANGED <<stack, room_id, outbox, inbox, keyed, lobby_link, gave_up, crossed>>
      BY <1>2 DEF Me!TypeCreate, Me!Place, Me!Identity, Me!History
    <2>2. Me!Here' = Me!Here /\ Waiting' = Waiting /\ \A n \in Waiting : stack'[n] = stack[n]
      BY <2>1, Kept
    <2>3. Follows(inbox, inbox', Me!Results) /\ Follows(outbox, outbox', Asked) /\ Me!Deaf' = Me!Deaf
      BY <2>1, FollowsSame DEF Me!Deaf
    <2>4. Orderly' = Orderly
      BY <2>1, <2>2 DEF Orderly, Done, Me!At
    <2> QED
      BY <2>1, <2>2, <2>3, <2>4, Undisturbed DEF AgreeInv
  <1>3. CASE Me!TypeRoom \/ Me!TypeRooms \/ Me!TypeConnect \/ Me!TypeDisconnect \/ Me!TypeExit
    <2>1. Me!Line /\ (\/ \E w, packet, r : Commanded(w, packet, r)
                      \/ stack' = Me!Goto("done"))
      BY <1>3, TypedCases
    <2>2. /\ Me!Here.at = "main"
          /\ UNCHANGED <<room_id, inbox, keyed, sealed, lobby_link, gave_up, crossed>>
      BY <2>1 DEF Me!Line, Me!At, Me!Place, Me!Identity, Me!History
    <2>3. ASSUME NEW w, NEW packet, NEW r, Commanded(w, packet, r) PROVE AgreeInv'
      BY <2>2, <2>3, CommandBalance
    <2> QED
      BY <1>1, <2>1, <2>2, <2>3
  <1> QED
    BY <1>1, <1>2, <1>3 DEF Me!Types, Me!Terminated, Me!At

LEMMA ClientBalance ==
    ASSUME ClientInv, LobbyInv, ArrivedInv, AgreeInv, MyRooms' = MyRooms, Me!ClientNext
    PROVE  AgreeInv'
  <1>1. UNCHANGED sealed
    BY ClientTypes
  <1> QED
    BY <1>1, ReadsBalance, AnsweredBalance, GivesUpBalance, GreetingBalance, ServerWaitsBalance,
       RefusedBalance, ServerGoneBalance, TypesBalance DEF Me!ClientNext

-----------------------------------------------------------------------------
(***************************************************************************)
(* The lobby's steps keep the balance.                                     *)
(***************************************************************************)
LEMMA HearsBalance ==
    ASSUME ClientInv, AgreeInv, LobbyStep, MyRooms' = MyRooms,
           out'[me] \in Seq(FromLobby), Marks(out'[me], Me!Results) = {},
           Follows(outbox, outbox', Asked),
           (~lobby_link \/ Me!Deaf) => (~lobby_link' \/ Me!Deaf')
    PROVE  AgreeInv'
  <1>1. inbox' = inbox \o out'[me] /\ UNCHANGED <<stack, room_id, gave_up, crossed>>
    BY DEF LobbyStep, Deliver, ClientWaits
  <1>2. Me!Here' = Me!Here /\ Waiting' = Waiting /\ \A n \in Waiting : stack'[n] = stack[n]
    BY <1>1, Kept
  <1>3. inbox \in Seq(FromLobby)
    BY DEF ClientInv, Valued
  <1>4. Follows(inbox, inbox', Me!Results)
    BY <1>1, <1>3, FollowsConcat
  <1>5. Orderly' = Orderly
    BY <1>1, <1>2 DEF Orderly, Done, Me!At
  <1> QED
    BY <1>1, <1>2, <1>4, <1>5, Undisturbed DEF AgreeInv

LEMMA GreetsBalance ==
    ASSUME LobbyInv, ClientInv, ArrivedInv, AgreeInv, LobbyGreetsMe
    PROVE  AgreeInv'
  <1>1. /\ SameMembers /\ LobbyStep /\ UNCHANGED outbox
        /\ lobby_link /\ ~Me!At("done") /\ conn[me] = "none"
        /\ out'[me] = Hello \/ out'[me] = <<>>
    BY GreetsMe
  <1>2. ~Me!Deaf
    <2>1. keyed = FALSE /\ sealed = FALSE
      BY <1>1 DEF ArrivedInv, Done, ClientInv, Valued
    <2> QED
      BY <2>1 DEF Me!Deaf
  <1> DEFINE a == Message("Key")
             b == About("ClientId", id_counter)
             c == Message("RoomList")
  <1>3. a.header \notin Me!Results /\ b.header \notin Me!Results /\ c.header \notin Me!Results
    BY DEF Message, About, Me!Results
  <1>4. a \in FromLobby /\ b \in FromLobby /\ c \in FromLobby
    BY PacketTexts, Constants DEF LobbyInv, Tabled, Ids, Bare
  <1>5. Hello = <<a, b, c>>
    BY DEF Hello
  <1> HIDE DEF a, b, c
  <1>6. Hello \in Seq(FromLobby) /\ Marks(Hello, Me!Results) = {}
    <2>1. \A n \in DOMAIN <<a, b, c>> : <<a, b, c>>[n] \in {a, b, c}
      OBVIOUS
    <2> QED
      BY <1>3, <1>4, <1>5, <2>1 DEF Marks
  <1>7. out'[me] \in Seq(FromLobby) /\ Marks(out'[me], Me!Results) = {}
    BY <1>1, <1>6, NoMarksIn, NoneType
  <1>8. MyRooms' = MyRooms /\ Follows(outbox, outbox', Asked)
    BY <1>1, SameRooms, FollowsSame
  <1> QED
    BY <1>1, <1>2, <1>7, <1>8, HearsBalance

LEMMA LosesBalance ==
    ASSUME LobbyInv, ClientInv, LobbyLosesMe
    PROVE  AgreeInv'
  <1>1. LobbyStep /\ Me!At("done")
    BY LosesMe
  <1>2. UNCHANGED stack
    BY <1>1 DEF LobbyStep, ClientWaits
  <1>3. Done'
    BY <1>1, <1>2, Kept DEF Done, Me!At
  <1> QED
    BY <1>3 DEF AgreeInv, Orderly

LEMMA ElsewhereBalance ==
    ASSUME LobbyInv, ClientInv, AgreeInv, Elsewhere
    PROVE  AgreeInv'
  <1>1. /\ LobbyStep /\ UNCHANGED <<sealed, outbox>> /\ MyRooms' = MyRooms
        /\ out'[me] \in Seq(Reports)
    BY DEF Elsewhere
  <1>2. out'[me] \in Seq(FromLobby)
    BY <1>1, PacketTexts, LargerRange
  <1>3. Me!Deaf' = Me!Deaf /\ lobby_link' = lobby_link
    BY <1>1 DEF LobbyStep, ClientWaits, Me!Deaf
  <1> QED
    BY <1>1, <1>2, <1>3, NoMarksIn, FollowsSame, HearsBalance

\* A request nobody can read: its wait is unheard.
LEMMA UnreadBalance ==
    ASSUME ClientInv, Balanced, LobbyStep, MyRooms' = MyRooms, UNCHANGED sealed, Me!Deaf,
           out'[me] = <<>>, outbox # <<>>, outbox' = Tail(outbox), Head(outbox).header \in Asked
    PROVE  Balanced'
  <1>1. inbox' = inbox \o <<>> /\ UNCHANGED <<stack, room_id, keyed>>
    BY DEF LobbyStep, Deliver, ClientWaits
  <1>2. inbox' = inbox
    BY <1>1 DEF ClientInv, Valued
  <1>3. 1 \in AskedAt
    BY MarkedHeaders
  <1>4. PICK w, n : InFlight(w, n)
    BY <1>3 DEF Balanced, AtRest, Replied, Unheard
  <1>5. AskedAt = {1}
    BY <1>3, <1>4 DEF InFlight
  <1>6. AskedAt' = {}
    BY <1>5, MarksTail DEF AskedAt, ClientInv, Valued
  <1>7. AnsweredAt' = {} /\ Agree' /\ Me!Deaf'
    BY <1>1, <1>2, <1>4 DEF InFlight, AnsweredAt, Agree, Marks, Me!Deaf
  <1>8. Waiting' = {w}
    BY <1>1, <1>4, Kept DEF InFlight
  <1>9. Unheard(w)'
    BY <1>6, <1>7, <1>8 DEF Unheard
  <1> QED
    BY <1>8, <1>9 DEF Balanced

\* A request the lobby answers: the answer settles it.
LEMMA ReplyBalance ==
    ASSUME ClientInv, LobbyInv, LobbyStep, Balanced, ~Me!Deaf,
           outbox # <<>>, outbox' = Tail(outbox),
           NEW packet, packet = Head(outbox), packet.header \in Asked, Replies(packet)
    PROVE  Balanced'
  <1>1. inbox' = inbox \o out'[me] /\ UNCHANGED <<stack, room_id>>
    BY DEF LobbyStep, Deliver, ClientWaits
  <1>2. 1 \in AskedAt /\ outbox[1] = packet
    BY MarkedHeaders, TailFacts DEF ClientInv, Valued
  <1>3. PICK w, n : InFlight(w, n)
    BY <1>2 DEF Balanced, AtRest, Replied, Unheard
  <1>4. /\ AskedAt = {1} /\ Waiting = {w} /\ AnsweredAt = {} /\ Agree
        /\ Matches(stack[w], packet)
    <2>1. n = 1
      BY <1>2, <1>3 DEF InFlight
    <2> QED
      BY <1>2, <1>3, <2>1 DEF InFlight
  <1>5. AskedAt' = {}
    BY <1>4, MarksTail DEF AskedAt, ClientInv, Valued
  <1>6. Waiting' = {w} /\ stack'[w] = stack[w]
    BY <1>1, <1>4, Kept
  <1>7. PICK answer \in Me!Results, more \in Seq(Reports) :
          /\ out'[me] = <<Message(answer)>> \o more
          /\ \/ /\ packet.header = "NewRoomInfo" /\ MyRooms' = MyRooms
             \/ /\ packet.header = "ConnectRoom" /\ MyRooms' = MyRooms /\ answer = "ResultFailed"
             \/ /\ packet.header = "ConnectRoom" /\ MyRooms' = MyRooms \cup {packet.room}
                /\ answer = "ResultSuccess"
             \/ /\ packet.header = "DisconnectRoom" /\ packet.room \notin MyRooms
                /\ MyRooms' = MyRooms /\ answer = "ResultFailed"
             \/ /\ packet.header = "DisconnectRoom" /\ packet.room \in MyRooms
                /\ MyRooms' = MyRooms \ {packet.room} /\ answer = "ResultSuccess"
    <2>1. \A x : <<x>> = <<x>> \o <<>>
      OBVIOUS
    <2>2. <<>> \in Seq(Reports)
      OBVIOUS
    <2>3. "ResultSuccess" \in Me!Results /\ "ResultFailed" \in Me!Results
          /\ packet.header \notin {"ClientAbout", "RoomList"}
      BY DEF Me!Results, Asked
    <2>4. \A h \in {"ResultSuccess", "ResultFailed"} :
            \/ out'[me] = <<Message(h)>>
            \/ \E more \in Seq(Reports) : out'[me] = <<Message(h)>> \o more
            => \E more \in Seq(Reports) : out'[me] = <<Message(h)>> \o more
      BY <2>1, <2>2
    <2> QED
      BY <2>3, <2>4 DEF Replies
  <1>8. PICK x : x = <<Message(answer)>> \o more
    OBVIOUS
  <1>9. Marks(x, Me!Results) = {1} /\ x[1].header = answer /\ x \in Seq(FromLobby)
    <2>1. Marks(x, Me!Results) = {1} /\ x[1] = Message(answer)
      BY <1>7, <1>8, NoMarksIn
    <2>2. x \in Seq(FromLobby)
      BY <1>7, <1>8, SaidTypes
    <2> QED
      BY <2>1, <2>2 DEF Message
  <1>10. PICK k : k = Len(inbox) + 1
    OBVIOUS
  <1>11. AnsweredAt' = {k} /\ inbox'[k] = x[1]
    <2>1. inbox \in Seq(FromLobby)
      BY DEF ClientInv, Valued
    <2>2. Marks(inbox, Me!Results) = {} /\ Marks(x, Me!Results) = {1} /\ x \in Seq(FromLobby)
      BY <1>4, <1>9 DEF AnsweredAt
    <2>3. /\ Marks(inbox \o x, Me!Results) = {Len(inbox) + 1}
          /\ (inbox \o x)[Len(inbox) + 1] = x[1]
      <3>1. PICK H : H = Me!Results
        OBVIOUS
      <3>2. Marks(inbox, H) = {} /\ Marks(x, H) = {1}
        BY <2>2, <3>1
      <3>3. Marks(inbox \o x, H) = {Len(inbox) + 1}
        BY <2>1, <2>2, <3>2, MarksConcat
      <3>4. (inbox \o x)[Len(inbox) + 1] = x[1]
        BY <2>1, <2>2, ConcatParts DEF Marks
      <3> QED
        BY <3>1, <3>3, <3>4
    <2>4. inbox' = inbox \o x
      BY <1>1, <1>7, <1>8
    <2> QED
      BY <1>10, <2>3, <2>4 DEF AnsweredAt, Me!Results
  <1>12. Settles(stack[w], inbox[k])'
    <2>1. PICK frame : frame = stack[w]
      OBVIOUS
    <2>2. MyRooms = {room_id} \ {0} /\ Matches(frame, packet)
      BY <1>4, <2>1 DEF Agree
    <2>3. CASE frame.at = "create"
      <3>1. MyRooms' = MyRooms
        BY <1>7, <2>2, <2>3 DEF Matches, Leaving
      <3> QED
        BY <1>1, <1>4, <1>6, <2>1, <2>3, <3>1 DEF Settles, Agree
    <2>4. CASE frame.at = "join"
      <3>1. packet.header = "ConnectRoom" /\ packet.room = frame.room /\ room_id = 0
        BY <2>2, <2>4 DEF Matches, Leaving
      <3>2. MyRooms' = IF answer = "ResultSuccess" THEN {frame.room} ELSE {}
        BY <1>7, <2>2, <3>1
      <3> QED
        BY <1>1, <1>6, <1>9, <1>11, <2>1, <2>4, <3>1, <3>2 DEF Settles
    <2>5. CASE frame.at \in Leaving
      <3>1. packet.header = "DisconnectRoom" /\ packet.room = room_id
        BY <2>2, <2>5 DEF Matches, Leaving
      <3>2. MyRooms' = {} /\ (answer = "ResultFailed" => room_id = 0)
        BY <1>7, <2>2, <3>1
      <3> QED
        BY <1>1, <1>6, <1>9, <1>11, <2>1, <2>5, <3>2 DEF Settles
    <2> QED
      BY <2>2, <2>3, <2>4, <2>5 DEF Matches
  <1>13. Replied(w, k)'
    BY <1>5, <1>6, <1>11, <1>12 DEF Replied
  <1> QED
    BY <1>6, <1>11, <1>13 DEF Balanced

LEMMA ServesBalance ==
    ASSUME LobbyInv, ClientInv, ArrivedInv, AgreeInv, LobbyServesMe
    PROVE  AgreeInv'
  <1>1. /\ LobbyStep /\ UNCHANGED <<sealed, min_port>>
        /\ outbox # <<>> /\ outbox' = Tail(outbox)
    BY ServesMe DEF LobbyStep, agentSide
  <1>2. PICK packet \in ToLobby : packet = Head(outbox) /\ Serves(packet)
    BY ServesMe
  <1>3. Replies(packet) /\ out'[me] \in Seq(FromLobby)
    BY <1>1, <1>2, ServesReplies, SaidTypes
  <1>4. Me!Deaf' = Me!Deaf /\ lobby_link' = lobby_link /\ Orderly' = Orderly
    <2>1. UNCHANGED <<stack, keyed, lobby_link, gave_up, crossed>>
      BY <1>1 DEF LobbyStep, ClientWaits
    <2> QED
      BY <1>1, <2>1, Kept DEF Me!Deaf, Orderly, Done, Me!At
  <1>5. CASE packet.header \notin Asked
    <2>1. Follows(outbox, outbox', Asked)
      BY <1>1, <1>2, <1>5, FollowsTail DEF ClientInv, Valued
    <2>2. MyRooms' = MyRooms /\ Marks(out'[me], Me!Results) = {}
      <3>1. Me!Deaf => MyRooms' = MyRooms /\ out'[me] = <<>>
        BY <1>2, SameRooms DEF Serves
      <3>2. "RoomList" \notin Me!Results
        BY DEF Me!Results
      <3>3. ~Me!Deaf => MyRooms' = MyRooms /\ (out'[me] = <<>> \/ out'[me] = <<Message("RoomList")>>)
        BY <1>3, <1>5 DEF Replies, Asked
      <3> QED
        BY <3>1, <3>2, <3>3, NoMarksIn
    <2> QED
      BY <1>1, <1>3, <1>4, <2>1, <2>2, HearsBalance
  <1>6. CASE packet.header \in Asked /\ Me!Deaf
    <2>1. MyRooms' = MyRooms /\ out'[me] = <<>>
      BY <1>2, <1>6, SameRooms DEF Serves
    <2> QED
      BY <1>1, <1>2, <1>4, <1>6, <2>1, UnreadBalance DEF AgreeInv
  <1>7. CASE packet.header \in Asked /\ ~Me!Deaf
    BY <1>1, <1>2, <1>3, <1>4, <1>7, ReplyBalance DEF AgreeInv
  <1> QED
    BY <1>5, <1>6, <1>7

BalanceInv == ReachInv /\ AgreeInv

LEMMA BalanceInit ==
    ASSUME Init
    PROVE  BalanceInv
  <1>1. ReachInv
    BY ReachInit
  <1>2. /\ rooms = <<>> /\ stack = <<Me!Frame("greet_connect", 0)>> /\ room_id = 0
        /\ inbox = <<>> /\ outbox = <<>>
    BY DEF Init, LobbyInit, Me!ClientInit, Me!NoRoom
  <1>3. MyRooms = {}
    BY <1>2, NoneType DEF MyRooms, Rooms
  <1>4. AskedAt = {} /\ AnsweredAt = {}
    BY <1>2, NoneType DEF AskedAt, AnsweredAt, Marks
  <1>5. Waiting = {}
    <2> DEFINE f == Me!Frame("greet_connect", 0)
    <2>1. f.at \notin Owing
      BY DEF Me!Frame, Owing, Leaving
    <2>2. stack = <<f>>
      BY <1>2
    <2> HIDE DEF f
    <2> QED
      BY <2>1, <2>2 DEF Waiting
  <1> QED
    BY <1>1, <1>2, <1>3, <1>4, <1>5 DEF BalanceInv, AgreeInv, Balanced, AtRest, Agree

LEMMA BalanceStep ==
    ASSUME BalanceInv, [Next]_vars
    PROVE  BalanceInv'
  <1>1. ReachInv' /\ LobbyInv /\ ClientInv /\ ArrivedInv /\ TheirsInv /\ AgreeInv
    BY ReachStep DEF BalanceInv, ReachInv, TypeInv
  <1>2. CASE ClientSteps
    <2>1. Me!ClientNext /\ UNCHANGED <<lobbyVars, agentSide, theirSide>>
      BY <1>2 DEF ClientSteps
    <2>2. MyRooms' = MyRooms
      BY <1>1, <2>1, LobbyUnchanged
    <2> QED
      BY <1>1, <2>1, <2>2, ClientBalance DEF BalanceInv
  <1>3. CASE LobbyGreetsMe
    BY <1>1, <1>3, GreetsBalance DEF BalanceInv
  <1>4. CASE LobbyServesMe
    BY <1>1, <1>4, ServesBalance DEF BalanceInv
  <1>5. CASE LobbyLosesMe
    BY <1>1, <1>5, LosesBalance DEF BalanceInv
  <1>6. CASE TheirSteps
    BY <1>1, <1>6, TheirEffect, ElsewhereBalance DEF BalanceInv
  <1>7. CASE UNCHANGED <<clientSide, rooms>>
    <2>1. UNCHANGED <<stack, keyed, sealed, lobby_link, inbox, outbox, room_id, gave_up, crossed, rooms>>
      BY <1>7 DEF clientSide
    <2>2. /\ Me!Here' = Me!Here /\ Waiting' = Waiting /\ (\A n \in Waiting : stack'[n] = stack[n])
          /\ MyRooms' = MyRooms
      BY <1>1, <2>1, Kept DEF MyRooms, Rooms, Members
    <2>3. Orderly' = Orderly /\ Me!Deaf' = Me!Deaf
      BY <2>1, <2>2 DEF Orderly, Done, Me!At, Me!Deaf
    <2> QED
      BY <1>1, <2>1, <2>2, <2>3, FollowsSame, Undisturbed DEF BalanceInv, AgreeInv
  <1> QED
    BY <1>2, <1>3, <1>4, <1>5, <1>6, <1>7
       DEF Next, ClientIdles, TheirSteps, AgentLaunches, vars, lobbyVars

\* At most one request or answer is on its way, and one wait is for it, as long
\* as no wait ended before its answer; the client and the lobby differ about
\* the room by what that answer says (GameClient.cpp: the wait loops of Run).
THEOREM RequestsBalance == Spec => []BalanceInv
  <1>1. Init => BalanceInv
    BY BalanceInit
  <1>2. BalanceInv /\ [Next]_vars => BalanceInv'
    BY BalanceStep
  <1> QED
    BY <1>1, <1>2, PTL DEF Spec

LEMMA IdleRests ==
    ASSUME BalanceInv, Idle
    PROVE  /\ Waiting = {} /\ ~Done /\ ~Nested /\ Me!Here.at = "main" /\ stack[1].at = "main"
           /\ ~gave_up /\ ~crossed => AtRest
  <1> DEFINE f == Me!Frame("main", 0)
  <1>1. f.at = "main"
    BY DEF Me!Frame
  <1>2. stack = <<f>>
    BY DEF Idle, Me!NoRoom
  <1> HIDE DEF f
  <1>3. Me!Here.at = "main" /\ stack[1].at = "main"
    BY <1>1, <1>2 DEF Me!Here
  <1>4. Waiting = {} /\ ~Done /\ ~Nested
    BY <1>3, DoneFacts DEF BalanceInv, ReachInv, TypeInv, Bottom, Done, Me!At
  <1> QED
    BY <1>3, <1>4, NobodyWaits DEF BalanceInv, AgreeInv, Orderly

\* The client and the lobby agree on the client's room whenever the client is
\* back in its main loop, unless a wait ended with its answer still to come:
\* for every number of clients, rooms, commands and moves
\* (GameClient.cpp: room_id; EnetLobby.cpp: rooms[r].clients).
THEOREM RoomsAgree == Spec => []RoomAgrees
  <1>1. BalanceInv => RoomAgrees
    <2> SUFFICES ASSUME BalanceInv, Idle, ~gave_up, ~crossed, NEW r \in Rooms
                 PROVE  room_id = r <=> me \in Members(r)
      BY DEF RoomAgrees
    <2>1. MyRooms = {room_id} \ {0}
      BY IdleRests DEF AtRest, Agree
    <2>2. r # 0
      BY DEF BalanceInv, ReachInv, TypeInv, LobbyInv, Tabled, Rooms
    <2> QED
      BY <2>1, <2>2 DEF MyRooms
  <1> QED
    BY <1>1, RequestsBalance, PTL

-----------------------------------------------------------------------------
(***************************************************************************)
(* News of a room: what its members are told unasked.                      *)
(***************************************************************************)
News == {"ClientAbout", "DiscClientAbout", "ServerInfo"}
NewsAt == Marks(inbox, News)

\* The client is in a room when it reads news, as far as it knows: in room_id,
\* or in the one whose answer comes first, and not out of it yet.
Heard ==
    /\ room_id = 0 => roster = {}
    /\ room_id = 0 => \A n \in NewsAt : \E w \in Waiting, m \in AnsweredAt :
         m < n /\ stack[w].at = "join" /\ inbox[m].header = "ResultSuccess"
    /\ \A w \in Waiting, m \in AnsweredAt, n \in NewsAt :
         stack[w].at \in Leaving /\ inbox[m].header = "ResultSuccess" => n < m
NewsInv ==
    /\ stack[1].at \in Early => room_id = 0
    /\ Orderly => Heard

\* t is s without its first d elements, none or one.
Shift(s, t, d) ==
    /\ \A n \in DOMAIN t : n + d \in DOMAIN s /\ t[n] = s[n + d]
    /\ \A n \in DOMAIN s : n \in Nat /\ (n > d => n - d \in DOMAIN t /\ t[n - d] = s[n])
    /\ \A n \in DOMAIN t : n \in Nat

LEMMA ShiftMarks ==
    ASSUME NEW s, NEW t, NEW d \in {0, 1}, Shift(s, t, d), NEW H
    PROVE  /\ \A n \in Marks(t, H) : n + d \in Marks(s, H) /\ t[n] = s[n + d] /\ n \in Nat
           /\ \A n \in Marks(s, H) : n \in Nat /\ (n > d => n - d \in Marks(t, H) /\ t[n - d] = s[n])
  BY DEF Shift, Marks

LEMMA TakesShift ==
    ASSUME ClientInv, Takes
    PROVE  \E d \in {0, 1} : /\ Shift(inbox, inbox', d)
                             /\ d = 0 => inbox' = inbox
                             /\ d = 1 => inbox # <<>> /\ inbox' = Tail(inbox) /\ Head(inbox) = inbox[1]
  <1>1. inbox \in Seq(FromLobby)
    BY DEF ClientInv, Valued
  <1>2. CASE inbox' = inbox
    <2>1. Shift(inbox, inbox', 0)
      BY <1>1, <1>2 DEF Shift
    <2> QED
      BY <1>2, <2>1
  <1>3. CASE inbox # <<>> /\ inbox' = Tail(inbox)
    <2>1. Shift(inbox, Tail(inbox), 1)
      BY <1>1, <1>3, TailFacts DEF Shift
    <2>2. Head(inbox) = inbox[1]
      BY <1>1, <1>3, TailFacts
    <2> QED
      BY <1>3, <2>1, <2>2
  <1> QED
    BY <1>2, <1>3 DEF Takes

\* Nothing is answered: the news only get fewer.
LEMMA NewsQuiet ==
    ASSUME ClientInv, Heard, Takes, AnsweredAt = {}, room_id' = room_id,
           roster' = roster \/ room_id # 0
    PROVE  Heard'
  <1>1. AnsweredAt' = {} /\ (NewsAt = {} => NewsAt' = {})
    BY TakesMarks DEF AnsweredAt, NewsAt, Me!Results, News
  <1>2. room_id = 0 => NewsAt = {}
    BY DEF Heard
  <1> QED
    BY <1>1, <1>2 DEF Heard

\* A packet that is no answer is taken under waits that stay.
LEMMA NewsTaken ==
    ASSUME ClientInv, Heard, Takes, room_id' = room_id, roster' = roster \/ room_id # 0,
           Waiting' = Waiting, \A w \in Waiting : stack'[w] = stack[w],
           inbox' = inbox \/ Head(inbox).header \notin Me!Results
    PROVE  Heard'
  <1>1. PICK d \in {0, 1} : /\ Shift(inbox, inbox', d)
                            /\ d = 0 => inbox' = inbox
                            /\ d = 1 => /\ inbox # <<>> /\ inbox' = Tail(inbox)
                                        /\ Head(inbox) = inbox[1]
    BY TakesShift
  <1>2. \A n \in NewsAt' : n + d \in NewsAt /\ n \in Nat
    BY <1>1, ShiftMarks DEF NewsAt
  <1>3. /\ \A m \in AnsweredAt' : m + d \in AnsweredAt /\ inbox'[m] = inbox[m + d] /\ m \in Nat
        /\ \A m \in AnsweredAt : m \in Nat
        /\ \A m \in AnsweredAt : m > d => m - d \in AnsweredAt' /\ inbox'[m - d] = inbox[m]
    BY <1>1, ShiftMarks DEF AnsweredAt, Me!Results
  <1>4. \A m \in AnsweredAt : m > d
    <2>1. 0 \notin AnsweredAt
      BY DEF AnsweredAt, Marks, ClientInv, Valued
    <2>2. CASE d = 0
      BY <1>3, <2>1, <2>2
    <2>3. CASE d = 1
      <3>1. inbox' = inbox => FALSE
        BY <1>1, <2>3 DEF ClientInv, Valued
      <3>2. 1 \notin AnsweredAt
        BY <1>1, <2>3, <3>1 DEF AnsweredAt, Marks
      <3> QED
        BY <1>3, <2>1, <2>3, <3>2
    <2> QED
      BY <2>2, <2>3
  <1>5. ASSUME room_id' = 0, NEW n \in NewsAt'
        PROVE  \E w \in Waiting', m \in AnsweredAt' :
                 m < n /\ stack'[w].at = "join" /\ inbox'[m].header = "ResultSuccess"
    <2>1. PICK w \in Waiting, m \in AnsweredAt :
            m < n + d /\ stack[w].at = "join" /\ inbox[m].header = "ResultSuccess"
      BY <1>2, <1>5 DEF Heard
    <2>2. m - d \in AnsweredAt' /\ inbox'[m - d] = inbox[m] /\ m - d < n
      BY <1>2, <1>3, <1>4, <2>1
    <2> QED
      BY <2>1, <2>2
  <1>6. ASSUME NEW w \in Waiting', NEW m \in AnsweredAt', NEW n \in NewsAt',
               stack'[w].at \in Leaving, inbox'[m].header = "ResultSuccess"
        PROVE  n < m
    <2>1. stack[w].at \in Leaving /\ m + d \in AnsweredAt /\ inbox[m + d].header = "ResultSuccess"
      BY <1>3, <1>6
    <2>2. n + d < m + d
      BY <1>2, <2>1 DEF Heard
    <2> QED
      BY <1>2, <1>3, <2>2
  <1> QED
    BY <1>5, <1>6 DEF Heard

\* What the lobby says unasked.
LEMMA NewsHears ==
    ASSUME ClientInv, Balanced, Heard, LobbyStep,
           out'[me] \in Seq(FromLobby), Marks(out'[me], Me!Results) = {},
           MyRooms = {} => Marks(out'[me], News) = {}
    PROVE  Heard'
  <1>1. inbox' = inbox \o out'[me] /\ UNCHANGED <<stack, room_id, roster>>
    BY DEF LobbyStep, Deliver, ClientWaits
  <1>2. Waiting' = Waiting /\ \A n \in Waiting : stack'[n] = stack[n]
    BY <1>1, Kept
  <1>3. inbox \in Seq(FromLobby)
    BY DEF ClientInv, Valued
  <1>4. PICK x \in Seq(FromLobby) : x = out'[me]
    OBVIOUS
  <1>5. /\ DOMAIN inbox = 1 .. Len(inbox) /\ Len(inbox) \in Nat
        /\ DOMAIN x = 1 .. Len(x) /\ Len(x) \in Nat
        /\ DOMAIN (inbox \o x) = 1 .. Len(inbox) + Len(x)
        /\ \A n \in DOMAIN inbox : (inbox \o x)[n] = inbox[n]
        /\ \A n \in DOMAIN (inbox \o x) :
             n \in DOMAIN inbox \/ (n - Len(inbox) \in DOMAIN x /\ (inbox \o x)[n] = x[n - Len(inbox)])
    BY <1>3, <1>4, ConcatParts
  <1>6. /\ AnsweredAt' = AnsweredAt
        /\ \A m \in AnsweredAt : inbox'[m] = inbox[m] /\ m \in 1 .. Len(inbox)
    <2>1. Marks(inbox \o x, Me!Results) = Marks(inbox, Me!Results)
      <3>1. PICK H : H = Me!Results
        OBVIOUS
      <3>2. Marks(x, H) = {}
        BY <1>4, <3>1
      <3>3. Marks(inbox \o x, H) = Marks(inbox, H)
        BY <1>3, <1>4, <3>2, MarksConcat
      <3> QED
        BY <3>1, <3>3
    <2> QED
      BY <1>1, <1>4, <1>5, <2>1 DEF AnsweredAt, Me!Results, Marks
  <1>7. \A n \in NewsAt' : n \in NewsAt \/ (n \in Nat /\ n > Len(inbox) /\ MyRooms # {})
    <2>1. ASSUME NEW n \in NewsAt', n \notin NewsAt
          PROVE  n \in Nat /\ n > Len(inbox) /\ MyRooms # {}
      <3>1. n \in DOMAIN (inbox \o x) /\ (inbox \o x)[n].header \in News
        BY <1>1, <1>4, <2>1 DEF NewsAt, Marks
      <3>2. n \notin DOMAIN inbox
        BY <1>5, <2>1, <3>1 DEF NewsAt, Marks
      <3>3. Marks(x, News) # {}
        BY <1>5, <3>1, <3>2 DEF Marks
      <3> QED
        BY <1>4, <1>5, <3>1, <3>2, <3>3
    <2> QED
      BY <2>1
  <1>8. MyRooms # {} /\ room_id = 0 => \E w, m : Replied(w, m) /\ m \in AnsweredAt
    BY DEF Balanced, AtRest, InFlight, Unheard, Agree
  <1>9. ASSUME room_id' = 0, NEW n \in NewsAt'
        PROVE  \E w \in Waiting', m \in AnsweredAt' :
                 m < n /\ stack'[w].at = "join" /\ inbox'[m].header = "ResultSuccess"
    <2>1. CASE n \in NewsAt
      BY <1>1, <1>2, <1>6, <1>9, <2>1 DEF Heard
    <2>2. CASE n \notin NewsAt
      <3>1. n \in Nat /\ n > Len(inbox) /\ MyRooms # {} /\ room_id = 0
        BY <1>1, <1>7, <1>9, <2>2
      <3>2. PICK w, m : Replied(w, m) /\ m \in AnsweredAt
        BY <1>8, <3>1
      <3>3. stack[w].at = "join" /\ inbox[m].header = "ResultSuccess" /\ w \in Waiting
        BY <3>1, <3>2 DEF Replied, Settles, Agree
      <3>4. m < n
        BY <1>5, <1>6, <3>1, <3>2
      <3> QED
        BY <1>2, <1>6, <3>2, <3>3, <3>4
    <2> QED
      BY <2>1, <2>2
  <1>10. ASSUME NEW w \in Waiting', NEW m \in AnsweredAt', NEW n \in NewsAt',
                stack'[w].at \in Leaving, inbox'[m].header = "ResultSuccess"
         PROVE  n < m
    <2>1. w \in Waiting /\ m \in AnsweredAt /\ stack[w].at \in Leaving
          /\ inbox[m].header = "ResultSuccess"
      BY <1>2, <1>6, <1>10
    <2>2. \A i, k : Replied(i, k) => MyRooms = {}
      BY <2>1 DEF Replied, Settles, Leaving
    <2>3. MyRooms = {}
      BY <2>1, <2>2 DEF Balanced, AtRest, InFlight, Unheard
    <2> QED
      BY <1>7, <2>1, <2>3 DEF Heard
  <1>11. room_id' = 0 => roster' = {}
    BY <1>1 DEF Heard
  <1> QED
    BY <1>9, <1>10, <1>11 DEF Heard

\* What it says to a request: news come after a join that succeeded only.
LEMMA NewsReplied ==
    ASSUME ClientInv, LobbyInv, LobbyStep, Balanced, Heard, ~Me!Deaf,
           outbox # <<>>, outbox' = Tail(outbox),
           NEW packet, packet = Head(outbox), packet.header \in Asked, Replies(packet)
    PROVE  Heard'
  <1>1. inbox' = inbox \o out'[me] /\ UNCHANGED <<stack, room_id, roster>>
    BY DEF LobbyStep, Deliver, ClientWaits
  <1>2. 1 \in AskedAt /\ outbox[1] = packet
    BY MarkedHeaders, TailFacts DEF ClientInv, Valued
  <1>3. PICK w, n : InFlight(w, n)
    BY <1>2 DEF Balanced, AtRest, Replied, Unheard
  <1>4. Waiting = {w} /\ AnsweredAt = {} /\ Matches(stack[w], packet)
    <2>1. n = 1
      BY <1>2, <1>3 DEF InFlight
    <2> QED
      BY <1>2, <1>3, <2>1 DEF InFlight
  <1>5. Waiting' = {w} /\ stack'[w] = stack[w]
    BY <1>1, <1>4, Kept
  <1>6. PICK answer \in Me!Results, more \in Seq(Reports) :
          /\ out'[me] = <<Message(answer)>> \o more
          /\ \/ more = <<>>
             \/ packet.header = "ConnectRoom" /\ answer = "ResultSuccess"
    <2>1. \A x : <<x>> = <<x>> \o <<>>
      OBVIOUS
    <2>2. <<>> \in Seq(Reports)
      OBVIOUS
    <2>3. "ResultSuccess" \in Me!Results /\ "ResultFailed" \in Me!Results
          /\ packet.header \notin {"ClientAbout", "RoomList"}
      BY DEF Me!Results, Asked
    <2>4. CASE packet.header = "ConnectRoom" /\
               \E more \in Seq(Reports) : out'[me] = <<Message("ResultSuccess")>> \o more
      BY <2>3, <2>4
    <2>5. CASE out'[me] = <<Message("ResultSuccess")>> \/ out'[me] = <<Message("ResultFailed")>>
      <3>1. PICK answer \in Me!Results : out'[me] = <<Message(answer)>>
        BY <2>3, <2>5
      <3>2. out'[me] = <<Message(answer)>> \o <<>>
        BY <3>1, <2>1
      <3> QED
        BY <2>2, <3>2
    <2> QED
      BY <2>3, <2>4, <2>5 DEF Replies
  <1>7. PICK x : x = <<Message(answer)>> \o more
    OBVIOUS
  <1>8. /\ x \in Seq(FromLobby) /\ Len(x) = 1 + Len(more) /\ Len(more) \in Nat
        /\ x[1] = Message(answer) /\ DOMAIN x = 1 .. 1 + Len(more)
    <2>1. Message(answer) \in FromLobby
      BY PacketTexts DEF Me!Results, Bare
    <2>2. more \in Seq(FromLobby)
      BY PacketTexts, LargerRange
    <2> DEFINE a == Message(answer)
    <2> HIDE DEF a
    <2>3. x = <<a>> \o more
      BY <1>7 DEF a
    <2>4. a \in FromLobby
      BY <2>1 DEF a
    <2>5. x \in Seq(FromLobby) /\ Len(x) = 1 + Len(more) /\ Len(more) \in Nat /\ x[1] = a
      BY <2>2, <2>3, <2>4
    <2>6. DOMAIN x = 1 .. 1 + Len(more)
      BY <2>5, SeqFacts
    <2> QED
      BY <2>5, <2>6 DEF a
  <1>9. inbox \in Seq(FromLobby) /\ inbox' = inbox \o x
    BY <1>1, <1>6, <1>7 DEF ClientInv, Valued
  <1>10. PICK k : k = Len(inbox) + 1
    OBVIOUS
  <1>11. /\ DOMAIN inbox = 1 .. Len(inbox) /\ Len(inbox) \in Nat
         /\ DOMAIN inbox' = 1 .. Len(inbox) + 1 + Len(more)
         /\ \A i \in DOMAIN inbox : inbox'[i] = inbox[i]
         /\ inbox'[k] = Message(answer)
    <2>1. /\ DOMAIN inbox = 1 .. Len(inbox) /\ Len(inbox) \in Nat
          /\ DOMAIN x = 1 .. Len(x) /\ DOMAIN (inbox \o x) = 1 .. Len(inbox) + Len(x)
          /\ \A i \in DOMAIN inbox : (inbox \o x)[i] = inbox[i]
          /\ \A i \in DOMAIN x : (inbox \o x)[Len(inbox) + i] = x[i]
      <3>1. inbox \in Seq(FromLobby) /\ x \in Seq(FromLobby)
        BY <1>8, <1>9
      <3> QED
        BY <3>1, ConcatParts
    <2>2. Len(inbox) + Len(x) = Len(inbox) + 1 + Len(more) /\ 1 \in DOMAIN x
      BY <1>8, <2>1
    <2>3. (inbox \o x)[k] = Message(answer)
      BY <1>8, <1>10, <2>1, <2>2
    <2> QED
      BY <1>9, <2>1, <2>2, <2>3
  <1>12. Marks(x, Me!Results) = {1}
    BY <1>6, <1>7, NoMarksIn
  <1>13. AnsweredAt' = {k}
    <2>1. PICK H : H = Me!Results
      OBVIOUS
    <2>2. Marks(inbox, H) = {} /\ Marks(x, H) = {1}
      BY <1>4, <1>12, <2>1 DEF AnsweredAt
    <2>3. Marks(inbox \o x, H) = {Len(inbox) + 1}
      <3>1. inbox \in Seq(FromLobby) /\ x \in Seq(FromLobby)
        BY <1>8, <1>9
      <3> QED
        BY <2>2, <3>1, MarksConcat
    <2> QED
      BY <1>9, <1>10, <2>1, <2>3 DEF AnsweredAt, Me!Results
  <1>14. \A i \in NewsAt' : i \in NewsAt \/ (i > k /\ more # <<>> /\ i \in Nat)
    <2>1. ASSUME NEW i \in NewsAt', i \notin NewsAt PROVE i > k /\ more # <<>> /\ i \in Nat
      <3>1. i \in 1 .. Len(inbox) + 1 + Len(more) /\ inbox'[i].header \in News
        BY <1>11, <2>1 DEF NewsAt, Marks
      <3>2. i \notin 1 .. Len(inbox)
        BY <1>11, <2>1, <3>1 DEF NewsAt, Marks
      <3>3. i # k
        BY <1>6, <1>11, <3>1 DEF Message, News, Me!Results
      <3>4. Len(more) # 0
        BY <1>8, <1>10, <1>11, <3>1, <3>2, <3>3
      <3> QED
        BY <1>8, <1>10, <1>11, <3>1, <3>2, <3>3, <3>4
    <2> QED
      BY <2>1
  <1>15. room_id = 0 => NewsAt = {}
    BY <1>4 DEF Heard
  <1>16. ASSUME room_id' = 0, NEW i \in NewsAt'
         PROVE  \E v \in Waiting', m \in AnsweredAt' :
                  m < i /\ stack'[v].at = "join" /\ inbox'[m].header = "ResultSuccess"
    <2>1. i > k /\ more # <<>> /\ i \in Nat
      BY <1>1, <1>14, <1>15, <1>16
    <2>2. packet.header = "ConnectRoom" /\ answer = "ResultSuccess"
      BY <1>6, <2>1
    <2>3. stack[w].at = "join"
      BY <1>4, <2>2 DEF Matches
    <2>4. k < i /\ inbox'[k].header = "ResultSuccess"
      BY <1>10, <1>11, <2>1, <2>2 DEF Message
    <2> QED
      BY <1>5, <1>13, <2>3, <2>4
  <1>17. ASSUME NEW v \in Waiting', NEW m \in AnsweredAt', NEW i \in NewsAt',
                stack'[v].at \in Leaving, inbox'[m].header = "ResultSuccess"
         PROVE  i < m
    <2>1. stack[w].at \in Leaving /\ m = k
      BY <1>5, <1>13, <1>17
    <2>2. packet.header # "ConnectRoom"
      BY <1>4, <2>1 DEF Matches, Leaving
    <2>3. i \in NewsAt
      BY <1>6, <1>14, <2>2
    <2> QED
      BY <1>10, <1>11, <2>1, <2>3 DEF NewsAt, Marks
  <1>18. room_id' = 0 => roster' = {}
    BY <1>1 DEF Heard
  <1> QED
    BY <1>16, <1>17, <1>18 DEF Heard

\* What a step of the client that takes no answer leaves of the queues: every
\* answer waits on, or there is none.
LEMMA ClientPasses ==
    ASSUME ClientInv, ArrivedInv, AgreeInv, Me!ClientNext, ~Me!LoopAnswered, Orderly'
    PROVE  /\ Orderly /\ Balanced /\ Takes /\ room_id' = room_id
           /\ \/ AnsweredAt = {}
              \/ /\ Waiting' = Waiting /\ (\A w \in Waiting : stack'[w] = stack[w])
                 /\ inbox' = inbox \/ Head(inbox).header \notin Me!Results
           /\ roster' = roster \/ (inbox # <<>> /\ Head(inbox).header \in News)
  <1>0. UNCHANGED sealed /\ (AnsweredAt # {} => Me!Unanswered)
    BY ClientTypes, MarkedHeaders
  <1>1. CASE Me!MainReads \/ Me!LoopReads
    <2>1. roster' = roster \/ (inbox # <<>> /\ Head(inbox).header \in News)
      <3>1. \A packet : Handled(packet) => roster' = roster \/ packet.header \in News
        BY Processed DEF Handled, Me!ThrowAway, Me!Place, Connects, Ignores, Learns, Enters, Skips, News
      <3>2. \A packet \in FromServer : packet.header \notin News
        BY DEF FromServer, News
      <3>3. \/ Me!NextFromLobby /\ \E packet \in FromLobby : packet = Head(inbox) /\ Handled(packet)
            \/ Me!NextFromGame /\ \E packet \in FromServer : Handled(packet)
        BY <1>1, MainReadsCases, LoopReadsCases DEF Handled
      <3> QED
        BY <3>1, <3>2, <3>3 DEF Me!NextFromLobby
    <2> QED
      BY <1>0, <1>1, <2>1, ReadsPass
  <1>2. CASE Me!LoopGivesUp
    <2>1. /\ Me!Here.at \in Me!AnswerLoop /\ gave_up' = (gave_up \/ Me!Unanswered)
          /\ UNCHANGED <<room_id, roster, inbox, crossed>>
      BY <1>2 DEF Me!LoopGivesUp, Me!Place
    <2>2. ~Done
      BY <2>1 DEF Done, Me!At, Me!AnswerLoop
    <2>3. Orderly /\ AnsweredAt = {}
      BY <1>0, <2>1, <2>2 DEF Orderly
    <2> QED
      BY <2>1, <2>3 DEF AgreeInv, Takes
  <1>3. CASE Me!ServerGone
    <2>1. /\ gave_up' = (gave_up \/ (Me!Here.at \in Me!AnswerLoop /\ Me!Unanswered))
          /\ UNCHANGED <<room_id, roster, inbox, crossed>> /\ ~Done
      BY <1>3 DEF Me!ServerGone, Me!Place, Done
    <2>2. Orderly /\ Balanced
      BY <2>1 DEF Orderly, AgreeInv
    <2>3. \/ Me!Here.at \in Events /\ stack' = Me!Below
          \/ Me!Here.at = "main" /\ UNCHANGED stack
          \/ Me!Here.at \in Me!AnswerLoop
      BY <1>0, <1>3, ServerGoneTypes
    <2>4. CASE Me!Here.at \in Me!AnswerLoop
      <3>1. AnsweredAt = {}
        BY <1>0, <2>1, <2>4 DEF Orderly
      <3> QED
        BY <2>1, <2>2, <3>1 DEF Takes
    <2>5. CASE \/ Me!Here.at \in Events /\ stack' = Me!Below
               \/ Me!Here.at = "main" /\ UNCHANGED stack
      <3>1. Waiting' = Waiting /\ (\A w \in Waiting : stack'[w] = stack[w])
        BY <2>5, EventEnds, Kept
      <3> QED
        BY <2>1, <2>2, <3>1 DEF Takes
    <2> QED
      BY <2>3, <2>4, <2>5
  <1>4. CASE Me!GreetConnected \/ Me!GreetKey \/ Me!GreetId
    <2>1. Me!Here.at \in Early /\ UNCHANGED <<room_id, roster, gave_up, crossed>> /\ Takes
      BY <1>4 DEF Me!GreetConnected, Me!GreetKey, Me!GreetId, Me!GreetKeeps, Me!At, Early, Me!Place,
         Me!History, Takes
    <2>2. Orderly /\ Waiting = {}
      BY <2>1, DoneFacts DEF Orderly, Bottom, Alone, Early
    <2>3. Balanced /\ AnsweredAt = {}
      BY <2>2, NobodyWaits DEF AgreeInv, AtRest
    <2> QED
      BY <2>1, <2>2, <2>3
  <1>5. CASE Me!ServerConnected \/ Me!ServerGreets
    <2>1. UNCHANGED <<room_id, roster, inbox, gave_up, crossed>>
      BY <1>5 DEF Me!ServerConnected, Me!ServerGreets, Me!Place, Me!History
    <2>2. /\ Waiting' = Waiting /\ (\A w \in Waiting : stack'[w] = stack[w])
          /\ Done => Done'
      <3>1. CASE Me!ServerConnected
        BY <1>0, <3>1, ServerConnectedTypes, DoneFacts
      <3>2. CASE Me!ServerGreets
        BY <3>2, Kept DEF Me!ServerGreets, Done, Me!At
      <3> QED
        BY <1>5, <3>1, <3>2
    <2>3. Orderly /\ Balanced
      BY <2>1, <2>2 DEF Orderly, AgreeInv
    <2> QED
      BY <2>1, <2>2, <2>3 DEF Takes
  <1>6. CASE Me!ServerKey \/ Me!ServerRefused
    <2>1. /\ UNCHANGED <<room_id, roster, gave_up>> /\ Takes
          /\ crossed' = (crossed \/ Me!Unanswered) /\ Me!Here.at \in Events
      BY <1>6 DEF Me!ServerKey, Me!ServerRefused, Me!Place, Takes, Me!NextFromLobby, Me!NextFromGame,
         Me!At, Events
    <2>2. Orderly /\ AnsweredAt = {}
      BY <1>0, <2>1 DEF Orderly, Done, Me!At, Events
    <2> QED
      BY <2>1, <2>2 DEF AgreeInv
  <1>7. CASE Me!Types \/ Me!Terminated
    <2>1. Me!Here.at = "main" /\ UNCHANGED <<room_id, roster, inbox, gave_up, crossed>>
      BY <1>7 DEF Me!Types, Me!TypeRoom, Me!TypeRooms, Me!TypeConnect, Me!TypeDisconnect, Me!TypeExit,
         Me!TypeCreate, Me!Terminated, Me!Line, Me!Place, Me!History, Me!At
    <2>2. Orderly /\ Waiting = {}
      BY <2>1, DoneFacts DEF Orderly, Bottom
    <2>3. Balanced /\ AnsweredAt = {}
      BY <2>2, NobodyWaits DEF AgreeInv, AtRest
    <2> QED
      BY <2>1, <2>2, <2>3 DEF Takes
  <1> QED
    BY <1>1, <1>2, <1>3, <1>4, <1>5, <1>6, <1>7 DEF Me!ClientNext

\* An answer takes the client into the room where the news behind it are from,
\* or out of the one it had all the news of.
LEMMA NewsAnswered ==
    ASSUME ClientInv, LobbyInv, AgreeInv, Me!LoopAnswered, Orderly', Heard
    PROVE  Heard'
  <1>1. Takes /\ Balanced
    BY AnswerTaken
  <1>2. CASE AnsweredAt = {} /\ UNCHANGED <<room_id, roster>>
    BY <1>1, <1>2, NewsQuiet
  <1>3. CASE AnswerComes /\ (room_id' = 0 => NewsAt = {} /\ roster' = {})
    <2>1. AnsweredAt' = {}
      BY <1>3 DEF AnswerComes
    <2>2. NewsAt = {} => NewsAt' = {}
      BY <1>1, TakesMarks DEF NewsAt, News
    <2> QED
      BY <1>3, <2>1, <2>2 DEF Heard
  <1>4. \A n \in NewsAt : n \in Nat /\ n # 0
    BY DEF NewsAt, Marks, ClientInv, Valued
  <1>5. ASSUME AnswerComes, room_id = 0, Me!Here.at # "join" \/ Head(inbox).header # "ResultSuccess"
        PROVE  NewsAt = {}
    BY <1>5 DEF AnswerComes, Heard
  <1>6. CASE Me!Here.at = "create" /\ AnswerComes /\ UNCHANGED <<room_id, roster>>
    BY <1>3, <1>5, <1>6 DEF Heard
  <1>7. CASE /\ Me!Here.at = "join" /\ AnswerComes /\ UNCHANGED roster
             /\ room_id' = IF Head(inbox).header = "ResultSuccess" THEN Me!Here.room ELSE room_id
    <2>1. 0 \notin MyRooms
      BY DEF MyRooms, Rooms, LobbyInv, Tabled
    <2>2. Head(inbox).header = "ResultSuccess" => room_id' # 0
      BY <1>7, <2>1 DEF AnswerComes, Settles, Leaving
    <2> QED
      BY <1>3, <1>5, <1>7, <2>2 DEF Heard
  <1>8. CASE /\ Me!Here.at \in Leaving /\ AnswerComes
             /\ \/ Head(inbox).header = "ResultSuccess" /\ room_id' = 0 /\ roster' = {}
                \/ Head(inbox).header = "ResultFailed" /\ UNCHANGED <<room_id, roster>>
    <2>1. CASE Head(inbox).header = "ResultSuccess" /\ room_id' = 0 /\ roster' = {}
      <3>1. \A n \in NewsAt : n < 1
        BY <1>8, <2>1 DEF AnswerComes, Heard
      <3> QED
        BY <1>3, <1>4, <1>8, <2>1, <3>1
    <2>2. CASE Head(inbox).header = "ResultFailed" /\ UNCHANGED <<room_id, roster>>
      BY <1>3, <1>5, <1>8, <2>2 DEF Heard
    <2> QED
      BY <1>8, <2>1, <2>2
  <1> QED
    BY <1>2, <1>6, <1>7, <1>8, AnswerTaken

LEMMA NewsClient ==
    ASSUME ClientInv, LobbyInv, ArrivedInv, AgreeInv, Me!ClientNext, Orderly', Orderly => Heard
    PROVE  Heard'
  <1>1. CASE Me!LoopAnswered
    BY <1>1, AnswerTaken, NewsAnswered
  <1>2. CASE ~Me!LoopAnswered
    <2>1. Heard /\ Takes /\ room_id' = room_id
      BY <1>2, ClientPasses
    <2>2. roster' = roster \/ room_id # 0
      <3> SUFFICES ASSUME inbox # <<>>, Head(inbox).header \in News, room_id = 0 PROVE FALSE
        BY <1>2, ClientPasses
      <3>1. 1 \in NewsAt
        BY TailFacts DEF NewsAt, Marks, ClientInv, Valued
      <3>2. \A m \in AnsweredAt : m \in Nat /\ m # 0
        BY DEF AnsweredAt, Marks, ClientInv, Valued
      <3> QED
        BY <2>1, <3>1, <3>2 DEF Heard
    <2> QED
      BY <1>2, <2>1, <2>2, ClientPasses, NewsQuiet, NewsTaken
  <1> QED
    BY <1>1, <1>2

\* The greeting, in the order the lobby sends it.
LEMMA HelloFacts ==
    ASSUME LobbyInv
    PROVE  Hello \in Seq(FromLobby) /\ Marks(Hello, Me!Results) = {} /\ Marks(Hello, News) = {}
  <1> DEFINE a == Message("Key")
             b == About("ClientId", id_counter)
             c == Message("RoomList")
  <1>1. a \in FromLobby /\ b \in FromLobby /\ c \in FromLobby
    BY PacketTexts, Constants DEF LobbyInv, Tabled, Ids, Bare
  <1>2. \A x \in {a, b, c} : x.header \notin Me!Results \cup News
    BY DEF Message, About, Me!Results, News
  <1>3. Hello = <<a, b, c>>
    BY DEF Hello
  <1> HIDE DEF a, b, c
  <1>4. \A n \in DOMAIN <<a, b, c>> : <<a, b, c>>[n] \in {a, b, c}
    OBVIOUS
  <1>5. Hello \in Seq(FromLobby)
    BY <1>1, <1>3
  <1> QED
    BY <1>2, <1>3, <1>4, <1>5 DEF Marks

\* What the lobby says to a client that asks for nothing is no news.
LEMMA NoNewsIn ==
    Marks(<<>>, News) = {} /\ \A h \in Bare : Marks(<<Message(h)>>, News) = {}
  BY DEF Marks, News, Bare, Message

LEMMA NewsLobby ==
    ASSUME LobbyInv, ClientInv, ArrivedInv, Balanced, Heard, ~Done,
           LobbyGreetsMe \/ LobbyServesMe \/ Elsewhere
    PROVE  Heard'
  <1>1. CASE LobbyGreetsMe
    <2>1. LobbyStep /\ (out'[me] = Hello \/ out'[me] = <<>>)
      BY <1>1, GreetsMe
    <2>2. /\ out'[me] \in Seq(FromLobby) /\ Marks(out'[me], Me!Results) = {}
          /\ Marks(out'[me], News) = {}
      BY <2>1, HelloFacts, NoMarksIn, NoneType, NoNewsIn
    <2> QED
      BY <2>1, <2>2, NewsHears
  <1>2. CASE Elsewhere
    <2>1. LobbyStep /\ out'[me] \in Seq(Reports) /\ (MyRooms = {} => out'[me] = <<>>)
      BY <1>2 DEF Elsewhere
    <2>2. out'[me] \in Seq(FromLobby) /\ Marks(out'[me], Me!Results) = {}
      BY <2>1, PacketTexts, LargerRange, NoMarksIn
    <2> QED
      BY <2>1, <2>2, NoNewsIn, NewsHears
  <1>3. CASE LobbyServesMe
    <2>1. LobbyStep /\ UNCHANGED min_port /\ outbox # <<>> /\ outbox' = Tail(outbox)
      BY <1>3, ServesMe DEF LobbyStep, agentSide
    <2>2. PICK packet \in ToLobby : packet = Head(outbox) /\ Serves(packet)
      BY <1>3, ServesMe
    <2>3. Replies(packet) /\ out'[me] \in Seq(FromLobby)
      BY <2>1, <2>2, ServesReplies, SaidTypes
    <2>4. CASE packet.header \in Asked /\ ~Me!Deaf
      BY <2>1, <2>2, <2>3, <2>4, NewsReplied
    <2>5. CASE packet.header \notin Asked \/ Me!Deaf
      <3>1. out'[me] = <<>> \/ out'[me] = <<Message("RoomList")>>
        BY <2>2, <2>3, <2>5 DEF Serves, Replies, Asked
      <3>2. "RoomList" \notin Me!Results /\ "RoomList" \in Bare
        BY DEF Me!Results, Bare
      <3> QED
        BY <2>1, <2>3, <3>1, <3>2, NoMarksIn, NoNewsIn, NewsHears
    <2> QED
      BY <2>4, <2>5
  <1> QED
    BY <1>1, <1>2, <1>3

\* The greeting once over is over, and no room is joined before.
LEMMA EarlyClient ==
    ASSUME ClientInv, Me!ClientNext, stack[1].at \in Early => room_id = 0, stack'[1].at \in Early
    PROVE  room_id' = 0
  <1>0. UNCHANGED sealed
    BY ClientTypes
  <1>1. CASE Me!LoopAnswered
    <2>1. stack'[1].at \notin Early
      BY <1>0, <1>1, LoopAnsweredTypes, EndsTypes
    <2> QED
      BY <2>1
  <1>2. CASE ~Me!LoopAnswered
    <2>1. room_id' = room_id
      <3>1. \A packet : Handled(packet) => room_id' = room_id
        BY Processed DEF Handled, Me!ThrowAway, Me!Place
      <3>2. CASE Me!MainReads \/ Me!LoopReads
        <4>1. \E packet : Handled(packet)
          BY <3>2, MainReadsCases, LoopReadsCases DEF Handled
        <4> QED
          BY <3>1, <4>1
      <3>3. CASE ~(Me!MainReads \/ Me!LoopReads)
        BY <1>2, <3>3 DEF Me!ClientNext, Me!LoopGivesUp, Me!GreetConnected, Me!GreetKey, Me!GreetId,
           Me!ServerConnected, Me!ServerRefused, Me!ServerKey, Me!ServerGone, Me!ServerGreets,
           Me!Types, Me!TypeRoom, Me!TypeRooms, Me!TypeConnect, Me!TypeDisconnect, Me!TypeExit,
           Me!TypeCreate, Me!Terminated, Me!Line, Me!Place, Me!GreetKeeps
      <3> QED
        BY <3>2, <3>3
    <2>2. stack[1].at \in Early
      <3>1. CASE Me!MainReads \/ Me!LoopReads
        <4>1. Me!Here.at \in Listening /\ Me!Here.at \notin Alone \cup Events
          BY <3>1, MainReadsCases, LoopReadsCases DEF Listening, Me!AnswerLoop, Alone, Early, Events
        <4>2. UNCHANGED stack \/ stack' = Append(stack, Me!Frame("srv_connect", 0))
          <5>1. \A packet : Handled(packet) =>
                  UNCHANGED stack \/ stack' = Append(stack, Me!Frame("srv_connect", 0))
            BY Processed DEF Handled, Me!ThrowAway, Connects, Ignores, Learns, Me!LearnOf, Enters, Skips
          <5>2. \E packet : Handled(packet)
            BY <3>1, MainReadsCases, LoopReadsCases DEF Handled
          <5> QED
            BY <5>1, <5>2
        <4>3. stack'[1] = stack[1]
          <5>1. CASE UNCHANGED stack
            BY <5>1
          <5>2. CASE stack' = Append(stack, Me!Frame("srv_connect", 0))
            <6> DEFINE f == Me!Frame("srv_connect", 0)
            <6>1. f \in Frames /\ f.at \in ServerWaits
              BY PacketTypes DEF Waits, Typed, ServerWaits, Events
            <6>2. stack' = Append(stack, f)
              BY <5>2
            <6> HIDE DEF f
            <6> QED
              BY <4>1, <6>1, <6>2, Pushed
          <5> QED
            BY <4>2, <5>1, <5>2
        <4> QED
          BY <4>3
      <3>2. CASE Me!LoopGivesUp
        BY <1>0, <3>2, LoopGivesUpTypes, EndsTypes
      <3>3. CASE Me!GreetConnected \/ Me!GreetKey \/ Me!GreetId
        BY <1>0, <3>3, GreetConnectedTypes, GreetKeyTypes, GreetIdTypes
      <3>4. CASE Me!ServerConnected \/ Me!ServerRefused
        BY <1>0, <3>4, ServerConnectedTypes, ServerRefusedTypes
      <3>5. CASE Me!ServerKey
        BY <1>0, <3>5, ServerKeyTypes, EventEnds
      <3>6. CASE Me!ServerGone
        BY <1>0, <3>6, ServerGoneTypes, EventEnds, EndsTypes
      <3>7. CASE Me!ServerGreets
        BY <3>7 DEF Me!ServerGreets
      <3>8. CASE Me!Types \/ Me!Terminated
        <4>1. CASE stack' = Me!Goto("done") /\ Me!Here.at = "main"
          <5>1. UNCHANGED <<server_peer, link, fromGame, toGame>>
            BY <3>8, <4>1 DEF Me!Types, Me!TypeRoom, Me!TypeRooms, Me!TypeConnect, Me!TypeDisconnect,
               Me!TypeExit, Me!TypeCreate, Me!Terminated, Me!Line, Me!GameLink
          <5>2. "done" \in Bottom \ {"greet_connect"} /\ "main" \in Bottom /\ "done" \notin Early
            BY DEF Bottom, Alone, Early
          <5>3. Me!Frame("done", 0).at = "done"
            BY DEF Me!Frame
          <5> QED
            BY <4>1, <5>1, <5>2, <5>3, GreetTypes
        <4>2. CASE Me!TypeCreate
          BY <4>2 DEF Me!TypeCreate
        <4>3. CASE \E w, packet, r : Commanded(w, packet, r)
          BY <4>3, CommandedTypes
        <4>4. Me!TypeExit => Me!Here.at = "main"
          BY DEF Me!TypeExit, Me!Line, Me!At
        <4>5. Me!Line => Me!Here.at = "main"
          BY DEF Me!Line, Me!At
        <4> QED
          BY <3>8, <4>1, <4>2, <4>3, <4>5, TypedCases DEF Me!Types, Me!Terminated, Me!At
      <3> QED
        BY <1>2, <3>1, <3>2, <3>3, <3>4, <3>5, <3>6, <3>7, <3>8 DEF Me!ClientNext
    <2> QED
      BY <2>1, <2>2
  <1> QED
    BY <1>1, <1>2

\* The kinds of steps: the client's, the lobby's for it, the lobby's for
\* somebody else, and the ones neither of the two sees.
Still == UNCHANGED <<clientSide, theirSide, rooms, wait_room, id_counter, conn>>

LEMMA NextCases ==
    ASSUME LobbyInv, [Next]_vars
    PROVE  \/ Me!ClientNext /\ UNCHANGED <<lobbyVars, agentSide, theirSide>>
           \/ LobbyGreetsMe
           \/ LobbyServesMe
           \/ LobbyLosesMe
           \/ TheirSteps
           \/ Still
  <1>1. ClientSteps => Me!ClientNext /\ UNCHANGED <<lobbyVars, agentSide, theirSide>>
    BY DEF ClientSteps
  <1>2. ClientIdles \/ UNCHANGED vars => Still
    BY DEF ClientIdles, vars, Still, lobbyVars
  <1>3. AgentLaunches => Still
    BY AgentEffect DEF AgentLaunches, Still
  <1> QED
    BY <1>1, <1>2, <1>3 DEF Next, TheirSteps

\* Everything the client keeps stays through a step of the lobby.
LEMMA WaitsOn ==
    ASSUME ClientInv, LobbyStep \/ Still
    PROVE  /\ UNCHANGED <<stack, room_id, roster, in_game, link, server, server_peer, fromGame, toGame,
                          gave_up, crossed, left_early, gone, missed>>
           /\ Waiting' = Waiting /\ (\A w \in Waiting : stack'[w] = stack[w])
           /\ Me!Here' = Me!Here /\ Orderly' = Orderly
  <1>1. UNCHANGED <<stack, room_id, roster, in_game, link, server, server_peer, fromGame, toGame,
                    gave_up, crossed, left_early, gone, missed>>
    BY DEF LobbyStep, ClientWaits, Still, clientSide
  <1> QED
    BY <1>1, Kept DEF Orderly, Done, Me!At

LEMMA NewsInit ==
    ASSUME Init
    PROVE  NewsInv
  <1>1. room_id = 0 /\ inbox = <<>> /\ roster = {}
    BY DEF Init, Me!ClientInit, Me!NoRoom
  <1>2. NewsAt = {}
    BY <1>1 DEF NewsAt, Marks
  <1> QED
    BY <1>1, <1>2 DEF NewsInv, Heard

LEMMA NewsStep ==
    ASSUME BalanceInv, NewsInv, [Next]_vars
    PROVE  NewsInv'
  <1>1. LobbyInv /\ ClientInv /\ TheirsInv /\ ArrivedInv /\ AgreeInv
    BY DEF BalanceInv, ReachInv, TypeInv
  <1>2. CASE Me!ClientNext
    BY <1>1, <1>2, EarlyClient, NewsClient DEF NewsInv
  <1>3. CASE LobbyGreetsMe \/ LobbyServesMe \/ TheirSteps
    <2>1. LobbyGreetsMe \/ LobbyServesMe \/ Elsewhere
      BY <1>1, <1>3, TheirEffect
    <2>2. LobbyStep
      BY <2>1 DEF LobbyGreetsMe, LobbyServesMe, Elsewhere
    <2>3. ASSUME Orderly' PROVE Heard'
      <3>1. Orderly /\ Balanced /\ Heard /\ ~Done
        BY <1>1, <2>2, <2>3, WaitsOn DEF Orderly, AgreeInv, NewsInv
      <3> QED
        BY <1>1, <2>1, <3>1, NewsLobby
    <2>4. UNCHANGED <<stack, room_id>>
      BY <1>1, <2>2, WaitsOn
    <2> QED
      BY <2>3, <2>4 DEF NewsInv
  <1>4. CASE LobbyLosesMe
    <2>1. LobbyStep /\ Done
      BY <1>1, <1>4, LosesMe DEF Done
    <2>2. UNCHANGED <<stack, room_id>> /\ ~Orderly'
      BY <1>1, <2>1, WaitsOn DEF Orderly
    <2> QED
      BY <2>2 DEF NewsInv
  <1>5. CASE Still
    <2>1. UNCHANGED <<stack, room_id, roster, inbox, Waiting>> /\ Orderly' = Orderly
      BY <1>1, <1>5, WaitsOn DEF Still, clientSide
    <2>2. AnsweredAt' = AnsweredAt /\ NewsAt' = NewsAt
      BY <2>1 DEF AnsweredAt, NewsAt, Marks, Me!Results
    <2> QED
      BY <2>1, <2>2 DEF NewsInv, Heard
  <1> QED
    BY <1>1, <1>2, <1>3, <1>4, <1>5, NextCases

-----------------------------------------------------------------------------
(***************************************************************************)
(* The game of the room.                                                   *)
(***************************************************************************)
InfoAt == Marks(inbox, {"ServerInfo"})
Linked == link # "free" \/ in_game

\* A client that plays, connects or is about to be told where is in a room
\* whose game has started, and it connects to that room's server; it is told
\* once.
GameKnown ==
    /\ Linked => room_id # 0 /\ server_peer = "slot"
    /\ InfoAt # {} => ~Linked
    /\ \A n, k \in InfoAt : n = k
    /\ \A r \in MyRooms : Linked \/ InfoAt # {} => rooms[r].game_start
    /\ \A r \in MyRooms : Linked => server = rooms[r].server
    /\ \A r \in MyRooms, n \in InfoAt : inbox[n].address = rooms[r].server
GameInv == Orderly /\ ~left_early => GameKnown

\* What a packet handled makes of the connection to a game server.
LEMMA ReadsGame ==
    ASSUME ClientInv, Me!MainReads \/ Me!LoopReads
    PROVE  /\ Takes /\ UNCHANGED <<toGame, left_early, gone>> /\ missed \subseteq missed'
           /\ Me!Here.at \in Listening
           /\ \/ /\ inbox # <<>> /\ inbox' = Tail(inbox)
                 /\ \E packet \in FromLobby : packet = Head(inbox) /\ Connects(packet)
              \/ /\ inbox # <<>> /\ inbox' = Tail(inbox)
                 /\ \E packet \in FromLobby : packet = Head(inbox) /\ Ignores(packet)
              \/ link = "up" /\ in_game' /\ UNCHANGED <<stack, server_peer, link, server, inbox>>
              \/ /\ UNCHANGED <<stack, in_game, server_peer, link, server>>
                 /\ \/ inbox' = inbox
                    \/ Head(inbox).header # "ServerInfo"
                    \/ "ServerInfo" \in missed'
                 /\ \/ fromGame' = fromGame
                    \/ /\ fromGame # <<>> /\ fromGame' = Tail(fromGame)
                       /\ Head(fromGame).header # "GameInfo" \/ "GameInfo" \in missed'
  <1>1. /\ UNCHANGED <<toGame, left_early, gone>> /\ Me!Here.at \in Listening
        /\ \/ /\ Me!NextFromLobby
              /\ \E packet \in FromLobby : packet = Head(inbox) /\ Handled(packet)
           \/ /\ Me!NextFromGame
              /\ \E packet \in FromServer : packet = Head(fromGame) /\ Handled(packet)
    BY MainReadsCases, LoopReadsCases DEF Handled, Me!History
  <1>2. Takes
    BY <1>1 DEF Takes, Me!NextFromLobby, Me!NextFromGame
  <1>3. ASSUME NEW packet, Me!ThrowAway(packet)
        PROVE  UNCHANGED <<stack, in_game, server_peer, link, server>> /\ missed' = missed \cup {packet.header}
    BY <1>3 DEF Me!ThrowAway, Me!GameLink
  <1>4. ASSUME NEW packet, Learns(packet) \/ Skips(packet)
        PROVE  /\ UNCHANGED <<stack, in_game, server_peer, link, server>> /\ missed' = missed
               /\ packet.header \notin {"ServerInfo", "GameInfo"}
    BY <1>4 DEF Learns, Skips, Me!LearnOf, Me!GameLink
  <1>5. CASE /\ Me!NextFromLobby
             /\ \E packet \in FromLobby : packet = Head(inbox) /\ Handled(packet)
    <2>1. PICK packet \in FromLobby : packet = Head(inbox) /\ Handled(packet)
      BY <1>5
    <2>2. inbox # <<>> /\ inbox' = Tail(inbox) /\ UNCHANGED fromGame
      BY <1>5 DEF Me!NextFromLobby
    <2>3. CASE Me!ThrowAway(packet)
      BY <1>1, <1>2, <1>3, <2>1, <2>2, <2>3
    <2>4. CASE Me!process_event(packet)
      <3>1. ~Enters(packet)
        BY DEF Enters, FromLobby, Bare, Numbered
      <3>2. CASE Connects(packet)
        <4>1. missed' = missed
          BY <3>2 DEF Connects
        <4> QED
          BY <1>1, <1>2, <2>1, <2>2, <3>2, <4>1
      <3>3. CASE Ignores(packet)
        <4>1. missed' = missed
          BY <3>3 DEF Ignores
        <4> QED
          BY <1>1, <1>2, <2>1, <2>2, <3>3, <4>1
      <3>4. CASE Learns(packet) \/ Skips(packet)
        BY <1>1, <1>2, <1>4, <2>1, <2>2, <3>4
      <3> QED
        BY <2>4, <3>1, <3>2, <3>3, <3>4, Processed
    <2> QED
      BY <2>1, <2>3, <2>4 DEF Handled
  <1>6. CASE /\ Me!NextFromGame
             /\ \E packet \in FromServer : packet = Head(fromGame) /\ Handled(packet)
    <2>1. PICK packet \in FromServer : packet = Head(fromGame) /\ Handled(packet)
      BY <1>6
    <2>2. fromGame # <<>> /\ fromGame' = Tail(fromGame) /\ UNCHANGED inbox
      BY <1>6 DEF Me!NextFromGame
    <2>3. link = "up"
      BY <2>2 DEF ClientInv, LinkOK
    <2>4. CASE Me!ThrowAway(packet)
      BY <1>1, <1>2, <1>3, <2>1, <2>2, <2>4
    <2>5. CASE Me!process_event(packet)
      <3>1. ~Connects(packet) /\ ~Ignores(packet)
        BY DEF Connects, Ignores, FromServer
      <3>2. CASE Enters(packet)
        BY <1>1, <1>2, <2>2, <2>3, <3>2 DEF Enters
      <3>3. CASE Learns(packet) \/ Skips(packet)
        BY <1>1, <1>2, <1>4, <2>1, <2>2, <3>3
      <3> QED
        BY <2>5, <3>1, <3>2, <3>3, Processed
    <2> QED
      BY <2>1, <2>4, <2>5 DEF Handled
  <1> QED
    BY <1>1, <1>5, <1>6

\* Nothing else makes a connection.
LEMMA OthersGame ==
    ASSUME ClientInv, Me!ClientNext, ~(Me!MainReads \/ Me!LoopReads \/ Me!LoopAnswered)
    PROVE  /\ UNCHANGED <<in_game, server_peer, server, left_early>>
           /\ link' = link \/ link # "free"
           /\ missed \subseteq missed' /\ (gone => gone')
  <1>1. Me!ServerConnected \/ Me!ServerRefused => link = "connecting"
    BY DEF ClientInv, LinkOK, Me!ServerConnected, Me!ServerRefused
  <1>2. CASE Me!ServerConnected \/ Me!ServerRefused
    BY <1>1, <1>2 DEF Me!ServerConnected, Me!ServerRefused, Me!History
  <1>3. CASE Me!ServerGone
    BY <1>3 DEF Me!ServerGone
  <1>4. CASE Me!LoopGivesUp \/ Me!ServerKey \/ Me!ServerGreets
    BY <1>4 DEF Me!LoopGivesUp, Me!ServerKey, Me!ServerGreets, Me!GameLink, Me!History, Me!NextFromGame,
       Me!NextFromLobby
  <1>5. CASE Me!GreetConnected \/ Me!GreetKey \/ Me!GreetId
    BY <1>5 DEF Me!GreetConnected, Me!GreetKey, Me!GreetId, Me!GreetKeeps, Me!GameLink, Me!History
  <1>6. CASE Me!Types \/ Me!Terminated
    BY <1>6 DEF Me!Types, Me!TypeRoom, Me!TypeRooms, Me!TypeConnect, Me!TypeDisconnect, Me!TypeExit,
       Me!TypeCreate, Me!Terminated, Me!Line, Me!GameLink, Me!History
  <1> QED
    BY <1>2, <1>3, <1>4, <1>5, <1>6 DEF Me!ClientNext

\* No new connection: what is known stays known.
LEMMA GameKept ==
    ASSUME ClientInv, GameKnown, Takes, UNCHANGED rooms, MyRooms' = MyRooms,
           Linked' => Linked /\ room_id' # 0 /\ UNCHANGED <<server_peer, server>>
    PROVE  GameKnown'
  <1>1. PICK d \in {0, 1} : Shift(inbox, inbox', d)
    BY TakesShift
  <1>2. \A n \in InfoAt' : n + d \in InfoAt /\ inbox'[n] = inbox[n + d] /\ n \in Nat
    BY <1>1, ShiftMarks DEF InfoAt
  <1>3. \A n, k \in InfoAt' : n = k
    <2>1. ASSUME NEW n \in InfoAt', NEW k \in InfoAt' PROVE n = k
      <3>1. n + d = k + d
        BY <1>2 DEF GameKnown
      <3> QED
        BY <1>2, <3>1
    <2> QED
      BY <2>1
  <1>4. InfoAt' # {} => InfoAt # {}
    BY <1>2
  <1>5. \A r \in MyRooms', n \in InfoAt' : inbox'[n].address = rooms'[r].server
    BY <1>2 DEF GameKnown
  <1>6. Linked' => room_id' # 0 /\ server_peer' = "slot"
    BY DEF GameKnown
  <1>7. InfoAt' # {} => ~Linked'
    BY <1>4 DEF GameKnown
  <1>8. \A r \in MyRooms' : /\ Linked' \/ InfoAt' # {} => rooms'[r].game_start
                            /\ Linked' => server' = rooms'[r].server
    BY <1>4 DEF GameKnown
  <1> QED
    BY <1>3, <1>5, <1>6, <1>7, <1>8 DEF GameKnown

\* process_event connects to the server it was told.
LEMMA GameConnects ==
    ASSUME ClientInv, GameKnown, Heard, UNCHANGED rooms, MyRooms' = MyRooms, UNCHANGED room_id,
           inbox # <<>>, inbox' = Tail(inbox),
           NEW packet \in FromLobby, packet = Head(inbox), Connects(packet)
    PROVE  GameKnown'
  <1>1. packet.header = "ServerInfo" /\ server_peer' = "slot" /\ server' = packet.address
    BY DEF Connects
  <1>2. 1 \in InfoAt /\ inbox[1] = packet /\ 1 \in NewsAt
    BY <1>1, TailFacts DEF InfoAt, NewsAt, News, Marks, ClientInv, Valued
  <1>3. InfoAt' = {}
    <2>1. InfoAt = {1}
      BY <1>2 DEF GameKnown
    <2>2. Marks(Tail(inbox), {"ServerInfo"}) = {}
      BY <2>1, MarksTail DEF InfoAt, ClientInv, Valued
    <2> QED
      BY <2>2 DEF InfoAt
  <1>4. room_id # 0
    <2>1. \A m \in AnsweredAt : m \in Nat /\ m # 0
      BY DEF AnsweredAt, Marks, ClientInv, Valued
    <2> QED
      BY <1>2, <2>1 DEF Heard
  <1>5. \A r \in MyRooms : rooms[r].game_start /\ server' = rooms[r].server
    BY <1>1, <1>2 DEF GameKnown
  <1> QED
    BY <1>1, <1>3, <1>4, <1>5 DEF GameKnown

LEMMA GameClient ==
    ASSUME ClientInv, LobbyInv, ArrivedInv, AgreeInv, NewsInv, GameInv,
           UNCHANGED rooms, MyRooms' = MyRooms, Me!ClientNext, Orderly', ~left_early'
    PROVE  GameKnown'
  <1>1. CASE Me!LoopAnswered
    <2>1. Orderly /\ Takes
      BY <1>1, AnswerTaken
    <2>2. CASE Me!Here.at \in Leaving /\ Head(inbox).header = "ResultSuccess"
      <3>1. Me!ForgetRoom
        BY <1>1, <2>2 DEF Me!LoopAnswered, Leaving
      <3>2. ~Linked' /\ ~left_early
        BY <3>1 DEF Me!ForgetRoom, Linked
      <3> QED
        BY <2>1, <3>2, GameKept DEF GameInv
    <2>3. CASE ~(Me!Here.at \in Leaving /\ Head(inbox).header = "ResultSuccess")
      <3>1. UNCHANGED <<in_game, link, left_early, server_peer, server>>
        BY <1>1, <2>3 DEF Me!LoopAnswered, Leaving
      <3>2. GameKnown
        BY <2>1, <3>1 DEF GameInv
      <3>3. Linked' = Linked /\ (Linked => room_id # 0)
        BY <3>1, <3>2 DEF Linked, GameKnown
      <3>4. room_id # 0 => room_id' # 0
        <4>1. Me!Here.at = "join" /\ AnswerComes => room_id = 0
          BY DEF AnswerComes, Settles, Leaving
        <4> QED
          BY <1>1, <2>3, <4>1, AnswerTaken
      <3> QED
        BY <2>1, <3>1, <3>2, <3>3, <3>4, GameKept
    <2> QED
      BY <2>2, <2>3
  <1>2. CASE Me!MainReads \/ Me!LoopReads
    <2>0. ~Me!LoopAnswered \/ GameKnown'
      BY <1>1
    <2>1. UNCHANGED left_early /\ Takes
      BY <1>2, ReadsGame
    <2>2. Orderly /\ UNCHANGED room_id
      BY <1>2, ClientTypes, ReadsPass
    <2>3. GameKnown /\ Heard
      BY <2>1, <2>2 DEF GameInv, NewsInv
    <2>4. CASE /\ inbox # <<>> /\ inbox' = Tail(inbox)
               /\ \E packet \in FromLobby : packet = Head(inbox) /\ Connects(packet)
      BY <2>2, <2>3, <2>4, GameConnects
    <2>5. CASE /\ inbox # <<>> /\ inbox' = Tail(inbox)
               /\ \E packet \in FromLobby : packet = Head(inbox) /\ Ignores(packet)
      <3>1. Head(inbox).header = "ServerInfo" /\ Linked
        BY <2>5 DEF Ignores, Linked
      <3>2. InfoAt # {}
        BY <2>5, <3>1, TailFacts DEF InfoAt, Marks, ClientInv, Valued
      <3> QED
        BY <2>3, <3>1, <3>2 DEF GameKnown
    <2>6. CASE link = "up" /\ in_game' /\ UNCHANGED <<stack, server_peer, link, server, inbox>>
      <3>1. Linked /\ room_id' # 0
        BY <2>2, <2>3, <2>6 DEF Linked, GameKnown
      <3> QED
        BY <2>1, <2>3, <2>6, <3>1, GameKept
    <2>7. CASE UNCHANGED <<stack, in_game, server_peer, link, server>>
      <3>1. Linked' => Linked /\ room_id' # 0
        BY <2>2, <2>3, <2>7 DEF Linked, GameKnown
      <3> QED
        BY <2>1, <2>3, <2>7, <3>1, GameKept
    <2> QED
      BY <1>2, <2>4, <2>5, <2>6, <2>7, ReadsGame
  <1>3. CASE ~(Me!MainReads \/ Me!LoopReads \/ Me!LoopAnswered)
    <2>1. Orderly /\ Takes /\ UNCHANGED room_id
      BY <1>3, ClientPasses
    <2>2. /\ UNCHANGED <<in_game, server_peer, server, left_early>>
          /\ link' = link \/ link # "free"
      BY <1>3, OthersGame
    <2>3. GameKnown
      BY <2>1, <2>2 DEF GameInv
    <2>4. Linked' => Linked /\ room_id' # 0
      BY <2>1, <2>2, <2>3 DEF Linked, GameKnown
    <2> QED
      BY <2>1, <2>2, <2>3, <2>4, GameKept
  <1> QED
    BY <1>1, <1>2, <1>3

-----------------------------------------------------------------------------
(***************************************************************************)
(* Where the others are, and what they are called.                         *)
(***************************************************************************)

\* Another client is where it introduced itself or in a room, under its id.
Placed(p) ==
    /\ conn[p] = "greeted" => p \in DOMAIN wait_room \/ \E r \in Rooms : p \in Members(r)
    /\ p \in DOMAIN wait_room => wait_room[p] = their_id[p] /\ conn[p] = "greeted"
    /\ \A r \in Rooms : p \in Members(r) => rooms[r].clients[p] = their_id[p]
    /\ conn[p] # "none" => their_id[p] < id_counter
    /\ conn[p] = "none" => their_id[p] = NoId
PlacedInv ==
    /\ \A p \in Others : Placed(p)
    /\ \A p, q \in Others :
         conn[p] # "none" /\ conn[q] # "none" /\ their_id[p] = their_id[q] => p = q

\* q is where it was.
SameSeat(q) ==
    /\ conn'[q] = conn[q]
    /\ q \in DOMAIN wait_room' <=> q \in DOMAIN wait_room
    /\ q \in DOMAIN wait_room => wait_room'[q] = wait_room[q]
    /\ \A r \in Rooms : q \in Members(r) => r \in Rooms' /\ q \in DOMAIN rooms'[r].clients
    /\ \A r \in Rooms' : q \in DOMAIN rooms'[r].clients =>
         r \in Rooms /\ q \in Members(r) /\ rooms'[r].clients[q] = rooms[r].clients[q]

\* A table in which only p's entry may change.
Edits(m, n, p) == n = m \/ (\E i \in Ids : n = Put(m, p, i)) \/ n = Erase(m, p)

\* A step of the lobby that is about p only.
Touches(p) ==
    /\ \A q \in Client : q # p => conn'[q] = conn[q]
    /\ Edits(wait_room, wait_room', p)
    /\ \/ SameMembers
       \/ Rooms' = Rooms /\ \A r \in Rooms : Edits(rooms[r].clients, rooms'[r].clients, p)

LEMMA EntryKept ==
    ASSUME NEW m \in Tables(Client, Ids), NEW n, NEW p \in Client, NEW q, q # p, Edits(m, n, p)
    PROVE  (q \in DOMAIN n <=> q \in DOMAIN m) /\ (q \in DOMAIN m => n[q] = m[q])
  <1>1. CASE n = m
    BY <1>1
  <1>2. CASE \E i \in Ids : n = Put(m, p, i)
    <2>1. PICK i \in Ids : n = Put(m, p, i)
      BY <1>2
    <2>2. DOMAIN Put(m, p, i) = DOMAIN m \cup {p} /\ \A x \in DOMAIN m : x # p => Put(m, p, i)[x] = m[x]
      BY DEF Put
    <2> QED
      BY <2>1, <2>2
  <1>3. CASE n = Erase(m, p)
    <2>1. DOMAIN Erase(m, p) = DOMAIN m \ {p} /\ \A x \in DOMAIN m : x # p => Erase(m, p)[x] = m[x]
      BY DEF Erase
    <2> QED
      BY <1>3, <2>1
  <1> QED
    BY <1>1, <1>2, <1>3 DEF Edits

LEMMA SeatsKept ==
    ASSUME LobbyInv, NEW p \in Client, NEW q \in Client, q # p, Touches(p)
    PROVE  SameSeat(q)
  <1>1. /\ q \in DOMAIN wait_room' <=> q \in DOMAIN wait_room
        /\ q \in DOMAIN wait_room => wait_room'[q] = wait_room[q]
    BY EntryKept DEF Touches, LobbyInv, Tabled
  <1>2. CASE SameMembers
    <2>1. \A r \in Rooms : q \in Members(r) => r \in Rooms' /\ q \in DOMAIN rooms'[r].clients
      BY <1>2 DEF SameMembers, Members
    <2>2. \A r \in Rooms' : q \in DOMAIN rooms'[r].clients =>
            r \in Rooms /\ q \in Members(r) /\ rooms'[r].clients[q] = rooms[r].clients[q]
      BY <1>2 DEF SameMembers, Members
    <2> QED
      BY <1>1, <2>1, <2>2 DEF Touches, SameSeat
  <1>3. CASE Rooms' = Rooms /\ \A r \in Rooms : Edits(rooms[r].clients, rooms'[r].clients, p)
    <2>1. ASSUME NEW r \in Rooms
          PROVE  /\ q \in DOMAIN rooms'[r].clients <=> q \in Members(r)
                 /\ q \in Members(r) => rooms'[r].clients[q] = rooms[r].clients[q]
      <3>1. rooms[r].clients \in Tables(Client, Ids)
        BY RoomFacts DEF LobbyInv
      <3> QED
        BY <1>3, <3>1, EntryKept DEF Members
    <2> QED
      BY <1>1, <1>3, <2>1 DEF Touches, SameSeat
  <1> QED
    BY <1>2, <1>3 DEF Touches

LEMMA PlacedKept ==
    ASSUME LobbyInv, TheirsInv, NEW p \in Others, Placed(p), SameSeat(p), their_id'[p] = their_id[p],
           id_counter' \in Nat, id_counter <= id_counter'
    PROVE  Placed(p)'
  <1>1. their_id[p] \in Int /\ id_counter \in Nat
    BY Constants DEF TheirsInv, LobbyInv, Tabled, Ids
  <1>2. conn'[p] # "none" => their_id'[p] < id_counter'
    BY <1>1 DEF Placed, SameSeat
  <1>3. \A r \in Rooms' : p \in Members(r)' => rooms'[r].clients[p] = their_id'[p]
    BY DEF Placed, SameSeat, Members
  <1>4. conn'[p] = "greeted" => p \in DOMAIN wait_room' \/ \E r \in Rooms' : p \in Members(r)'
    BY DEF Placed, SameSeat, Members
  <1> QED
    BY <1>2, <1>3, <1>4 DEF Placed, SameSeat

\* The steps that are about the client under study.
LEMMA TouchesMe ==
    ASSUME LobbyInv, ClientInv, LobbyGreetsMe \/ LobbyServesMe \/ LobbyLosesMe
    PROVE  Touches(me) /\ LobbyInv' /\ UNCHANGED theirSide /\ id_counter <= id_counter'
  <1>1. me \in Client /\ UNCHANGED theirSide /\ UNCHANGED min_port /\ me \in Peer
    BY Constants DEF LobbyGreetsMe, LobbyServesMe, LobbyLosesMe, LobbyStep, agentSide, Client
  <1>2. id_counter \in Nat /\ \A q \in Client : q \in Peer
    BY Constants DEF LobbyInv, Tabled, Client
  <1>3. ASSUME NEW x, conn' = [conn EXCEPT ![me] = x]
        PROVE  \A q \in Client : q # me => conn'[q] = conn[q]
    BY <1>2, <1>3 DEF LobbyInv, Tabled
  <1>4. CASE LobbyGreetsMe
    <2>1. CASE Connect(me)
      <3>1. /\ LobbyInv' /\ SameMembers /\ id_counter' = id_counter + 1 /\ UNCHANGED wait_room
            /\ conn' = [conn EXCEPT ![me] = "connected"]
        BY <1>1, <2>1, ConnectEffect DEF Connect
      <3> QED
        BY <1>1, <1>2, <1>3, <3>1 DEF Touches, Edits
    <2>2. CASE BootClient(me)
      <3>1. LobbyInv' /\ SameMembers /\ UNCHANGED <<wait_room, id_counter>>
        BY <1>1, <2>2, BootEffect
      <3>2. conn' = [conn EXCEPT ![me] = "connected"]
        BY <2>2 DEF BootClient
      <3> QED
        BY <1>1, <1>2, <1>3, <3>1, <3>2 DEF Touches, Edits
    <2> QED
      BY <1>4, <2>1, <2>2 DEF LobbyGreetsMe
  <1>5. CASE LobbyLosesMe
    <2>1. /\ LobbyInv' /\ Rooms' = Rooms /\ UNCHANGED id_counter /\ wait_room' = Erase(wait_room, me)
          /\ \A r \in Rooms : rooms'[r].clients = Erase(rooms[r].clients, me)
          /\ conn' = [conn EXCEPT ![me] = "none"]
      BY <1>1, <1>5, GoneEffect DEF LobbyLosesMe
    <2> QED
      BY <1>1, <1>2, <1>3, <2>1 DEF Touches, Edits
  <1>6. CASE LobbyServesMe
    <2>1. LobbyInv' /\ \E packet \in ToLobby : packet = Head(outbox)
      BY <1>6, ServesMe
    <2>2. PICK packet \in ToLobby : packet = Head(outbox)
      BY <2>1
    <2>3. CASE \/ Unreadable(me)
               \/ RoomList(me)
               \/ \E max \in Capacity, s \in Settings : NewRoomInfo(me, max, s)
               \/ \E r : JoinRefused(me, r) \/ LeaveRefused(me, r)
      <3>1. SameMembers /\ UNCHANGED <<conn, wait_room, id_counter>>
        BY <1>1, <2>3, AnswerEffect
      <3> QED
        BY <1>1, <1>2, <2>1, <3>1 DEF Touches, Edits
    <2>4. CASE packet.header = "ClientAbout" /\ ClientAbout(me, packet.id)
      <3>1. packet.id \in Ids
        BY <2>4 DEF ToLobby, Asked
      <3>2. PICK i \in Ids : i = packet.id
        BY <3>1
      <3>3. ClientAbout(me, i)
        BY <2>4, <3>2 DEF ClientAbout
      <3>4. /\ SameMembers /\ UNCHANGED id_counter /\ wait_room' = Put(wait_room, me, i)
            /\ conn' = [conn EXCEPT ![me] = "greeted"]
        BY <1>1, <3>3, GreetEffect
      <3> QED
        BY <1>1, <1>2, <1>3, <2>1, <3>4 DEF Touches, Edits
    <2>5. CASE \E r : Join(me, r)
      <3>1. PICK r : Join(me, r)
        BY <2>5
      <3> DEFINE i == At(wait_room, me, DefaultId)
      <3>2. /\ Rooms' = Rooms /\ UNCHANGED <<conn, id_counter>> /\ i \in Ids
            /\ wait_room' = Erase(wait_room, me)
            /\ \A q \in Rooms : rooms'[q].clients = IF q = r THEN Put(rooms[r].clients, me, i)
                                                    ELSE rooms[q].clients
        BY <1>1, <3>1, JoinEffect
      <3> HIDE DEF i
      <3>3. \A q \in Rooms : Edits(rooms[q].clients, rooms'[q].clients, me)
        BY <3>2 DEF Edits
      <3> QED
        BY <1>1, <1>2, <2>1, <3>2, <3>3 DEF Touches, Edits
    <2>6. CASE \E r : Leave(me, r)
      <3>1. PICK r : Leave(me, r)
        BY <2>6
      <3> DEFINE i == rooms[r].clients[me]
      <3>2. /\ Rooms' = Rooms /\ UNCHANGED <<conn, id_counter>> /\ r \in Rooms /\ me \in Members(r)
            /\ wait_room' = Put(wait_room, me, i)
            /\ \A q \in Rooms : rooms'[q].clients = IF q = r THEN Erase(rooms[r].clients, me)
                                                    ELSE rooms[q].clients
        BY <1>1, <3>1, LeaveEffect
      <3>3. i \in Ids
        BY <3>2, RoomFacts DEF LobbyInv
      <3> HIDE DEF i
      <3>4. \A q \in Rooms : Edits(rooms[q].clients, rooms'[q].clients, me)
        BY <3>2 DEF Edits
      <3> QED
        BY <1>1, <1>2, <2>1, <3>2, <3>3, <3>4 DEF Touches, Edits
    <2> QED
      BY <1>6, <2>2, <2>3, <2>4, <2>5, <2>6 DEF LobbyServesMe, LobbyReads, ConnectRoom, DisconnectRoom
  <1> QED
    BY <1>4, <1>5, <1>6

\* A step about me leaves every other client where it is.
LEMMA PlacedMine ==
    ASSUME LobbyInv, LobbyInv', TheirsInv, PlacedInv, Touches(me), UNCHANGED their_id,
           id_counter <= id_counter'
    PROVE  PlacedInv'
  <1>1. id_counter' \in Nat /\ me \in Client
    BY Constants DEF LobbyInv, Tabled
  <1>2. ASSUME NEW p \in Others PROVE SameSeat(p) /\ Placed(p)'
    <2>1. p \in Client /\ p # me
      BY OtherFacts
    <2>2. SameSeat(p)
      BY <1>1, <2>1, SeatsKept
    <2> QED
      BY <1>1, <2>2, PlacedKept DEF PlacedInv
  <1>3. \A p \in Others : conn'[p] = conn[p]
    BY <1>2 DEF SameSeat
  <1>4. \A p \in Others : Placed(p)'
    BY <1>2
  <1> QED
    BY <1>3, <1>4 DEF PlacedInv, Others

\* A step about p: it has to be looked at.
LEMMA PlacedTheirs ==
    ASSUME LobbyInv, LobbyInv', TheirsInv, PlacedInv, NEW p \in Others, Touches(p),
           id_counter <= id_counter', \A q \in Others : q # p => their_id'[q] = their_id[q],
           Placed(p)',
           \A q \in Others : conn'[p] # "none" /\ q # p /\ conn[q] # "none" => their_id'[p] # their_id[q]
    PROVE  PlacedInv'
  <1>1. id_counter' \in Nat /\ p \in Client
    BY OtherFacts DEF LobbyInv, Tabled
  <1>2. ASSUME NEW q \in Others, q # p PROVE conn'[q] = conn[q] /\ Placed(q)'
    <2>1. q \in Client
      BY OtherFacts
    <2>2. SameSeat(q)
      BY <1>1, <1>2, <2>1, SeatsKept
    <2>3. Placed(q)'
      BY <1>1, <1>2, <2>2, PlacedKept DEF PlacedInv
    <2> QED
      BY <2>2, <2>3 DEF SameSeat
  <1>3. \A q \in Others : Placed(q)'
    BY <1>2
  <1>4. \A q, s \in Others :
          conn'[q] # "none" /\ conn'[s] # "none" /\ their_id'[q] = their_id'[s] => q = s
    BY <1>2 DEF PlacedInv
  <1> QED
    BY <1>3, <1>4 DEF PlacedInv, Others

LEMMA PlacedComes ==
    ASSUME LobbyInv, TheirsInv, PlacedInv, OtherComes
    PROVE  PlacedInv' /\ SameMembers /\ out'[me] = <<>> /\ UNCHANGED vanished
  <1>1. PICK p \in Others :
          /\ \/ Connect(p) /\ their_id' = [their_id EXCEPT ![p] = id_counter]
             \/ BootClient(p) /\ UNCHANGED their_id
          /\ UNCHANGED min_port /\ UNCHANGED vanished
    BY DEF OtherComes, Moves, LobbyStep, agentSide
  <1>2. p \in Client /\ p \in Peer /\ p # me /\ Placed(p)
    BY OtherFacts DEF PlacedInv
  <1>3. LobbyInv' /\ SameMembers /\ out'[me] = <<>> /\ conn' = [conn EXCEPT ![p] = "connected"]
        /\ UNCHANGED wait_room /\ conn[p] = "none"
        /\ \/ id_counter' = id_counter + 1 /\ their_id' = [their_id EXCEPT ![p] = id_counter]
           \/ /\ UNCHANGED <<id_counter, their_id>> /\ \A q \in Peer : conn[q] = "none"
    <2>1. CASE Connect(p) /\ their_id' = [their_id EXCEPT ![p] = id_counter]
      <3>1. /\ LobbyInv' /\ SameMembers /\ out'[me] = <<>> /\ id_counter' = id_counter + 1
            /\ UNCHANGED wait_room
        BY <1>1, <1>2, <2>1, ConnectEffect
      <3> QED
        BY <2>1, <3>1 DEF Connect
    <2>2. CASE BootClient(p) /\ UNCHANGED their_id
      <3>1. /\ LobbyInv' /\ SameMembers /\ out'[me] = <<>> /\ UNCHANGED <<wait_room, id_counter>>
            /\ \A q \in Peer : conn[q] = "none"
        BY <1>1, <1>2, <2>2, BootEffect
      <3> QED
        BY <1>2, <2>2, <3>1 DEF BootClient
    <2> QED
      BY <1>1, <2>1, <2>2
  <1>4. conn \in [Peer -> {"none", "connected", "greeted"}] /\ \A q \in Client : q \in Peer
    BY DEF LobbyInv, Tabled, Client
  <1>5. conn'[p] = "connected" /\ \A q \in Client : q # p => conn'[q] = conn[q]
    BY <1>2, <1>3, <1>4
  <1>6. Touches(p)
    BY <1>3, <1>5 DEF Touches, Edits
  <1>7. their_id \in [Others -> Ids] /\ id_counter \in Nat /\ NoId = -1 /\ \A i \in Ids : i \in Int
    BY DEF TheirsInv, LobbyInv, Tabled, NoId, Ids
  <1>8. \A q \in Others : q # p => their_id'[q] = their_id[q]
    BY <1>3, <1>7
  <1>9. their_id'[p] < id_counter'
    BY <1>2, <1>3, <1>7 DEF Placed
  <1>10. p \notin DOMAIN wait_room' /\ \A r \in Rooms' : p \notin Members(r)'
    <2>1. p \notin DOMAIN wait_room /\ \A r \in Rooms : p \notin Members(r)
      BY <1>2, <1>3 DEF Placed, LobbyInv, Tabled
    <2>2. \A r \in Rooms' : p \notin Members(r)'
      BY <1>3, <2>1 DEF SameMembers, Members
    <2> QED
      BY <1>3, <2>1, <2>2
  <1>11. Placed(p)'
    BY <1>5, <1>9, <1>10 DEF Placed
  <1>12. \A q \in Others : q # p /\ conn[q] # "none" => their_id'[p] # their_id[q]
    <2> SUFFICES ASSUME NEW q \in Others, q # p, conn[q] # "none" PROVE their_id'[p] # their_id[q]
      OBVIOUS
    <2>1. q \in Peer /\ Placed(q)
      BY OtherFacts DEF PlacedInv
    <2>2. their_id[q] < id_counter /\ their_id'[p] = id_counter
      BY <1>3, <1>7, <2>1 DEF Placed
    <2> QED
      BY <1>7, <2>2
  <1>13. id_counter <= id_counter'
    BY <1>3, <1>7
  <1> QED
    BY <1>1, <1>3, <1>6, <1>8, <1>11, <1>12, <1>13, PlacedTheirs

LEMMA PlacedIntroduces ==
    ASSUME LobbyInv, TheirsInv, PlacedInv, OtherIntroducesItself
    PROVE  PlacedInv' /\ SameMembers /\ out'[me] = <<>> /\ UNCHANGED vanished
  <1>1. PICK p \in Others : ClientAbout(p, their_id[p])
    BY DEF OtherIntroducesItself
  <1>2. UNCHANGED <<their_id, vanished>> /\ UNCHANGED min_port
    BY DEF OtherIntroducesItself, Moves, LobbyStep, agentSide
  <1>3. p \in Client /\ p \in Peer /\ p # me /\ their_id[p] \in Ids /\ Placed(p)
    BY OtherFacts DEF TheirsInv, PlacedInv
  <1>4. PICK i \in Ids : i = their_id[p]
    BY <1>3
  <1>5. ClientAbout(p, i)
    BY <1>1, <1>4 DEF ClientAbout
  <1>6. /\ LobbyInv' /\ SameMembers /\ out'[me] = <<>> /\ conn[p] = "connected"
        /\ conn' = [conn EXCEPT ![p] = "greeted"] /\ wait_room' = Put(wait_room, p, i)
        /\ UNCHANGED id_counter
    BY <1>2, <1>3, <1>5, GreetEffect
  <1>7. conn \in [Peer -> {"none", "connected", "greeted"}] /\ \A q \in Client : q \in Peer
    BY DEF LobbyInv, Tabled, Client
  <1>8. conn'[p] = "greeted" /\ \A q \in Client : q # p => conn'[q] = conn[q]
    BY <1>3, <1>6, <1>7
  <1>9. Touches(p)
    BY <1>6, <1>8 DEF Touches, Edits
  <1>10. p \in DOMAIN wait_room' /\ wait_room'[p] = their_id'[p]
    BY <1>2, <1>4, <1>6 DEF Put
  <1>11. \A r \in Rooms' : p \notin Members(r)'
    <2>1. \A r \in Rooms : p \notin Members(r)
      BY <1>6 DEF LobbyInv, Tabled
    <2> QED
      BY <1>6, <2>1 DEF SameMembers, Members
  <1>12. their_id'[p] < id_counter'
    BY <1>2, <1>3, <1>6 DEF Placed
  <1>13. Placed(p)'
    BY <1>8, <1>10, <1>11, <1>12 DEF Placed
  <1>14. \A q \in Others : q # p /\ conn[q] # "none" => their_id'[p] # their_id[q]
    BY <1>2, <1>6 DEF PlacedInv
  <1>15. id_counter <= id_counter'
    BY <1>6 DEF LobbyInv, Tabled
  <1> QED
    BY <1>2, <1>6, <1>9, <1>13, <1>14, <1>15, PlacedTheirs

LEMMA PlacedCreates ==
    ASSUME LobbyInv, TheirsInv, PlacedInv, OtherCreatesRoom
    PROVE  PlacedInv' /\ SameMembers /\ out'[me] = <<>> /\ UNCHANGED vanished
  <1>1. PICK p \in Others : \E max \in Capacity, s \in Settings : NewRoomInfo(p, max, s)
    BY DEF OtherCreatesRoom
  <1>2. UNCHANGED <<their_id, vanished>> /\ UNCHANGED min_port
    BY DEF OtherCreatesRoom, Moves, LobbyStep, agentSide
  <1>3. p \in Client /\ p # me /\ id_counter \in Nat
    BY OtherFacts DEF LobbyInv, Tabled
  <1>4. /\ LobbyInv' /\ SameMembers /\ out'[me] = <<>>
        /\ UNCHANGED <<conn, wait_room, id_counter>>
    BY <1>1, <1>2, <1>3, AnswerEffect
  <1>5. Touches(me)
    BY <1>4 DEF Touches, Edits
  <1> QED
    BY <1>2, <1>3, <1>4, <1>5, PlacedMine

LEMMA PlacedAgent ==
    ASSUME LobbyInv, TheirsInv, PlacedInv, AgentLink \/ LobbyServesAgent
    PROVE  /\ PlacedInv' /\ UNCHANGED vanished
           /\ \/ SameMembers /\ out'[me] = <<>>
              \/ ServerPort /\ UNCHANGED min_port
  <1>1. UNCHANGED <<their_id, vanished>> /\ UNCHANGED min_port /\ id_counter \in Nat
    BY DEF AgentLink, LobbyServesAgent, LobbyStep, agentSide, theirSide, LobbyInv, Tabled
  <1>2. CASE BootAgent \/ BootFail
    <2>1. LobbyInv' /\ SameMembers /\ out'[me] = <<>> /\ UNCHANGED <<wait_room, id_counter>>
      BY <1>1, <1>2, BootEffect
    <2>2. UNCHANGED conn
      BY <1>2 DEF BootAgent, BootFail
    <2>3. Touches(me)
      BY <2>1, <2>2 DEF Touches, Edits
    <2> QED
      BY <1>1, <2>1, <2>3, PlacedMine
  <1>3. CASE AgentConnect
    <2>1. AgentSlot \in Peer /\ AgentSlot # me
      BY LobbyAssumption, Constants DEF Client
    <2>2. /\ LobbyInv' /\ SameMembers /\ out'[me] = <<>> /\ UNCHANGED wait_room
          /\ id_counter' = id_counter + 1
      BY <1>1, <1>3, <2>1, ConnectEffect
    <2>3. UNCHANGED conn
      BY <1>3 DEF AgentConnect
    <2>4. Touches(me) /\ id_counter <= id_counter'
      BY <1>1, <2>2, <2>3 DEF Touches, Edits
    <2> QED
      BY <1>1, <2>2, <2>4, PlacedMine
  <1>4. CASE ServerPort
    <2>1. /\ LobbyInv' /\ Rooms' = Rooms /\ UNCHANGED <<conn, wait_room, id_counter>>
          /\ \A q \in Rooms : rooms'[q].clients = rooms[q].clients
      BY <1>1, <1>4, PortEffect
    <2>2. Touches(me)
      BY <2>1 DEF Touches, Edits
    <2> QED
      BY <1>1, <1>4, <2>1, <2>2, PlacedMine
  <1> QED
    BY <1>2, <1>3, <1>4 DEF AgentLink, LobbyServesAgent

\* The ids in a room's table, but for mine.
Called(m) == {m[p] : p \in DOMAIN m \ {me}}
There(r) == Called(rooms[r].clients)

LEMMA CalledPut ==
    ASSUME NEW m, NEW p, p # me, p \notin DOMAIN m, NEW i
    PROVE  Called(Put(m, p, i)) = Called(m) \cup {i}
  <1> DEFINE n == Put(m, p, i)
  <1>1. DOMAIN n = DOMAIN m \cup {p} /\ n[p] = i /\ \A q \in DOMAIN m : n[q] = m[q]
    BY DEF Put
  <1> HIDE DEF n
  <1>2. Called(n) = Called(m) \cup {i}
    BY <1>1 DEF Called
  <1> QED
    BY <1>2 DEF n

LEMMA CalledErase ==
    ASSUME NEW m, NEW p
    PROVE  /\ Called(Erase(m, p)) \subseteq Called(m)
           /\ p \in DOMAIN m => Called(m) \subseteq Called(Erase(m, p)) \cup {m[p]}
           /\ p \notin DOMAIN m => Called(m) = Called(Erase(m, p))
           /\ (\A q \in DOMAIN m : q # p /\ q # me => m[q] # m[p])
                => m[p] \notin Called(Erase(m, p))
  <1> DEFINE n == Erase(m, p)
  <1>1. DOMAIN n = DOMAIN m \ {p} /\ \A q \in DOMAIN n : n[q] = m[q]
    BY DEF Erase
  <1> HIDE DEF n
  <1>2. /\ Called(n) \subseteq Called(m)
        /\ p \in DOMAIN m => Called(m) \subseteq Called(n) \cup {m[p]}
        /\ p \notin DOMAIN m => Called(m) = Called(n)
    BY <1>1 DEF Called
  <1>3. ASSUME \A q \in DOMAIN m : q # p /\ q # me => m[q] # m[p]
        PROVE  m[p] \notin Called(n)
    BY <1>1, <1>3 DEF Called
  <1> QED
    BY <1>2, <1>3 DEF n

\* My table entry is not in it.
LEMMA CalledMine ==
    ASSUME NEW m, NEW i
    PROVE  Called(Put(m, me, i)) = Called(m)
  <1> DEFINE n == Put(m, me, i)
  <1>1. DOMAIN n = DOMAIN m \cup {me} /\ \A q \in DOMAIN m : q # me => n[q] = m[q]
    BY DEF Put
  <1> HIDE DEF n
  <1>2. Called(n) = Called(m)
    BY <1>1 DEF Called
  <1> QED
    BY <1>2 DEF n

\* The room's game stays what it is.
KeepsGame(r) ==
    rooms'[r].game_start = rooms[r].game_start /\ rooms'[r].server = rooms[r].server

OneRoom == \A r, q \in MyRooms : r = q

\* What a step of the lobby that leaves me where I am is to me: nothing, a
\* word about somebody in my room, or the server of my room's game.
Passes ==
    /\ \A r \in MyRooms : /\ KeepsGame(r) /\ There(r)' \subseteq There(r)
                          /\ There(r) \subseteq There(r)' \cup vanished'
    /\ vanished \subseteq vanished' /\ Marks(out'[me], News) = {}
Tells(h, i) ==
    /\ \A r \in MyRooms : /\ KeepsGame(r)
                          /\ There(r)' = IF h = "ClientAbout" THEN There(r) \cup {i} ELSE There(r) \ {i}
    /\ UNCHANGED vanished /\ i \in Ids /\ h \in {"ClientAbout", "DiscClientAbout"}
    /\ out'[me] = <<About(h, i)>>
Starting ==
    /\ \A r \in MyRooms : There(r)' = There(r) /\ ~rooms[r].game_start /\ rooms'[r].game_start
                          /\ out'[me] = <<ServerInfo(rooms'[r].server)>>
    /\ UNCHANGED vanished /\ MyRooms # {}

LEMMA SamePasses ==
    ASSUME LobbyInv, SameMembers, Marks(out'[me], News) = {}, UNCHANGED vanished
    PROVE  Passes
  <1>1. ASSUME NEW r \in MyRooms
        PROVE  There(r)' = There(r) /\ KeepsGame(r)
    <2>1. r \in Rooms /\ me \in Members(r) /\ r \in 1 .. Len(rooms)
      BY RoomFacts DEF MyRooms, LobbyInv
    <2>2. rooms'[r].clients = rooms[r].clients
      BY <2>1 DEF SameMembers
    <2>3. DOMAIN rooms'[r].clients # {}
      BY <2>1, <2>2 DEF Members
    <2> QED
      BY <2>1, <2>2, <2>3 DEF SameMembers, Carries, There, KeepsGame
  <1> QED
    BY <1>1 DEF Passes

\* Rooms of mine keep their game in a step that keeps me in them.
LEMMA GameCarried ==
    ASSUME LobbyInv, Carries(rooms, rooms'), NEW r \in Rooms, me \in DOMAIN rooms'[r].clients
    PROVE  KeepsGame(r)
  <1>1. r \in 1 .. Len(rooms)
    BY RoomFacts DEF LobbyInv
  <1> QED
    BY <1>1 DEF Carries, KeepsGame

LEMMA JoinTells ==
    ASSUME LobbyInv, TheirsInv, PlacedInv, OtherJoins
    PROVE  PlacedInv' /\ (OneRoom => Passes \/ \E i \in Ids : Tells("ClientAbout", i))
  <1>1. PICK p \in Others, r \in Rooms : (\A s \in Rooms : p \notin Members(s)) /\ Join(p, r)
    BY DEF OtherJoins
  <1>2. UNCHANGED <<their_id, vanished>> /\ UNCHANGED min_port
    BY DEF OtherJoins, Moves, LobbyStep, agentSide
  <1>3. p \in Client /\ p # me /\ Placed(p)
    BY OtherFacts DEF PlacedInv
  <1> DEFINE i == At(wait_room, p, DefaultId)
  <1>4. /\ LobbyInv' /\ Carries(rooms, rooms') /\ Rooms' = Rooms /\ i \in Ids
        /\ \A q \in Rooms : rooms'[q].clients = IF q = r THEN Put(rooms[r].clients, p, i)
                                                ELSE rooms[q].clients
        /\ wait_room' = Erase(wait_room, p) /\ conn[p] = "greeted" /\ UNCHANGED <<conn, id_counter>>
        /\ out'[me] = IF me \in Members(r) THEN <<About("ClientAbout", i)>> ELSE <<>>
    BY <1>1, <1>2, <1>3, JoinEffect
  <1>5. i = their_id[p]
    BY <1>1, <1>3, <1>4 DEF Placed, At
  <1> HIDE DEF i
  <1>6. Touches(p)
    <2>1. \A q \in Rooms : Edits(rooms[q].clients, rooms'[q].clients, p)
      BY <1>4 DEF Edits
    <2> QED
      BY <1>4, <2>1 DEF Touches, Edits
  <1>7. Placed(p)'
    <2>1. p \notin DOMAIN wait_room'
      BY <1>4 DEF Erase
    <2>2. p \in DOMAIN rooms'[r].clients /\ rooms'[r].clients[p] = i
      BY <1>4 DEF Put
    <2>3. \A q \in Rooms : q # r => p \notin DOMAIN rooms'[q].clients
      BY <1>1, <1>4 DEF Members
    <2>4. \A q \in Rooms' : p \in Members(q)' => rooms'[q].clients[p] = their_id'[p]
      BY <1>2, <1>4, <1>5, <2>2, <2>3 DEF Members
    <2>5. \E q \in Rooms' : p \in Members(q)'
      BY <1>1, <1>4, <2>2 DEF Members
    <2>6. their_id'[p] < id_counter' /\ conn'[p] = "greeted"
      BY <1>2, <1>3, <1>4 DEF Placed
    <2> QED
      BY <2>1, <2>4, <2>5, <2>6 DEF Placed
  <1>8. PlacedInv'
    <2>1. \A q \in Others : q # p /\ conn[q] # "none" => their_id'[p] # their_id[q]
      BY <1>2, <1>4 DEF PlacedInv
    <2>2. id_counter <= id_counter'
      BY <1>4 DEF LobbyInv, Tabled
    <2> QED
      BY <1>2, <1>4, <1>6, <1>7, <2>1, <2>2, PlacedTheirs
  <1>9. \A q \in MyRooms : q \in Rooms /\ me \in Members(q)
    BY DEF MyRooms
  <1>10. \A q \in MyRooms : KeepsGame(q)
    <2>1. ASSUME NEW q \in MyRooms PROVE me \in DOMAIN rooms'[q].clients
      BY <1>3, <1>4, <1>9 DEF Put, Members
    <2> QED
      BY <1>4, <1>9, <2>1, GameCarried
  <1>11. CASE r \in MyRooms /\ OneRoom
    <2>1. \A q \in MyRooms : There(q)' = There(q) \cup {i}
      <3>1. Called(Put(rooms[r].clients, p, i)) = Called(rooms[r].clients) \cup {i}
        BY <1>1, <1>3, CalledPut DEF Members
      <3> QED
        BY <1>4, <1>9, <1>11, <3>1 DEF There, OneRoom
    <2> QED
      BY <1>2, <1>4, <1>8, <1>9, <1>10, <1>11, <2>1 DEF Tells
  <1>12. CASE r \notin MyRooms
    <2>1. \A q \in MyRooms : There(q)' = There(q)
      BY <1>4, <1>9, <1>12 DEF There
    <2>2. Marks(out'[me], News) = {}
      BY <1>1, <1>4, <1>12, NoNewsIn DEF MyRooms
    <2> QED
      BY <1>2, <1>8, <1>10, <2>1, <2>2 DEF Passes
  <1> QED
    BY <1>8, <1>11, <1>12

LEMMA LeaveTells ==
    ASSUME LobbyInv, TheirsInv, PlacedInv, OtherLeaves
    PROVE  PlacedInv' /\ (OneRoom => Passes \/ \E i \in Ids : Tells("DiscClientAbout", i))
  <1>1. PICK p \in Others, r \in Rooms : Leave(p, r)
    BY DEF OtherLeaves
  <1>2. UNCHANGED <<their_id, vanished>> /\ UNCHANGED min_port
    BY DEF OtherLeaves, Moves, LobbyStep, agentSide
  <1>3. p \in Client /\ p # me /\ Placed(p)
    BY OtherFacts DEF PlacedInv
  <1>4. /\ LobbyInv' /\ Carries(rooms, rooms') /\ Rooms' = Rooms /\ p \in Members(r)
        /\ \A q \in Rooms : rooms'[q].clients = IF q = r THEN Erase(rooms[r].clients, p)
                                                ELSE rooms[q].clients
        /\ wait_room' = Put(wait_room, p, rooms[r].clients[p])
        /\ conn[p] = "greeted" /\ UNCHANGED <<conn, id_counter>>
        /\ out'[me] = IF me \in Members(r)
                      THEN <<About("DiscClientAbout", rooms[r].clients[p])>> ELSE <<>>
    BY <1>1, <1>2, <1>3, LeaveEffect
  <1>5. PICK i \in Ids : i = rooms[r].clients[p]
    BY <1>4, RoomFacts DEF LobbyInv
  <1>6. i = their_id[p]
    BY <1>3, <1>4, <1>5 DEF Placed
  <1>7. Touches(p)
    <2>1. \A q \in Rooms : Edits(rooms[q].clients, rooms'[q].clients, p)
      BY <1>4 DEF Edits
    <2> QED
      BY <1>4, <1>5, <2>1 DEF Touches, Edits
  <1>8. Placed(p)'
    <2>1. p \in DOMAIN wait_room' /\ wait_room'[p] = their_id'[p]
      BY <1>2, <1>4, <1>5, <1>6 DEF Put
    <2>2. ASSUME NEW q \in Rooms', p \in Members(q)'
          PROVE  rooms'[q].clients[p] = their_id'[p]
      <3>1. q \in Rooms /\ p \in DOMAIN rooms'[q].clients
        BY <1>4, <2>2 DEF Members
      <3>2. q # r
        BY <1>1, <1>4, <3>1 DEF Erase
      <3> QED
        BY <1>2, <1>3, <1>4, <3>1, <3>2 DEF Placed, Members
    <2>3. their_id'[p] < id_counter' /\ conn'[p] = "greeted"
      BY <1>2, <1>3, <1>4 DEF Placed
    <2> QED
      BY <2>1, <2>2, <2>3 DEF Placed
  <1>9. PlacedInv'
    <2>1. \A q \in Others : q # p /\ conn[q] # "none" => their_id'[p] # their_id[q]
      BY <1>2, <1>4 DEF PlacedInv
    <2>2. id_counter <= id_counter'
      BY <1>4 DEF LobbyInv, Tabled
    <2> QED
      BY <1>2, <1>4, <1>7, <1>8, <2>1, <2>2, PlacedTheirs
  <1>10. \A q \in MyRooms : q \in Rooms /\ me \in Members(q)
    BY DEF MyRooms
  <1>11. \A q \in MyRooms : KeepsGame(q)
    <2>1. ASSUME NEW q \in MyRooms PROVE me \in DOMAIN rooms'[q].clients
      BY <1>3, <1>4, <1>10 DEF Erase, Members
    <2> QED
      BY <1>4, <1>10, <2>1, GameCarried
  <1>12. CASE r \in MyRooms /\ OneRoom
    <2>1. \A q \in DOMAIN rooms[r].clients : q # p /\ q # me => rooms[r].clients[q] # rooms[r].clients[p]
      <3> SUFFICES ASSUME NEW q \in Members(r), q # p, q # me
                   PROVE  rooms[r].clients[q] # rooms[r].clients[p]
        BY DEF Members
      <3>1. q \in Others /\ conn[q] = "greeted"
        BY Constants, RoomFacts DEF LobbyInv, Tabled
      <3>2. rooms[r].clients[q] = their_id[q]
        BY <3>1 DEF PlacedInv, Placed
      <3> QED
        BY <1>4, <1>5, <1>6, <3>1, <3>2 DEF PlacedInv
    <2>2. \A q \in MyRooms : There(q)' = There(q) \ {i}
      <3> DEFINE m == rooms[r].clients
      <3>1. /\ Called(Erase(m, p)) \subseteq Called(m)
            /\ Called(m) \subseteq Called(Erase(m, p)) \cup {m[p]} /\ m[p] \notin Called(Erase(m, p))
        BY <1>4, <2>1, CalledErase DEF Members
      <3>2. rooms'[r].clients = Erase(m, p)
        BY <1>1, <1>4
      <3> HIDE DEF m
      <3>3. Called(Erase(m, p)) = Called(m) \ {m[p]}
        BY <3>1
      <3>4. There(r)' = There(r) \ {i}
        BY <1>5, <3>2, <3>3 DEF There, m
      <3> QED
        BY <1>12, <3>4 DEF OneRoom
    <2> QED
      BY <1>2, <1>4, <1>5, <1>9, <1>10, <1>11, <1>12, <2>2 DEF Tells
  <1>13. CASE r \notin MyRooms
    <2>1. \A q \in MyRooms : There(q)' = There(q)
      BY <1>4, <1>10, <1>13 DEF There
    <2>2. Marks(out'[me], News) = {}
      BY <1>1, <1>4, <1>13, NoNewsIn DEF MyRooms
    <2> QED
      BY <1>2, <1>9, <1>11, <2>1, <2>2 DEF Passes
  <1> QED
    BY <1>9, <1>12, <1>13

LEMMA VanishTells ==
    ASSUME LobbyInv, TheirsInv, PlacedInv, OtherVanishes
    PROVE  PlacedInv' /\ Passes
  <1>1. PICK p \in Others : /\ Disconnect(p) /\ vanished' = vanished \cup {their_id[p]}
                            /\ their_id' = [their_id EXCEPT ![p] = NoId]
    BY DEF OtherVanishes
  <1>2. UNCHANGED min_port
    BY DEF OtherVanishes, Moves, LobbyStep, agentSide
  <1>3. p \in Client /\ p \in Peer /\ p # me /\ Placed(p)
    BY OtherFacts DEF PlacedInv
  <1>4. /\ LobbyInv' /\ Carries(rooms, rooms') /\ Rooms' = Rooms
        /\ \A r \in Rooms : rooms'[r].clients = Erase(rooms[r].clients, p)
        /\ conn' = [conn EXCEPT ![p] = "none"] /\ wait_room' = Erase(wait_room, p)
        /\ out'[me] = <<>> /\ UNCHANGED id_counter
    BY <1>1, <1>2, <1>3, GoneEffect
  <1>5. conn \in [Peer -> {"none", "connected", "greeted"}] /\ (\A q \in Client : q \in Peer)
        /\ their_id \in [Others -> Ids] /\ id_counter \in Nat
    BY DEF LobbyInv, Tabled, Client, TheirsInv
  <1>6. conn'[p] = "none" /\ \A q \in Client : q # p => conn'[q] = conn[q]
    BY <1>3, <1>4, <1>5
  <1>7. Touches(p)
    <2>1. \A q \in Rooms : Edits(rooms[q].clients, rooms'[q].clients, p)
      BY <1>4 DEF Edits
    <2> QED
      BY <1>4, <1>6, <2>1 DEF Touches, Edits
  <1>8. their_id'[p] = NoId /\ \A q \in Others : q # p => their_id'[q] = their_id[q]
    BY <1>1, <1>5
  <1>9. Placed(p)'
    <2>1. p \notin DOMAIN wait_room' /\ \A q \in Rooms' : p \notin Members(q)'
      BY <1>4 DEF Erase, Members
    <2> QED
      BY <1>6, <1>8, <2>1 DEF Placed
  <1>10. PlacedInv'
    BY <1>4, <1>5, <1>6, <1>7, <1>8, <1>9, PlacedTheirs
  <1>11. ASSUME NEW r \in MyRooms
         PROVE  KeepsGame(r) /\ There(r)' \subseteq There(r) /\ There(r) \subseteq There(r)' \cup vanished'
    <2> DEFINE m == rooms[r].clients
    <2>1. r \in Rooms /\ me \in Members(r)
      BY DEF MyRooms
    <2>2. rooms'[r].clients = Erase(m, p)
      BY <1>4, <2>1
    <2>3. me \in DOMAIN rooms'[r].clients
      BY <1>3, <2>1, <2>2 DEF Erase, Members
    <2>4. KeepsGame(r)
      BY <1>4, <2>1, <2>3, GameCarried
    <2>5. p \in DOMAIN m => m[p] = their_id[p]
      BY <1>3, <2>1 DEF Placed, Members
    <2> HIDE DEF m
    <2>6. /\ Called(Erase(m, p)) \subseteq Called(m)
          /\ p \in DOMAIN m => Called(m) \subseteq Called(Erase(m, p)) \cup {m[p]}
          /\ p \notin DOMAIN m => Called(m) = Called(Erase(m, p))
      BY CalledErase
    <2>7. /\ Called(Erase(m, p)) \subseteq Called(m)
          /\ Called(m) \subseteq Called(Erase(m, p)) \cup {their_id[p]}
      BY <2>5, <2>6
    <2>8. There(r) = Called(m) /\ There(r)' = Called(Erase(m, p))
      BY <2>2 DEF There, m
    <2> QED
      BY <1>1, <2>4, <2>7, <2>8
  <1>12. Marks(out'[me], News) = {}
    BY <1>4, NoNewsIn
  <1> QED
    BY <1>1, <1>10, <1>11, <1>12 DEF Passes

LEMMA PortStarts ==
    ASSUME LobbyInv, ServerPort, UNCHANGED min_port, UNCHANGED vanished, OneRoom
    PROVE  Passes \/ Starting
  <1>1. /\ \A q \in Rooms : rooms'[q].clients = rooms[q].clients
        /\ \/ UNCHANGED rooms /\ out'[me] = <<>>
           \/ \E r \in Rooms :
                /\ ~rooms[r].game_start /\ rooms'[r].game_start
                /\ \A q \in Rooms \ {r} : rooms'[q] = rooms[q]
                /\ out'[me] = IF me \in Members(r) THEN <<ServerInfo(rooms'[r].server)>> ELSE <<>>
    BY PortEffect
  <1>2. \A q \in MyRooms : q \in Rooms /\ me \in Members(q) /\ There(q)' = There(q)
    BY <1>1 DEF MyRooms, There
  <1>3. CASE UNCHANGED rooms /\ out'[me] = <<>>
    BY <1>2, <1>3, NoNewsIn DEF Passes, KeepsGame
  <1>4. CASE \E r \in Rooms :
               /\ ~rooms[r].game_start /\ rooms'[r].game_start
               /\ \A q \in Rooms \ {r} : rooms'[q] = rooms[q]
               /\ out'[me] = IF me \in Members(r) THEN <<ServerInfo(rooms'[r].server)>> ELSE <<>>
    <2>1. PICK r \in Rooms :
            /\ ~rooms[r].game_start /\ rooms'[r].game_start
            /\ \A q \in Rooms \ {r} : rooms'[q] = rooms[q]
            /\ out'[me] = IF me \in Members(r) THEN <<ServerInfo(rooms'[r].server)>> ELSE <<>>
      BY <1>4
    <2>2. CASE r \in MyRooms
      <3>1. \A q \in MyRooms : q = r
        BY <2>2 DEF OneRoom
      <3> QED
        BY <1>2, <2>1, <2>2, <3>1 DEF Starting
    <2>3. CASE r \notin MyRooms
      <3>1. out'[me] = <<>>
        BY <2>1, <2>3 DEF MyRooms
      <3>2. \A q \in MyRooms : rooms'[q] = rooms[q]
        BY <1>2, <2>1, <2>3
      <3> QED
        BY <1>2, <3>1, <3>2, NoNewsIn DEF Passes, KeepsGame
    <2> QED
      BY <2>2, <2>3
  <1> QED
    BY <1>1, <1>3, <1>4

\* What the others do, as I hear of it.
LEMMA TheirNews ==
    ASSUME LobbyInv, TheirsInv, PlacedInv, TheirSteps
    PROVE  /\ PlacedInv'
           /\ OneRoom =>
                \/ Passes
                \/ Starting
                \/ \E h \in {"ClientAbout", "DiscClientAbout"}, i \in Ids : Tells(h, i)
  <1>1. CASE OtherComes \/ OtherIntroducesItself \/ OtherCreatesRoom
    <2>1. PlacedInv' /\ SameMembers /\ out'[me] = <<>> /\ UNCHANGED vanished
      BY <1>1, PlacedComes, PlacedIntroduces, PlacedCreates
    <2> QED
      BY <2>1, SamePasses, NoNewsIn
  <1>2. CASE OtherVanishes
    BY <1>2, VanishTells
  <1>3. CASE AgentLink \/ LobbyServesAgent
    <2>1. /\ PlacedInv' /\ UNCHANGED vanished
          /\ \/ SameMembers /\ out'[me] = <<>>
             \/ ServerPort /\ UNCHANGED min_port
      BY <1>3, PlacedAgent
    <2>2. CASE SameMembers /\ out'[me] = <<>>
      BY <2>1, <2>2, SamePasses, NoNewsIn
    <2>3. CASE ServerPort /\ UNCHANGED min_port
      BY <2>1, <2>3, PortStarts
    <2> QED
      BY <2>1, <2>2, <2>3
  <1>4. CASE OtherJoins \/ OtherLeaves
    BY <1>4, JoinTells, LeaveTells
  <1> QED
    BY <1>1, <1>2, <1>3, <1>4 DEF TheirSteps

\* The answer to my join, and what comes with it.
Admits(r) ==
    /\ MyRooms = {} /\ MyRooms' = {r} /\ r \in Rooms /\ room_id = 0 /\ AnsweredAt = {}
    /\ KeepsGame(r) /\ There(r)' = There(r)
    /\ \E intros : /\ Introduced(r, intros)
                   /\ out'[me] = IF rooms[r].game_start
                                 THEN Append(<<Message("ResultSuccess")>> \o intros,
                                             ServerInfo(rooms[r].server))
                                 ELSE <<Message("ResultSuccess")>> \o intros

\* Nobody in my room hears of it, because I have left.
Outside == MyRooms' = {} /\ Marks(out'[me], News) = {}

LEMMA InOneRoom ==
    ASSUME Balanced
    PROVE  OneRoom
  BY DEF Balanced, AtRest, InFlight, Replied, Unheard, Agree, Settles, OneRoom

LEMMA JoinKeeps ==
    ASSUME LobbyInv, NEW r, Join(me, r), UNCHANGED min_port
    PROVE  /\ KeepsGame(r) /\ There(r)' = There(r) /\ r \in Rooms /\ MyRooms' = MyRooms \cup {r}
           /\ \E intros : /\ Introduced(r, intros)
                          /\ out'[me] = IF rooms[r].game_start
                                        THEN Append(<<Message("ResultSuccess")>> \o intros,
                                                    ServerInfo(rooms[r].server))
                                        ELSE <<Message("ResultSuccess")>> \o intros
  <1>1. me \in Client
    BY Constants
  <1> DEFINE i == At(wait_room, me, DefaultId)
  <1>2. /\ Carries(rooms, rooms') /\ Rooms' = Rooms /\ r \in Rooms
        /\ \A q \in Rooms : rooms'[q].clients = IF q = r THEN Put(rooms[r].clients, me, i)
                                                ELSE rooms[q].clients
        /\ \E intros : /\ Introduced(r, intros)
                       /\ out'[me] = IF rooms[r].game_start
                                     THEN Append(<<Message("ResultSuccess")>> \o intros,
                                                 ServerInfo(rooms[r].server))
                                     ELSE <<Message("ResultSuccess")>> \o intros
    BY <1>1, JoinEffect
  <1> HIDE DEF i
  <1>3. rooms'[r].clients = Put(rooms[r].clients, me, i)
    BY <1>2
  <1>4. me \in DOMAIN rooms'[r].clients
    BY <1>3 DEF Put
  <1>5. KeepsGame(r)
    BY <1>2, <1>4, GameCarried
  <1>6. There(r)' = There(r)
    BY <1>3, CalledMine DEF There
  <1> QED
    BY <1>2, <1>5, <1>6, JoinsMe

LEMMA JoiningEnters ==
    ASSUME LobbyInv, ClientInv, Balanced, NEW packet, packet = Head(outbox), outbox # <<>>,
           packet.header = "ConnectRoom", NEW r, r = packet.room, Join(me, r), UNCHANGED min_port
    PROVE  Admits(r)
  <1>1. 1 \in AskedAt /\ outbox[1] = packet
    <2>1. Head(outbox).header \in Asked
      BY DEF Asked
    <2> QED
      BY <2>1, MarkedHeaders, TailFacts DEF ClientInv, Valued
  <1>2. PICK w \in Waiting : InFlight(w, 1)
    <2>1. PICK w \in Waiting, n \in AskedAt : InFlight(w, n)
      BY <1>1 DEF Balanced, AtRest, Replied, Unheard
    <2>2. n = 1
      BY <1>1, <2>1 DEF InFlight
    <2> QED
      BY <2>1, <2>2
  <1>3. room_id = 0 /\ AnsweredAt = {} /\ MyRooms = {}
    BY <1>1, <1>2 DEF InFlight, Matches, Agree
  <1>4. /\ KeepsGame(r) /\ There(r)' = There(r) /\ r \in Rooms /\ MyRooms' = MyRooms \cup {r}
        /\ \E intros : /\ Introduced(r, intros)
                       /\ out'[me] = IF rooms[r].game_start
                                     THEN Append(<<Message("ResultSuccess")>> \o intros,
                                                 ServerInfo(rooms[r].server))
                                     ELSE <<Message("ResultSuccess")>> \o intros
    BY JoinKeeps
  <1> QED
    BY <1>3, <1>4 DEF Admits

\* Everything the lobby may do while the client's requests are in order.
LEMMA LobbyNews ==
    ASSUME BalanceInv, PlacedInv, Orderly, LobbyGreetsMe \/ LobbyServesMe \/ TheirSteps
    PROVE  /\ LobbyStep /\ out'[me] \in Seq(FromLobby)
           /\ \/ MyRooms' = MyRooms /\ Passes
              \/ MyRooms' = MyRooms /\ Starting
              \/ /\ MyRooms' = MyRooms
                 /\ \E h \in {"ClientAbout", "DiscClientAbout"}, i \in Ids : Tells(h, i)
              \/ Outside
              \/ (\E r \in Rooms : Admits(r)) /\ UNCHANGED vanished
  <1>1. LobbyInv /\ TheirsInv /\ ClientInv /\ Balanced
    BY DEF BalanceInv, ReachInv, TypeInv, AgreeInv
  <1>2. OneRoom
    BY <1>1, InOneRoom
  <1>3. CASE LobbyGreetsMe
    <2>1. /\ SameMembers /\ LobbyStep /\ UNCHANGED vanished
          /\ out'[me] = Hello \/ out'[me] = <<>>
      BY <1>1, <1>3, GreetsMe DEF theirSide
    <2>2. out'[me] \in Seq(FromLobby) /\ Marks(out'[me], News) = {}
      BY <1>1, <2>1, HelloFacts, NoNewsIn, NoneType
    <2> QED
      BY <1>1, <2>1, <2>2, SameRooms, SamePasses
  <1>4. CASE TheirSteps
    <2>1. Elsewhere
      BY <1>1, <1>4, TheirEffect
    <2>2. LobbyStep /\ MyRooms' = MyRooms /\ out'[me] \in Seq(Reports)
      BY <2>1 DEF Elsewhere
    <2>3. out'[me] \in Seq(FromLobby)
      <3>1. \A x \in Reports : x \in FromLobby
        BY PacketTexts
      <3> QED
        BY <2>2, <3>1, LargerRange
    <2> QED
      BY <1>1, <1>2, <1>4, <2>2, <2>3, TheirNews
  <1>5. CASE LobbyServesMe
    <2>1. /\ LobbyStep /\ UNCHANGED vanished /\ UNCHANGED min_port /\ outbox # <<>>
          /\ \E packet \in ToLobby : packet = Head(outbox) /\ Serves(packet)
      BY <1>1, <1>5, ServesMe DEF theirSide, LobbyStep, agentSide
    <2>2. PICK packet \in ToLobby : packet = Head(outbox) /\ Serves(packet)
      BY <2>1
    <2>3. out'[me] \in Seq(FromLobby)
      <3>1. Replies(packet)
        BY <1>1, <2>1, <2>2, ServesReplies
      <3> QED
        BY <1>1, <3>1, SaidTypes
    <2>4. CASE packet.header = "ConnectRoom" /\ Join(me, packet.room)
      <3>1. PICK r : r = packet.room
        OBVIOUS
      <3>2. Admits(r)
        BY <1>1, <2>1, <2>2, <2>4, <3>1, JoiningEnters
      <3>3. r \in Rooms
        BY <3>2 DEF Admits
      <3> QED
        BY <2>1, <2>3, <3>2, <3>3
    <2>5. CASE Leave(me, packet.room)
      <3>1. PICK r : r = packet.room
        OBVIOUS
      <3>2. r \in MyRooms /\ MyRooms' = MyRooms \ {r} /\ out'[me] = <<Message("ResultSuccess")>>
        BY <1>1, <2>1, <2>5, <3>1, LeavesMe
      <3>3. MyRooms' = {}
        BY <1>2, <3>2 DEF OneRoom
      <3>4. Marks(out'[me], News) = {}
        BY <3>2, NoNewsIn DEF Bare
      <3> QED
        BY <2>1, <2>3, <3>3, <3>4 DEF Outside
    <2>6. CASE SameMembers /\ (out'[me] = <<>> \/ \E h \in Bare : out'[me] = <<Message(h)>>)
      <3>1. Marks(out'[me], News) = {}
        BY <2>6, NoNewsIn
      <3> QED
        BY <1>1, <2>1, <2>3, <2>6, <3>1, SameRooms, SamePasses
    <2> QED
      BY <2>2, <2>4, <2>5, <2>6 DEF Serves, Bare
  <1> QED
    BY <1>3, <1>4, <1>5

LEMMA PlacedInit ==
    ASSUME Init
    PROVE  PlacedInv
  <1>1. /\ \A p \in Others : conn[p] = "none" /\ their_id[p] = NoId
        /\ DOMAIN wait_room = {} /\ Rooms = {}
    BY OtherFacts DEF Init, LobbyInit, Rooms, NoEntries
  <1> QED
    BY <1>1 DEF PlacedInv, Placed

LEMMA PlacedStep ==
    ASSUME BalanceInv, PlacedInv, [Next]_vars
    PROVE  PlacedInv'
  <1>1. LobbyInv /\ TheirsInv /\ ClientInv /\ (LobbyInv')
    <2>1. BalanceInv'
      BY BalanceStep
    <2> QED
      BY <2>1 DEF BalanceInv, ReachInv, TypeInv
  <1>2. CASE LobbyGreetsMe \/ LobbyServesMe \/ LobbyLosesMe
    <2>1. Touches(me) /\ UNCHANGED theirSide /\ id_counter <= id_counter'
      BY <1>1, <1>2, TouchesMe
    <2> QED
      BY <1>1, <2>1, PlacedMine DEF theirSide
  <1>3. CASE TheirSteps
    BY <1>1, <1>3, TheirNews
  <1>4. CASE UNCHANGED <<lobbyVars, theirSide>> \/ Still
    <2>1. UNCHANGED <<rooms, wait_room, id_counter, conn, their_id>>
      BY <1>4 DEF lobbyVars, theirSide, Still
    <2>2. Touches(me)
      <3>1. SameMembers
        BY <1>1, <2>1, SameSame DEF LobbyInv
      <3> QED
        BY <2>1, <3>1 DEF Touches, Edits
    <2>3. id_counter <= id_counter'
      BY <1>1, <2>1 DEF LobbyInv, Tabled
    <2> QED
      BY <1>1, <2>1, <2>2, <2>3, PlacedMine
  <1> QED
    BY <1>1, <1>2, <1>3, <1>4, NextCases

-----------------------------------------------------------------------------
(***************************************************************************)
(* The game of the room: what the lobby says of it.                        *)
(***************************************************************************)
\* u is s with t behind it: its marked packets are those of s, if t has none,
\* or the one of t, if s has none.
Lengthens(s, t, u, H) ==
    /\ Marks(t, H) = {} => Marks(u, H) = Marks(s, H) /\ \A n \in Marks(s, H) : u[n] = s[n]
    /\ \A k : Marks(t, H) = {k} /\ Marks(s, H) = {} => \E n : Marks(u, H) = {n} /\ u[n] = t[k]

LEMMA MarksHeard ==
    ASSUME NEW S, NEW s \in Seq(S), NEW t \in Seq(S), NEW H, NEW u, u = s \o t
    PROVE  Lengthens(s, t, u, H)
  <1>1. /\ DOMAIN s = 1 .. Len(s) /\ Len(s) \in Nat
        /\ DOMAIN t = 1 .. Len(t) /\ Len(t) \in Nat
        /\ DOMAIN u = 1 .. Len(s) + Len(t)
        /\ \A n \in DOMAIN s : u[n] = s[n]
        /\ \A n \in DOMAIN t : u[Len(s) + n] = t[n]
        /\ \A n \in DOMAIN u :
             n \in DOMAIN s \/ (n - Len(s) \in DOMAIN t /\ u[n] = t[n - Len(s)])
    BY ConcatParts
  <1>2. Marks(t, H) = {} => Marks(u, H) = Marks(s, H) /\ \A n \in Marks(s, H) : u[n] = s[n]
    <2>1. \A n \in DOMAIN s : n \in DOMAIN u
      BY <1>1
    <2> QED
      BY <1>1, <2>1 DEF Marks
  <1>3. ASSUME NEW k, Marks(t, H) = {k}, Marks(s, H) = {}
        PROVE  \E n : Marks(u, H) = {n} /\ u[n] = t[k]
    <2>1. k \in DOMAIN t /\ t[k].header \in H
      BY <1>3 DEF Marks
    <2>2. u[Len(s) + k] = t[k] /\ Len(s) + k \in DOMAIN u
      BY <1>1, <2>1
    <2>3. Len(s) + k \in Marks(u, H)
      BY <2>1, <2>2 DEF Marks
    <2>4. ASSUME NEW n \in Marks(u, H) PROVE n = Len(s) + k
      <3>1. n \in DOMAIN u /\ u[n].header \in H
        BY <2>4 DEF Marks
      <3>2. n \notin DOMAIN s
        BY <1>1, <1>3, <3>1 DEF Marks
      <3>3. n - Len(s) \in Marks(t, H)
        BY <1>1, <3>1, <3>2 DEF Marks
      <3>4. n - Len(s) = k
        BY <1>3, <3>3
      <3> QED
        BY <1>1, <2>1, <3>1, <3>4
    <2>5. Marks(u, H) = {Len(s) + k}
      BY <2>3, <2>4
    <2> QED
      BY <2>2, <2>5
  <1> QED
    BY <1>2, <1>3 DEF Lengthens

LEMMA InfoHears ==
    ASSUME ClientInv, inbox' = inbox \o out'[me], out'[me] \in Seq(FromLobby)
    PROVE  /\ Marks(out'[me], {"ServerInfo"}) = {} =>
                InfoAt' = InfoAt /\ \A n \in InfoAt : inbox'[n] = inbox[n]
           /\ \A k : Marks(out'[me], {"ServerInfo"}) = {k} /\ InfoAt = {} =>
                \E n : InfoAt' = {n} /\ inbox'[n] = out'[me][k]
  <1>1. PICK s \in Seq(FromLobby) : s = inbox
    BY DEF ClientInv, Valued
  <1>2. PICK x \in Seq(FromLobby) : x = out'[me]
    OBVIOUS
  <1>3. PICK H : H = {"ServerInfo"}
    OBVIOUS
  <1>4. PICK u : u = s \o x
    OBVIOUS
  <1>5. Lengthens(s, x, u, H)
    BY <1>4, MarksHeard
  <1>6. inbox' = u /\ InfoAt = Marks(s, H) /\ InfoAt' = Marks(u, H)
    BY <1>1, <1>2, <1>3, <1>4 DEF InfoAt
  <1>7. Marks(out'[me], {"ServerInfo"}) = Marks(x, H) /\ out'[me] = x
    BY <1>2, <1>3
  <1> QED
    BY <1>1, <1>5, <1>6, <1>7 DEF Lengthens

\* Nothing is said of a server.
LEMMA GameHears ==
    ASSUME ClientInv, GameKnown, LobbyStep, out'[me] \in Seq(FromLobby),
           Marks(out'[me], {"ServerInfo"}) = {}, \A r \in MyRooms' : r \in MyRooms /\ KeepsGame(r)
    PROVE  GameKnown'
  <1>1. inbox' = inbox \o out'[me] /\ UNCHANGED <<link, in_game, room_id, server_peer, server>>
    BY DEF LobbyStep, Deliver, ClientWaits
  <1>2. InfoAt' = InfoAt /\ \A n \in InfoAt : inbox'[n] = inbox[n]
    BY <1>1, InfoHears
  <1>3. Linked' = Linked
    BY <1>1 DEF Linked
  <1>4. \A r \in MyRooms' : /\ Linked' \/ InfoAt' # {} => rooms'[r].game_start
                            /\ Linked' => server' = rooms'[r].server
                            /\ \A n \in InfoAt' : inbox'[n].address = rooms'[r].server
    <2> SUFFICES ASSUME NEW r \in MyRooms'
                 PROVE  /\ Linked' \/ InfoAt' # {} => rooms'[r].game_start
                        /\ Linked' => server' = rooms'[r].server
                        /\ \A n \in InfoAt' : inbox'[n].address = rooms'[r].server
      OBVIOUS
    <2>1. r \in MyRooms /\ rooms'[r].game_start = rooms[r].game_start /\ rooms'[r].server = rooms[r].server
      BY DEF KeepsGame
    <2> QED
      BY <1>1, <1>2, <1>3, <2>1 DEF GameKnown
  <1>5. (Linked' => room_id' # 0 /\ server_peer' = "slot") /\ (InfoAt' # {} => ~Linked')
    BY <1>1, <1>2, <1>3 DEF GameKnown
  <1> QED
    BY <1>2, <1>4, <1>5 DEF GameKnown

\* The lobby tells the server of the game.
LEMMA GameTold ==
    ASSUME ClientInv, GameKnown, LobbyStep, out'[me] \in Seq(FromLobby), ~Linked, InfoAt = {},
           NEW k, Marks(out'[me], {"ServerInfo"}) = {k}, NEW r, MyRooms' = {r},
           rooms'[r].game_start, out'[me][k] = ServerInfo(rooms'[r].server)
    PROVE  GameKnown'
  <1>1. inbox' = inbox \o out'[me] /\ UNCHANGED <<link, in_game, room_id, server_peer, server>>
    BY DEF LobbyStep, Deliver, ClientWaits
  <1>2. PICK n : InfoAt' = {n} /\ inbox'[n] = out'[me][k]
    BY <1>1, InfoHears
  <1>3. ~Linked'
    BY <1>1 DEF Linked
  <1>4. inbox'[n].address = rooms'[r].server
    BY <1>2 DEF ServerInfo
  <1> QED
    BY <1>2, <1>3, <1>4 DEF GameKnown

\* The packets that answer my join: the introductions, and the server at the
\* end if there is one.
LEMMA Welcomed ==
    ASSUME LobbyInv, ClientInv, NEW r \in Rooms, NEW intros, Introduced(r, intros),
           NEW x, x = IF rooms[r].game_start
                      THEN Append(<<Message("ResultSuccess")>> \o intros, ServerInfo(rooms[r].server))
                      ELSE <<Message("ResultSuccess")>> \o intros
    PROVE  /\ rooms[r].game_start =>
                \E k : Marks(x, {"ServerInfo"}) = {k} /\ x[k] = ServerInfo(rooms[r].server)
           /\ ~rooms[r].game_start => Marks(x, {"ServerInfo"}) = {}
  <1> DEFINE said == <<Message("ResultSuccess")>> \o intros
             where == ServerInfo(rooms[r].server)
  <1>1. Message("ResultSuccess") \in Talk \cup [header : Bare] /\ Talk \subseteq Talk \cup [header : Bare]
    BY DEF Message, Bare
  <1>2. intros \in Seq(Talk \cup [header : Bare])
    <2>1. PICK T, U : T = [header : {"ClientAbout"}, id : Ids] /\ U = Talk \cup [header : Bare]
      OBVIOUS
    <2>2. T \subseteq U /\ intros \in Seq(T)
      BY <2>1 DEF Talk, Introduced
    <2>3. intros \in Seq(U)
      BY <2>2, LargerRange
    <2> QED
      BY <2>1, <2>3
  <1>3. <<Message("ResultSuccess")>> \in Seq(Talk \cup [header : Bare])
    BY <1>1, SingleType
  <1>4. said \in Seq(Talk \cup [header : Bare])
    BY <1>2, <1>3, ConcatParts
  <1>5. where.header = "ServerInfo"
    BY DEF ServerInfo
  <1> DEFINE S == Talk \cup [header : Bare] \cup {where}
  <1>6. said \in Seq(S) /\ where \in S
    BY <1>4, LargerRange
  <1>7. Marks(said, {"ServerInfo"}) = {}
    <2>1. \A y \in Talk \cup [header : Bare] : y.header \notin {"ServerInfo"}
      BY DEF Talk, Bare
    <2> QED
      BY <1>4, <2>1, NoMarks
  <1> HIDE DEF said, where, S
  <1>8. /\ Marks(Append(said, where), {"ServerInfo"}) = {Len(said) + 1}
        /\ Append(said, where)[Len(said) + 1] = where
    BY <1>5, <1>6, <1>7, MarksAppend
  <1>9. rooms[r].game_start => x = Append(said, where)
    BY DEF said, where
  <1>10. ~rooms[r].game_start => x = said
    BY DEF said
  <1> QED
    BY <1>7, <1>8, <1>9, <1>10 DEF where

LEMMA FewerMarks ==
    ASSUME NEW s, Marks(s, News) = {}
    PROVE  Marks(s, {"ServerInfo"}) = {} /\ Marks(s, {"ClientAbout"}) = {} /\ Marks(s, {"DiscClientAbout"}) = {}
  BY DEF Marks, News

LEMMA TellsNoServer ==
    ASSUME NEW h \in {"ClientAbout", "DiscClientAbout"}, NEW i
    PROVE  Marks(<<About(h, i)>>, {"ServerInfo"}) = {}
  <1>1. DOMAIN <<About(h, i)>> = {1} /\ <<About(h, i)>>[1] = About(h, i)
    OBVIOUS
  <1> QED
    BY <1>1 DEF Marks, About

\* Before I am let into a room, nothing is said of a server and none is known.
LEMMA NoGameOutside ==
    ASSUME ClientInv, Heard, GameKnown, room_id = 0, AnsweredAt = {}
    PROVE  ~Linked /\ InfoAt = {}
  <1>1. NewsAt = {}
    BY DEF Heard
  <1> QED
    BY <1>1 DEF GameKnown, NewsAt, InfoAt, Marks, News

LEMMA GameAdmitted ==
    ASSUME LobbyInv, ClientInv, Heard, GameKnown, LobbyStep, out'[me] \in Seq(FromLobby),
           NEW r \in Rooms, Admits(r)
    PROVE  GameKnown'
  <1>1. ~Linked /\ InfoAt = {} /\ MyRooms' = {r} /\ KeepsGame(r)
    BY NoGameOutside DEF Admits
  <1>2. PICK x, intros : /\ Introduced(r, intros) /\ x = out'[me]
                         /\ x = IF rooms[r].game_start
                                THEN Append(<<Message("ResultSuccess")>> \o intros, ServerInfo(rooms[r].server))
                                ELSE <<Message("ResultSuccess")>> \o intros
    BY DEF Admits
  <1>3. /\ rooms[r].game_start =>
             \E k : Marks(x, {"ServerInfo"}) = {k} /\ x[k] = ServerInfo(rooms[r].server)
        /\ ~rooms[r].game_start => Marks(x, {"ServerInfo"}) = {}
    BY <1>2, Welcomed
  <1>4. CASE rooms[r].game_start
    <2>1. PICK k : Marks(x, {"ServerInfo"}) = {k} /\ x[k] = ServerInfo(rooms[r].server)
      BY <1>3, <1>4
    <2>2. rooms'[r].game_start /\ rooms'[r].server = rooms[r].server
      BY <1>1, <1>4 DEF KeepsGame
    <2> QED
      BY <1>1, <1>2, <2>1, <2>2, GameTold
  <1>5. CASE ~rooms[r].game_start
    <2>1. Marks(out'[me], {"ServerInfo"}) = {}
      BY <1>2, <1>3, <1>5
    <2>2. inbox' = inbox \o out'[me] /\ UNCHANGED <<link, in_game>>
      BY DEF LobbyStep, Deliver, ClientWaits
    <2>3. InfoAt' = {}
      BY <1>1, <2>1, <2>2, InfoHears
    <2>4. ~Linked'
      BY <1>1, <2>2 DEF Linked
    <2> QED
      BY <2>3, <2>4 DEF GameKnown
  <1> QED
    BY <1>4, <1>5

LEMMA GameStarted ==
    ASSUME LobbyInv, ClientInv, Balanced, GameKnown, LobbyStep, out'[me] \in Seq(FromLobby),
           MyRooms' = MyRooms, Starting
    PROVE  GameKnown'
  <1>0. PICK r \in MyRooms : TRUE
    BY DEF Starting
  <1>1. MyRooms = {r}
    BY <1>0, InOneRoom DEF OneRoom
  <1>2. ~rooms[r].game_start /\ rooms'[r].game_start /\ out'[me] = <<ServerInfo(rooms'[r].server)>>
    BY <1>1 DEF Starting
  <1>3. ~Linked /\ InfoAt = {}
    BY <1>1, <1>2 DEF GameKnown
  <1>4. Marks(out'[me], {"ServerInfo"}) = {1} /\ out'[me][1] = ServerInfo(rooms'[r].server)
    <2>1. DOMAIN out'[me] = {1} /\ out'[me][1] = ServerInfo(rooms'[r].server)
      BY <1>2
    <2> QED
      BY <2>1 DEF Marks, ServerInfo
  <1> QED
    BY <1>1, <1>2, <1>3, <1>4, GameTold

LEMMA GameLobby ==
    ASSUME BalanceInv, PlacedInv, Orderly, Heard, GameKnown,
           LobbyGreetsMe \/ LobbyServesMe \/ TheirSteps
    PROVE  GameKnown'
  <1>1. LobbyInv /\ ClientInv /\ Balanced
    BY DEF BalanceInv, ReachInv, TypeInv, AgreeInv
  <1>2. LobbyStep /\ out'[me] \in Seq(FromLobby)
    BY LobbyNews
  <1>3. CASE MyRooms' = MyRooms /\ Passes
    <2>1. Marks(out'[me], {"ServerInfo"}) = {} /\ \A r \in MyRooms' : r \in MyRooms /\ KeepsGame(r)
      BY <1>3, FewerMarks DEF Passes
    <2> QED
      BY <1>1, <1>2, <2>1, GameHears
  <1>4. CASE MyRooms' = MyRooms /\ Starting
    BY <1>1, <1>2, <1>4, GameStarted
  <1>5. CASE MyRooms' = MyRooms /\ \E h \in {"ClientAbout", "DiscClientAbout"}, i \in Ids : Tells(h, i)
    <2>1. PICK h \in {"ClientAbout", "DiscClientAbout"}, i \in Ids : Tells(h, i)
      BY <1>5
    <2>2. Marks(out'[me], {"ServerInfo"}) = {} /\ \A r \in MyRooms' : r \in MyRooms /\ KeepsGame(r)
      BY <1>5, <2>1, TellsNoServer DEF Tells
    <2> QED
      BY <1>1, <1>2, <2>2, GameHears
  <1>6. CASE Outside
    <2>1. Marks(out'[me], {"ServerInfo"}) = {} /\ \A r \in MyRooms' : r \in MyRooms /\ KeepsGame(r)
      BY <1>6, FewerMarks DEF Outside
    <2> QED
      BY <1>1, <1>2, <2>1, GameHears
  <1>7. CASE \E r \in Rooms : Admits(r)
    BY <1>1, <1>2, <1>7, GameAdmitted
  <1> QED
    BY <1>3, <1>4, <1>5, <1>6, <1>7, LobbyNews

LEMMA GameInit ==
    ASSUME Init
    PROVE  GameInv
  <1>1. inbox = <<>> /\ link = "free" /\ in_game = FALSE
    BY DEF Init, Me!ClientInit
  <1>2. InfoAt = {} /\ ~Linked
    BY <1>1 DEF InfoAt, Marks, Linked
  <1> QED
    BY <1>2 DEF GameInv, GameKnown

LEMMA GameStep ==
    ASSUME BalanceInv, PlacedInv, NewsInv, GameInv, [Next]_vars
    PROVE  GameInv'
  <1> SUFFICES ASSUME Orderly', ~left_early' PROVE GameKnown'
    BY DEF GameInv
  <1>1. LobbyInv /\ TheirsInv /\ ClientInv /\ ArrivedInv /\ AgreeInv
    BY DEF BalanceInv, ReachInv, TypeInv
  <1>2. CASE Me!ClientNext /\ UNCHANGED <<lobbyVars, agentSide, theirSide>>
    <2>1. UNCHANGED rooms /\ MyRooms' = MyRooms
      BY <1>1, <1>2, LobbyUnchanged DEF lobbyVars
    <2> QED
      BY <1>1, <1>2, <2>1, GameClient
  <1>3. CASE LobbyGreetsMe \/ LobbyServesMe \/ TheirSteps
    <2>1. LobbyStep
      BY <1>1, <1>3, TheirEffect DEF LobbyGreetsMe, LobbyServesMe, Elsewhere
    <2>4. Orderly /\ UNCHANGED left_early
      BY <1>1, <2>1, WaitsOn
    <2>2. Orderly /\ ~left_early
      BY <2>4
    <2>3. Heard /\ GameKnown
      BY <2>2 DEF NewsInv, GameInv
    <2> QED
      BY <1>3, <2>2, <2>3, GameLobby
  <1>4. CASE LobbyLosesMe
    <2>1. LobbyStep /\ Done
      BY <1>1, <1>4, LosesMe DEF Done
    <2>2. Orderly
      BY <1>1, <2>1, WaitsOn
    <2> QED
      BY <2>1, <2>2 DEF Orderly
  <1>5. CASE Still
    <2>1. /\ Orderly /\ ~left_early
          /\ UNCHANGED <<link, in_game, room_id, server_peer, server, inbox, rooms>>
      BY <1>1, <1>5, WaitsOn DEF Still, clientSide
    <2>2. Linked' = Linked /\ InfoAt' = InfoAt /\ MyRooms' = MyRooms
      BY <2>1 DEF Linked, InfoAt, Marks, MyRooms, Rooms, Members
    <2> QED
      BY <2>1, <2>2 DEF GameInv, GameKnown
  <1> QED
    BY <1>1, <1>2, <1>3, <1>4, <1>5, NextCases

-----------------------------------------------------------------------------
(***************************************************************************)
(* Who is in a running room plays, or is on the way to it.                 *)
(***************************************************************************)
Told == InfoAt # {}
Attending == Me!Here.at \in Events
GivingUp == \E w \in Waiting : stack[w].at = "srv_leave"
InfoComing == Marks(fromGame, {"GameInfo"}) # {}

\* From the lobby's ServerInfo to the server's GameInfo, or back out of the
\* room: something is always under way until the client is in the game.
OnTheWay == Told \/ Attending \/ GivingUp \/ toGame # <<>> \/ InfoComing \/ in_game
Playing == \A r \in MyRooms : rooms[r].game_start => OnTheWay

\* Nothing of it was thrown away or failed.
Unspoilt == ~left_early /\ ~gone /\ {"ServerInfo", "GameInfo"} \cap missed = {}
PlayInv == Orderly /\ Unspoilt => Playing

LEMMA ToldStays ==
    ASSUME ClientInv, Takes, inbox' = inbox \/ Head(inbox).header # "ServerInfo", Told
    PROVE  Told'
  <1>1. PICK n : n \in InfoAt
    BY DEF Told
  <1>2. CASE inbox' = inbox
    BY <1>1, <1>2 DEF Told, InfoAt, Marks
  <1>3. CASE inbox # <<>> /\ inbox' = Tail(inbox) /\ Head(inbox).header # "ServerInfo"
    <2>1. /\ Head(inbox) = inbox[1]
          /\ \A k \in DOMAIN inbox : k # 1 => k - 1 \in DOMAIN Tail(inbox) /\ Tail(inbox)[k - 1] = inbox[k]
      BY <1>3, TailFacts DEF ClientInv, Valued
    <2>2. n \in DOMAIN inbox /\ inbox[n].header = "ServerInfo"
      BY <1>1 DEF InfoAt, Marks
    <2>3. n - 1 \in InfoAt'
      BY <1>3, <2>1, <2>2 DEF InfoAt, Marks
    <2> QED
      BY <2>3 DEF Told
  <1> QED
    BY <1>2, <1>3 DEF Takes

LEMMA InfoStays ==
    ASSUME ClientInv, InfoComing,
           \/ fromGame' = fromGame
           \/ fromGame # <<>> /\ fromGame' = Tail(fromGame) /\ Head(fromGame).header # "GameInfo"
    PROVE  InfoComing'
  <1>1. PICK n : n \in Marks(fromGame, {"GameInfo"})
    BY DEF InfoComing
  <1>2. CASE fromGame' = fromGame
    BY <1>1, <1>2 DEF InfoComing, Marks
  <1>3. CASE fromGame # <<>> /\ fromGame' = Tail(fromGame) /\ Head(fromGame).header # "GameInfo"
    <2>1. /\ Head(fromGame) = fromGame[1]
          /\ \A k \in DOMAIN fromGame :
               k # 1 => k - 1 \in DOMAIN Tail(fromGame) /\ Tail(fromGame)[k - 1] = fromGame[k]
      BY <1>3, TailFacts DEF ClientInv, Valued
    <2>2. n \in DOMAIN fromGame /\ fromGame[n].header = "GameInfo"
      BY <1>1 DEF Marks
    <2>3. n - 1 \in Marks(fromGame, {"GameInfo"})'
      BY <1>3, <2>1, <2>2 DEF Marks
    <2> QED
      BY <2>3 DEF InfoComing
  <1> QED
    BY <1>2, <1>3

\* An answer taken: the waits for a way out of the room are over with it.
LEMMA PlayAnswered ==
    ASSUME ClientInv, AgreeInv, PlayInv, UNCHANGED rooms, MyRooms' = MyRooms,
           Me!LoopAnswered, Orderly', Unspoilt'
    PROVE  Playing'
  <1>1. Orderly /\ Takes
    BY AnswerTaken
  <1>2. CASE Me!Here.at \in Leaving
    <2>1. AnswerComes
      BY <1>2, AnswerTaken DEF Leaving
    <2>2. MyRooms = {}
      BY <1>2, <2>1 DEF AnswerComes, Settles, Leaving
    <2> QED
      BY <2>2 DEF Playing
  <1>3. CASE Me!Here.at \notin Leaving
    <2>1. UNCHANGED <<missed, in_game, fromGame, toGame, left_early, gone>>
      BY <1>3 DEF Me!LoopAnswered, Leaving
    <2>2. Unspoilt /\ Playing
      BY <1>1, <2>1 DEF Unspoilt, PlayInv
    <2>3. ~Attending
      BY DEF Me!LoopAnswered, Me!AnswerLoop, Attending, Events
    <2>4. ~GivingUp
      <3>1. Waiting = {} \/ (Waiting = {Len(stack)} /\ stack[Len(stack)] = Me!Here)
        BY AnswerTaken DEF AnswerComes
      <3> QED
        BY <1>3, <3>1 DEF GivingUp, Leaving
    <2>5. Told => Told'
      <3>1. Head(inbox).header # "ServerInfo"
        BY DEF Me!LoopAnswered, Me!Wanted, Me!Results
      <3> QED
        BY <1>1, <3>1, ToldStays
    <2>6. InfoComing => InfoComing'
      BY <2>1, InfoStays
    <2>7. OnTheWay => OnTheWay'
      BY <2>1, <2>3, <2>4, <2>5, <2>6 DEF OnTheWay
    <2> QED
      BY <2>2, <2>7 DEF Playing
  <1> QED
    BY <1>2, <1>3

\* A packet handled: ServerInfo begins a connection, GameInfo ends the way.
LEMMA PlayReads ==
    ASSUME ClientInv, ArrivedInv, AgreeInv, GameInv, PlayInv, UNCHANGED rooms, MyRooms' = MyRooms,
           Me!ClientNext, Me!MainReads \/ Me!LoopReads, Orderly', Unspoilt'
    PROVE  Playing'
  <1>1. UNCHANGED sealed
    BY ClientTypes
  <1>2. Orderly /\ Waiting' = Waiting /\ \A w \in Waiting : stack'[w] = stack[w]
    BY <1>1, ReadsPass
  <1>3. /\ Takes /\ UNCHANGED <<toGame, left_early, gone>> /\ missed \subseteq missed'
        /\ Me!Here.at \in Listening
    BY ReadsGame
  <1>4. Unspoilt /\ Playing /\ GameKnown
    BY <1>2, <1>3 DEF Unspoilt, PlayInv, GameInv
  <1>5. ~Attending
    BY <1>3 DEF Attending, Listening, Events, Me!AnswerLoop
  <1>6. GivingUp => GivingUp'
    BY <1>2 DEF GivingUp
  <1>7. CASE /\ inbox # <<>> /\ inbox' = Tail(inbox)
             /\ \E packet \in FromLobby : packet = Head(inbox) /\ Connects(packet)
    <2>1. stack' = Append(stack, Me!Frame("srv_connect", 0))
      BY <1>7 DEF Connects
    <2>2. Me!Here'.at = "srv_connect"
      <3>1. Me!Here' = Me!Frame("srv_connect", 0)
        BY <2>1, Top, AppendFacts DEF Me!Here, ClientInv, StackOK
      <3> QED
        BY <3>1 DEF Me!Frame
    <2>3. OnTheWay'
      BY <2>2 DEF OnTheWay, Attending, Events
    <2> QED
      BY <2>3 DEF Playing
  <1>8. CASE /\ inbox # <<>> /\ inbox' = Tail(inbox)
             /\ \E packet \in FromLobby : packet = Head(inbox) /\ Ignores(packet)
    <2>1. Head(inbox).header = "ServerInfo" /\ Linked
      BY <1>8 DEF Ignores, Linked
    <2>2. InfoAt # {}
      BY <1>8, <2>1, TailFacts DEF InfoAt, Marks, ClientInv, Valued
    <2> QED
      BY <1>4, <2>1, <2>2 DEF GameKnown
  <1>9. CASE in_game'
    BY <1>9 DEF OnTheWay, Playing
  <1>10. CASE /\ UNCHANGED <<stack, in_game, server_peer, link, server>>
              /\ \/ inbox' = inbox
                 \/ Head(inbox).header # "ServerInfo"
                 \/ "ServerInfo" \in missed'
              /\ \/ fromGame' = fromGame
                 \/ /\ fromGame # <<>> /\ fromGame' = Tail(fromGame)
                    /\ Head(fromGame).header # "GameInfo" \/ "GameInfo" \in missed'
    <2>1. "ServerInfo" \notin missed' /\ "GameInfo" \notin missed'
      BY DEF Unspoilt
    <2>2. Told => Told'
      BY <1>3, <1>10, <2>1, ToldStays
    <2>3. InfoComing => InfoComing'
      BY <1>10, <2>1, InfoStays
    <2>4. OnTheWay => OnTheWay'
      BY <1>3, <1>5, <1>6, <1>10, <2>2, <2>3 DEF OnTheWay
    <2> QED
      BY <1>4, <2>4 DEF Playing
  <1> QED
    BY <1>7, <1>8, <1>9, <1>10, ReadsGame

\* Nothing is handled: what is under way goes on, or gives way to the next.
LEMMA PlayOthers ==
    ASSUME LobbyInv, ClientInv, ArrivedInv, AgreeInv, NewsInv, PlayInv, UNCHANGED rooms,
           MyRooms' = MyRooms, Me!ClientNext, ~(Me!MainReads \/ Me!LoopReads \/ Me!LoopAnswered),
           Orderly', Unspoilt'
    PROVE  Playing'
  <1>1. Orderly /\ Balanced
    BY ClientPasses
  <1>2. UNCHANGED <<in_game, left_early>> /\ missed \subseteq missed' /\ (gone => gone')
    BY OthersGame
  <1>3. Playing
    BY <1>1, <1>2 DEF Unspoilt, PlayInv
  <1>4. CASE Me!LoopGivesUp
    <2>1. /\ Me!Here.at \in Me!AnswerLoop /\ UNCHANGED <<inbox, fromGame, toGame>>
          /\ gave_up' = (gave_up \/ Me!Unanswered)
      BY <1>4 DEF Me!LoopGivesUp
    <2>2. AskedAt = {} /\ AnsweredAt = {}
      BY <2>1, MarkedHeaders DEF Orderly
    <2>3. ~GivingUp
      <3>1. SUFFICES ASSUME NEW w \in Waiting, stack[w].at = "srv_leave" PROVE FALSE
        BY DEF GivingUp
      <3>2. Nested
        BY <3>1 DEF Nested, Waiting, ServerWaits
      <3>3. lobby_link /\ ~Me!Deaf
        BY <3>2 DEF ArrivedInv
      <3> QED
        BY <1>1, <2>2, <3>1, <3>3, NothingAsked
    <2>4. ~Attending
      BY <2>1 DEF Attending, Events, Me!AnswerLoop
    <2>5. Told' = Told /\ InfoComing' = InfoComing
      BY <2>1 DEF Told, InfoAt, InfoComing
    <2>6. OnTheWay => OnTheWay'
      BY <1>2, <2>1, <2>3, <2>4, <2>5 DEF OnTheWay
    <2> QED
      BY <1>3, <2>6 DEF Playing
  <1>5. CASE Me!GreetConnected \/ Me!GreetKey \/ Me!GreetId
    <2>1. Me!Here.at \in Early /\ Me!Here.at \in Bottom
      BY <1>5 DEF Me!GreetConnected, Me!GreetKey, Me!GreetId, Me!At, Early, Bottom, Alone
    <2>2. Waiting = {} /\ stack[1].at \in Early
      BY <2>1, DoneFacts
    <2>3. AtRest /\ room_id = 0
      BY <1>1, <2>2, NobodyWaits DEF NewsInv
    <2>4. MyRooms = {}
      BY <2>3 DEF AtRest, Agree
    <2> QED
      BY <2>4 DEF Playing
  <1>6. CASE Me!ServerConnected
    <2>1. Me!Here.at \in Events /\ stack' = Replaced(stack, Me!Frame("srv_key", 0))
      BY <1>6, Stacks DEF Me!ServerConnected, Me!At, Events
    <2>2. Me!Frame("srv_key", 0) \in Frames /\ Me!Frame("srv_key", 0).at = "srv_key"
      BY DEF Me!Frame, Frames, Waits, Typed
    <2>3. Me!Here' = Me!Frame("srv_key", 0)
      BY <2>1, <2>2, Swapped DEF ServerWaits, Events
    <2>4. OnTheWay'
      BY <2>2, <2>3 DEF OnTheWay, Attending, Events
    <2> QED
      BY <2>4 DEF Playing
  <1>7. CASE Me!ServerRefused
    <2>1. Me!Here.at \in Events /\ stack' = Replaced(stack, Me!Frame("srv_leave", 0))
      BY <1>7, Stacks DEF Me!ServerRefused, Me!At, Events
    <2>2. Me!Frame("srv_leave", 0) \in Frames /\ Me!Frame("srv_leave", 0).at = "srv_leave"
      BY DEF Me!Frame, Frames, Waits, Typed
    <2>3. Waiting' = Waiting \cup {Len(stack)} /\ stack'[Len(stack)] = Me!Frame("srv_leave", 0)
      BY <2>1, <2>2, Swapped DEF ServerWaits, Events, Owing, Leaving
    <2>4. OnTheWay'
      BY <2>2, <2>3 DEF OnTheWay, GivingUp
    <2> QED
      BY <2>4 DEF Playing
  <1>8. CASE Me!ServerKey
    <2>1. link = "up"
      BY <1>8 DEF Me!ServerKey, ClientInv, LinkOK
    <2>2. toGame' = Append(toGame, Me!ToGameServer)
      BY <1>8, <2>1 DEF Me!ServerKey
    <2>3. toGame' # <<>>
      <3>1. Me!ToGameServer \in ToServer
        BY DEF Me!ToGameServer, ToServer
      <3> QED
        BY <2>2, <3>1, AppendFacts DEF ClientInv, Valued
    <2> QED
      BY <2>3 DEF OnTheWay, Playing
  <1>9. CASE Me!ServerGone
    BY <1>9 DEF Me!ServerGone, Unspoilt
  <1>10. CASE Me!ServerGreets
    <2>1. fromGame' = Append(fromGame, [header |-> "GameInfo"])
      BY <1>10 DEF Me!ServerGreets
    <2>2. [header |-> "GameInfo"] \in FromServer
      BY DEF FromServer
    <2>3. Len(fromGame) + 1 \in DOMAIN fromGame' /\ fromGame'[Len(fromGame) + 1].header = "GameInfo"
      BY <2>1, <2>2, AppendFacts DEF ClientInv, Valued
    <2>4. OnTheWay'
      BY <2>3 DEF OnTheWay, InfoComing, Marks
    <2> QED
      BY <2>4 DEF Playing
  <1>11. CASE Me!Types \/ Me!Terminated
    <2>1. Me!Here.at = "main" /\ UNCHANGED <<inbox, fromGame, toGame>>
      BY <1>11 DEF Me!Types, Me!TypeRoom, Me!TypeRooms, Me!TypeConnect, Me!TypeDisconnect, Me!TypeExit,
         Me!TypeCreate, Me!Terminated, Me!Line, Me!At
    <2>2. ~Attending /\ ~GivingUp
      BY <2>1, DoneFacts DEF Attending, Events, GivingUp, Bottom
    <2>3. Told' = Told /\ InfoComing' = InfoComing
      BY <2>1 DEF Told, InfoAt, InfoComing
    <2>4. OnTheWay => OnTheWay'
      BY <1>2, <2>1, <2>2, <2>3 DEF OnTheWay
    <2> QED
      BY <1>3, <2>4 DEF Playing
  <1> QED
    BY <1>4, <1>5, <1>6, <1>7, <1>8, <1>9, <1>10, <1>11 DEF Me!ClientNext

\* What the lobby sends adds to what the client has been told.
LEMMA ToldMore ==
    ASSUME ClientInv, inbox' = inbox \o out'[me], out'[me] \in Seq(FromLobby),
           Told \/ Marks(out'[me], {"ServerInfo"}) # {}
    PROVE  Told'
  <1>1. PICK s \in Seq(FromLobby) : s = inbox
    BY DEF ClientInv, Valued
  <1>2. PICK x \in Seq(FromLobby) : x = out'[me]
    OBVIOUS
  <1>3. PICK u : u = s \o x
    OBVIOUS
  <1>4. /\ DOMAIN s = 1 .. Len(s) /\ Len(s) \in Nat
        /\ DOMAIN x = 1 .. Len(x) /\ Len(x) \in Nat
        /\ DOMAIN u = 1 .. Len(s) + Len(x)
        /\ \A n \in DOMAIN s : u[n] = s[n]
        /\ \A n \in DOMAIN x : u[Len(s) + n] = x[n]
    BY <1>3, ConcatParts
  <1>5. \E n \in DOMAIN u : u[n].header = "ServerInfo"
    <2>1. CASE Told
      <3>1. PICK n \in DOMAIN s : s[n].header = "ServerInfo"
        BY <1>1, <2>1 DEF Told, InfoAt, Marks
      <3>2. n \in DOMAIN u /\ u[n] = s[n]
        BY <1>4
      <3> QED
        BY <3>1, <3>2
    <2>2. CASE Marks(out'[me], {"ServerInfo"}) # {}
      <3>1. PICK n \in DOMAIN x : x[n].header = "ServerInfo"
        BY <1>2, <2>2 DEF Marks
      <3>2. Len(s) + n \in DOMAIN u /\ u[Len(s) + n] = x[n]
        BY <1>4
      <3> QED
        BY <3>1, <3>2
    <2> QED
      BY <2>1, <2>2
  <1>6. inbox' = u
    BY <1>1, <1>2, <1>3
  <1> QED
    BY <1>5, <1>6 DEF Told, InfoAt, Marks

LEMMA WayGoesOn ==
    ASSUME ClientInv, LobbyStep, out'[me] \in Seq(FromLobby)
    PROVE  (OnTheWay => OnTheWay') /\ (Marks(out'[me], {"ServerInfo"}) # {} => OnTheWay')
  <1>1. /\ UNCHANGED <<stack, in_game, fromGame, toGame>> /\ Me!Here' = Me!Here
        /\ Waiting' = Waiting
    BY WaitsOn
  <1>2. inbox' = inbox \o out'[me]
    BY DEF LobbyStep, Deliver
  <1>3. Told \/ Marks(out'[me], {"ServerInfo"}) # {} => Told'
    BY <1>2, ToldMore
  <1>4. Attending' = Attending /\ GivingUp' = GivingUp /\ InfoComing' = InfoComing
    BY <1>1 DEF Attending, GivingUp, InfoComing
  <1> QED
    BY <1>1, <1>3, <1>4 DEF OnTheWay

LEMMA PlayLobby ==
    ASSUME BalanceInv, PlacedInv, Orderly, Playing, LobbyGreetsMe \/ LobbyServesMe \/ TheirSteps
    PROVE  Playing'
  <1>1. LobbyInv /\ ClientInv
    BY DEF BalanceInv, ReachInv, TypeInv
  <1>2. LobbyStep /\ out'[me] \in Seq(FromLobby)
    BY LobbyNews
  <1>3. (OnTheWay => OnTheWay') /\ (Marks(out'[me], {"ServerInfo"}) # {} => OnTheWay')
    BY <1>1, <1>2, WayGoesOn
  <1>4. ASSUME MyRooms' = MyRooms, \A r \in MyRooms : KeepsGame(r) PROVE Playing'
    BY <1>3, <1>4 DEF KeepsGame, Playing
  <1>5. CASE MyRooms' = MyRooms /\ Passes
    BY <1>4, <1>5 DEF Passes
  <1>6. CASE MyRooms' = MyRooms /\ Starting
    <2>0. PICK r \in MyRooms : out'[me] = <<ServerInfo(rooms'[r].server)>>
      BY <1>6 DEF Starting
    <2>1. DOMAIN out'[me] = {1} /\ out'[me][1] = ServerInfo(rooms'[r].server)
      BY <2>0
    <2>2. 1 \in Marks(out'[me], {"ServerInfo"})
      BY <2>1 DEF Marks, ServerInfo
    <2> QED
      BY <1>3, <2>2 DEF Playing
  <1>7. CASE MyRooms' = MyRooms /\ \E h \in {"ClientAbout", "DiscClientAbout"}, i \in Ids : Tells(h, i)
    BY <1>4, <1>7 DEF Tells
  <1>8. CASE Outside
    BY <1>8 DEF Outside, Playing
  <1>9. CASE \E r \in Rooms : Admits(r)
    <2>1. PICK r \in Rooms : Admits(r)
      BY <1>9
    <2>2. MyRooms' = {r} /\ rooms'[r].game_start = rooms[r].game_start
      BY <2>1 DEF Admits, KeepsGame
    <2>3. PICK x, intros : /\ Introduced(r, intros) /\ x = out'[me]
                           /\ x = IF rooms[r].game_start
                                  THEN Append(<<Message("ResultSuccess")>> \o intros, ServerInfo(rooms[r].server))
                                  ELSE <<Message("ResultSuccess")>> \o intros
      BY <2>1 DEF Admits
    <2>4. /\ rooms[r].game_start =>
               \E k : Marks(x, {"ServerInfo"}) = {k} /\ x[k] = ServerInfo(rooms[r].server)
          /\ ~rooms[r].game_start => Marks(x, {"ServerInfo"}) = {}
      BY <1>1, <2>3, Welcomed
    <2>5. rooms[r].game_start => OnTheWay'
      BY <1>3, <2>3, <2>4
    <2> QED
      BY <2>2, <2>5 DEF Playing
  <1> QED
    BY <1>5, <1>6, <1>7, <1>8, <1>9, LobbyNews

LEMMA PlayStep ==
    ASSUME BalanceInv, PlacedInv, NewsInv, GameInv, PlayInv, [Next]_vars
    PROVE  PlayInv'
  <1> SUFFICES ASSUME Orderly', Unspoilt' PROVE Playing'
    BY DEF PlayInv
  <1>1. LobbyInv /\ TheirsInv /\ ClientInv /\ ArrivedInv /\ AgreeInv
    BY DEF BalanceInv, ReachInv, TypeInv
  <1>2. CASE Me!ClientNext /\ UNCHANGED <<lobbyVars, agentSide, theirSide>>
    <2>1. UNCHANGED rooms /\ MyRooms' = MyRooms
      BY <1>1, <1>2, LobbyUnchanged DEF lobbyVars
    <2>2. CASE Me!LoopAnswered
      BY <1>1, <2>1, <2>2, PlayAnswered
    <2>3. CASE Me!MainReads \/ Me!LoopReads
      BY <1>1, <1>2, <2>1, <2>3, PlayReads
    <2> QED
      BY <1>1, <1>2, <2>1, <2>2, <2>3, PlayOthers
  <1>3. ASSUME LobbyStep \/ Still PROVE Orderly /\ Playing
    <2>1. Orderly /\ UNCHANGED <<left_early, gone, missed>>
      BY <1>1, <1>3, WaitsOn
    <2>2. Unspoilt
      BY <2>1 DEF Unspoilt
    <2> QED
      BY <2>1, <2>2 DEF PlayInv
  <1>4. CASE LobbyGreetsMe \/ LobbyServesMe \/ TheirSteps
    <2>1. LobbyStep
      BY <1>1, <1>4, TheirEffect DEF LobbyGreetsMe, LobbyServesMe, Elsewhere
    <2> QED
      BY <1>3, <1>4, <2>1, PlayLobby
  <1>5. CASE LobbyLosesMe
    <2>1. LobbyStep /\ Done
      BY <1>1, <1>5, LosesMe DEF Done
    <2> QED
      BY <1>3, <2>1 DEF Orderly
  <1>6. CASE Still
    <2>1. /\ Playing /\ Waiting' = Waiting /\ Me!Here' = Me!Here
          /\ UNCHANGED <<stack, in_game, inbox, fromGame, toGame, rooms>>
      BY <1>1, <1>3, <1>6, WaitsOn DEF Still, clientSide
    <2>2. MyRooms' = MyRooms
      BY <2>1 DEF MyRooms, Rooms, Members
    <2>3. OnTheWay' = OnTheWay
      BY <2>1 DEF OnTheWay, Told, InfoAt, Attending, GivingUp, InfoComing
    <2> QED
      BY <2>1, <2>2, <2>3 DEF Playing
  <1> QED
    BY <1>1, <1>2, <1>4, <1>5, <1>6, NextCases

LEMMA PlayInit ==
    ASSUME Init
    PROVE  PlayInv
  <1>1. rooms = <<>>
    BY DEF Init, LobbyInit
  <1>2. MyRooms = {}
    BY <1>1 DEF MyRooms, Rooms
  <1> QED
    BY <1>2 DEF PlayInv, Playing

-----------------------------------------------------------------------------
(***************************************************************************)
(* The list of /other and what is still to come of it.                     *)
(***************************************************************************)
Words == {"ClientAbout", "DiscClientAbout"}
Said(s, h, i) == {n \in DOMAIN s : s[n].header = h /\ s[n].id = i}

\* Once all of s has been read, the list R holds i, or does not.
Lists(R, s, i) ==
    \/ i \in R /\ Said(s, "DiscClientAbout", i) = {}
    \/ \E n \in Said(s, "ClientAbout", i) : \A m \in Said(s, "DiscClientAbout", i) : m < n
Omits(R, s, i) ==
    /\ i \in R => Said(s, "DiscClientAbout", i) # {}
    /\ \A n \in Said(s, "ClientAbout", i) : \E m \in Said(s, "DiscClientAbout", i) : n < m

\* The list when a packet of the lobby has been handled.
Noted(R, packet) ==
    IF packet.header = "ClientAbout" THEN R \cup {packet.id}
    ELSE IF packet.header = "DiscClientAbout" THEN R \ {packet.id} ELSE R

LEMMA SaidTail ==
    ASSUME NEW S, NEW s \in Seq(S), s # <<>>, NEW h, NEW i
    PROVE  /\ Said(s, h, i) \subseteq Nat \ {0} /\ Said(Tail(s), h, i) \subseteq Nat \ {0}
           /\ \A n \in Said(s, h, i) : n # 1 => n - 1 \in Said(Tail(s), h, i)
           /\ \A n \in Said(Tail(s), h, i) : n + 1 \in Said(s, h, i)
           /\ 1 \in Said(s, h, i) <=> Head(s).header = h /\ Head(s).id = i
  <1> DEFINE t == Tail(s)
  <1>1. /\ Head(s) = s[1] /\ 1 \in DOMAIN s /\ DOMAIN s \subseteq Nat \ {0}
        /\ \A n \in DOMAIN t : n + 1 \in DOMAIN s /\ t[n] = s[n + 1]
        /\ \A n \in DOMAIN s : n # 1 => n - 1 \in DOMAIN t /\ t[n - 1] = s[n]
        /\ DOMAIN t \subseteq Nat \ {0}
    BY TailFacts
  <1> HIDE DEF t
  <1>2. /\ Said(s, h, i) \subseteq Nat \ {0} /\ Said(t, h, i) \subseteq Nat \ {0}
        /\ \A n \in Said(s, h, i) : n # 1 => n - 1 \in Said(t, h, i)
        /\ \A n \in Said(t, h, i) : n + 1 \in Said(s, h, i)
        /\ 1 \in Said(s, h, i) <=> s[1].header = h /\ s[1].id = i
    BY <1>1 DEF Said
  <1> QED
    BY <1>1, <1>2 DEF t

\* Reading a packet leaves what the list comes to.
LEMMA ListsTail ==
    ASSUME NEW S, NEW s \in Seq(S), s # <<>>, NEW R, NEW i, Lists(R, s, i)
    PROVE  Lists(Noted(R, Head(s)), Tail(s), i)
  <1> DEFINE a == Said(s, "ClientAbout", i)
             d == Said(s, "DiscClientAbout", i)
             b == Said(Tail(s), "ClientAbout", i)
             e == Said(Tail(s), "DiscClientAbout", i)
             p == Head(s)
  <1>1. /\ a \subseteq Nat \ {0} /\ b \subseteq Nat \ {0}
        /\ \A n \in a : n # 1 => n - 1 \in b
        /\ 1 \in a <=> p.header = "ClientAbout" /\ p.id = i
    BY SaidTail
  <1>2. /\ d \subseteq Nat \ {0} /\ e \subseteq Nat \ {0}
        /\ \A n \in e : n + 1 \in d
        /\ 1 \in d <=> p.header = "DiscClientAbout" /\ p.id = i
    BY SaidTail
  <1>3. (i \in R /\ d = {}) \/ \E n \in a : \A m \in d : m < n
    BY DEF Lists
  <1> HIDE DEF a, b, d, e, p
  <1>4. (i \in Noted(R, p) /\ e = {}) \/ \E n \in b : \A m \in e : m < n
    <2>1. CASE i \in R /\ d = {}
      <3>1. e = {} /\ ~(p.header = "DiscClientAbout" /\ p.id = i)
        BY <1>2, <2>1
      <3> QED
        BY <2>1, <3>1 DEF Noted
    <2>2. CASE \E n \in a : \A m \in d : m < n
      <3>1. PICK n \in a : \A m \in d : m < n
        BY <2>2
      <3>2. CASE n = 1
        <4>1. d = {}
          BY <1>2, <3>1, <3>2
        <4>2. e = {}
          BY <1>2, <4>1
        <4>3. i \in Noted(R, p)
          BY <1>1, <3>1, <3>2 DEF Noted
        <4> QED
          BY <4>2, <4>3
      <3>3. CASE n # 1
        <4>1. n - 1 \in b /\ n \in Nat
          BY <1>1, <3>1, <3>3
        <4>2. \A m \in e : m < n - 1
          BY <1>2, <3>1, <4>1
        <4> QED
          BY <4>1, <4>2
      <3> QED
        BY <3>2, <3>3
    <2> QED
      BY <1>3, <2>1, <2>2
  <1> QED
    BY <1>4 DEF Lists, b, e, p

LEMMA OmitsTail ==
    ASSUME NEW S, NEW s \in Seq(S), s # <<>>, NEW R, NEW i, Omits(R, s, i)
    PROVE  Omits(Noted(R, Head(s)), Tail(s), i)
  <1> DEFINE a == Said(s, "ClientAbout", i)
             d == Said(s, "DiscClientAbout", i)
             b == Said(Tail(s), "ClientAbout", i)
             e == Said(Tail(s), "DiscClientAbout", i)
             p == Head(s)
  <1>1. /\ a \subseteq Nat \ {0} /\ b \subseteq Nat \ {0}
        /\ \A n \in b : n + 1 \in a
        /\ 1 \in a <=> p.header = "ClientAbout" /\ p.id = i
    BY SaidTail
  <1>2. /\ d \subseteq Nat \ {0} /\ e \subseteq Nat \ {0}
        /\ \A n \in d : n # 1 => n - 1 \in e
        /\ 1 \in d <=> p.header = "DiscClientAbout" /\ p.id = i
    BY SaidTail
  <1>3. (i \in R => d # {}) /\ \A n \in a : \E m \in d : n < m
    BY DEF Omits
  <1> HIDE DEF a, b, d, e, p
  <1>4. ASSUME NEW n \in b PROVE \E m \in e : n < m
    <2>1. PICK m \in d : n + 1 < m
      BY <1>1, <1>3, <1>4
    <2>2. m # 1 /\ n < m - 1
      BY <1>1, <1>2, <1>4, <2>1
    <2>3. m - 1 \in e
      BY <1>2, <2>1, <2>2
    <2> QED
      BY <2>2, <2>3
  <1>5. ASSUME i \in Noted(R, p) PROVE e # {}
    <2>1. CASE i \in R
      <3>1. PICK m \in d : TRUE
        BY <1>3, <2>1
      <3>2. m # 1
        <4>1. SUFFICES ASSUME 1 \in d PROVE FALSE
          BY <3>1
        <4>2. p.header = "DiscClientAbout" /\ p.id = i
          BY <1>2, <4>1
        <4> QED
          BY <1>5, <4>2 DEF Noted
      <3> QED
        BY <1>2, <3>1, <3>2
    <2>2. CASE i \notin R
      <3>1. 1 \in a
        BY <1>1, <1>5, <2>2 DEF Noted
      <3>2. PICK m \in d : 1 < m
        BY <1>3, <3>1
      <3>3. m # 1
        BY <1>2, <3>2
      <3> QED
        BY <1>2, <3>3
    <2> QED
      BY <2>1, <2>2
  <1> QED
    BY <1>4, <1>5 DEF Omits, b, e, p

\* What is behind s adds to it.
Adds(s, t, u, h, i) ==
    /\ Said(s, h, i) \subseteq Nat /\ \A n \in Said(s, h, i) : n <= Len(s) /\ n \in Said(u, h, i)
    /\ \A n \in Said(t, h, i) : n \in Nat /\ n > 0 /\ Len(s) + n \in Said(u, h, i)
    /\ \A n \in Said(u, h, i) : n \in Said(s, h, i) \/ n - Len(s) \in Said(t, h, i)
    /\ Len(s) \in Nat /\ Said(u, h, i) \subseteq Nat

LEMMA SaidConcat ==
    ASSUME NEW S, NEW s \in Seq(S), NEW t \in Seq(S), NEW u, u = s \o t, NEW h, NEW i
    PROVE  Adds(s, t, u, h, i)
  <1>1. /\ DOMAIN s = 1 .. Len(s) /\ Len(s) \in Nat
        /\ DOMAIN t = 1 .. Len(t) /\ Len(t) \in Nat
        /\ DOMAIN u = 1 .. Len(s) + Len(t)
        /\ \A n \in DOMAIN s : u[n] = s[n]
        /\ \A n \in DOMAIN t : u[Len(s) + n] = t[n]
        /\ \A n \in DOMAIN u :
             n \in DOMAIN s \/ (n - Len(s) \in DOMAIN t /\ u[n] = t[n - Len(s)])
    BY ConcatParts
  <1>2. ASSUME NEW n \in Said(s, h, i) PROVE n \in Nat /\ n <= Len(s) /\ n \in Said(u, h, i)
    <2>1. n \in DOMAIN s /\ s[n].header = h /\ s[n].id = i
      BY <1>2 DEF Said
    <2>2. n \in DOMAIN u /\ u[n] = s[n] /\ n \in Nat /\ n <= Len(s)
      BY <1>1, <2>1
    <2> QED
      BY <2>1, <2>2 DEF Said
  <1>3. ASSUME NEW n \in Said(t, h, i) PROVE n \in Nat /\ n > 0 /\ Len(s) + n \in Said(u, h, i)
    <2>1. n \in DOMAIN t /\ t[n].header = h /\ t[n].id = i
      BY <1>3 DEF Said
    <2>2. Len(s) + n \in DOMAIN u /\ u[Len(s) + n] = t[n] /\ n \in Nat /\ n > 0
      BY <1>1, <2>1
    <2> QED
      BY <2>1, <2>2 DEF Said
  <1>4. ASSUME NEW n \in Said(u, h, i) PROVE n \in Said(s, h, i) \/ n - Len(s) \in Said(t, h, i)
    BY <1>1, <1>4 DEF Said
  <1>5. Said(u, h, i) \subseteq Nat
    BY <1>1 DEF Said
  <1> QED
    BY <1>1, <1>2, <1>3, <1>4, <1>5 DEF Adds

\* Nothing is said of i.
LEMMA NothingAdded ==
    ASSUME NEW S, NEW s \in Seq(S), NEW t \in Seq(S), NEW R, NEW i,
           \A h \in Words : Said(t, h, i) = {}
    PROVE  /\ Lists(R, s, i) => Lists(R, s \o t, i)
           /\ Omits(R, s, i) => Omits(R, s \o t, i)
  <1>1. PICK u : u = s \o t
    OBVIOUS
  <1>2. \A h \in Words : Adds(s, t, u, h, i)
    BY <1>1, SaidConcat
  <1>3. \A h \in Words : Said(u, h, i) = Said(s, h, i)
    BY <1>2 DEF Adds
  <1> QED
    BY <1>1, <1>3 DEF Lists, Omits, Words

\* The last word about i is that it is there, or that it has gone.
LEMMA LastWord ==
    ASSUME NEW S, NEW s \in Seq(S), NEW t \in Seq(S), NEW R, NEW i
    PROVE  /\ Said(t, "ClientAbout", i) # {} /\ Said(t, "DiscClientAbout", i) = {}
                => Lists(R, s \o t, i)
           /\ Said(t, "DiscClientAbout", i) # {} /\ Said(t, "ClientAbout", i) = {}
                => Omits(R, s \o t, i)
  <1>1. PICK u : u = s \o t
    OBVIOUS
  <1>2. Adds(s, t, u, "ClientAbout", i) /\ Adds(s, t, u, "DiscClientAbout", i)
    BY <1>1, SaidConcat
  <1>3. ASSUME Said(t, "ClientAbout", i) # {}, Said(t, "DiscClientAbout", i) = {}
        PROVE  Lists(R, u, i)
    <2>1. PICK n \in Said(t, "ClientAbout", i) : TRUE
      BY <1>3
    <2>2. Len(s) + n \in Said(u, "ClientAbout", i) /\ n > 0 /\ n \in Nat /\ Len(s) \in Nat
      BY <1>2 DEF Adds
    <2>3. \A m \in Said(u, "DiscClientAbout", i) : m < Len(s) + n
      <3>1. \A m \in Said(u, "DiscClientAbout", i) : m \in Said(s, "DiscClientAbout", i)
        BY <1>2, <1>3 DEF Adds
      <3>2. \A m \in Said(s, "DiscClientAbout", i) : m \in Nat /\ m <= Len(s)
        BY <1>2 DEF Adds
      <3> QED
        BY <2>2, <3>1, <3>2
    <2> QED
      BY <2>2, <2>3 DEF Lists
  <1>4. ASSUME Said(t, "DiscClientAbout", i) # {}, Said(t, "ClientAbout", i) = {}
        PROVE  Omits(R, u, i)
    <2>1. PICK n \in Said(t, "DiscClientAbout", i) : TRUE
      BY <1>4
    <2>2. Len(s) + n \in Said(u, "DiscClientAbout", i) /\ n > 0 /\ n \in Nat /\ Len(s) \in Nat
      BY <1>2 DEF Adds
    <2>3. \A m \in Said(u, "ClientAbout", i) : m < Len(s) + n
      <3>1. \A m \in Said(u, "ClientAbout", i) : m \in Said(s, "ClientAbout", i)
        BY <1>2, <1>4 DEF Adds
      <3>2. \A m \in Said(s, "ClientAbout", i) : m \in Nat /\ m <= Len(s)
        BY <1>2 DEF Adds
      <3> QED
        BY <2>2, <3>1, <3>2
    <2> QED
      BY <2>2, <2>3 DEF Omits
  <1> QED
    BY <1>1, <1>3, <1>4

\* Of the others in my room the list comes to all, and of those that are not
\* there it comes to none but the ones that vanished.
RosterKnown ==
    \A r \in MyRooms :
        /\ \A i \in There(r) : Lists(roster, inbox, i)
        /\ \A i \in Ids \ (There(r) \cup vanished) : Omits(roster, inbox, i)
AllHeard == Words \cap missed = {}
RosterInv == Orderly /\ AllHeard => RosterKnown

LEMMA RosterKept ==
    ASSUME ClientInv, RosterKnown, UNCHANGED <<rooms, vanished>>, MyRooms' = MyRooms,
           \/ UNCHANGED <<inbox, roster>>
           \/ inbox # <<>> /\ inbox' = Tail(inbox) /\ roster' = Noted(roster, Head(inbox))
    PROVE  RosterKnown'
  <1>1. \A r : There(r)' = There(r)
    BY DEF There
  <1>2. CASE UNCHANGED <<inbox, roster>>
    BY <1>1, <1>2 DEF RosterKnown
  <1>3. CASE inbox # <<>> /\ inbox' = Tail(inbox) /\ roster' = Noted(roster, Head(inbox))
    <2>1. \A i : /\ Lists(roster, inbox, i) => Lists(Noted(roster, Head(inbox)), Tail(inbox), i)
                 /\ Omits(roster, inbox, i) => Omits(Noted(roster, Head(inbox)), Tail(inbox), i)
      <3>1. inbox \in Seq(FromLobby) /\ inbox # <<>>
        BY <1>3 DEF ClientInv, Valued
      <3> QED
        BY <3>1, ListsTail, OmitsTail
    <2>2. \A i : /\ Lists(roster, inbox, i) => Lists(roster', inbox', i)
                 /\ Omits(roster, inbox, i) => Omits(roster', inbox', i)
      BY <1>3, <2>1
    <2> QED
      BY <1>1, <2>2 DEF RosterKnown
  <1> QED
    BY <1>2, <1>3

LEMMA RosterAnswered ==
    ASSUME ClientInv, AgreeInv, RosterInv, UNCHANGED <<rooms, vanished>>, MyRooms' = MyRooms,
           Me!LoopAnswered, Orderly', AllHeard'
    PROVE  RosterKnown'
  <1>1. Orderly
    BY AnswerTaken
  <1>2. CASE Me!Here.at \in Leaving
    <2>1. AnswerComes
      BY <1>2, AnswerTaken DEF Leaving
    <2>2. MyRooms = {}
      BY <1>2, <2>1 DEF AnswerComes, Settles, Leaving
    <2> QED
      BY <2>2 DEF RosterKnown
  <1>3. CASE Me!Here.at \notin Leaving
    <2>1. UNCHANGED <<missed, roster>> /\ inbox # <<>> /\ inbox' = Tail(inbox)
      BY <1>3 DEF Me!LoopAnswered, Leaving
    <2>2. RosterKnown
      BY <1>1, <2>1 DEF AllHeard, RosterInv
    <2>3. Head(inbox).header \notin Words
      BY DEF Me!LoopAnswered, Me!Wanted, Me!Results, Words
    <2>4. Noted(roster, Head(inbox)) = roster
      BY <2>3 DEF Noted, Words
    <2> QED
      BY <2>1, <2>2, <2>4, RosterKept
  <1> QED
    BY <1>2, <1>3

\* A packet handled is noted, or it is no word about anybody, or thrown away.
LEMMA ReadsRoster ==
    ASSUME ClientInv, Me!MainReads \/ Me!LoopReads, AllHeard'
    PROVE  /\ missed \subseteq missed'
           /\ \/ UNCHANGED <<inbox, roster>>
              \/ inbox # <<>> /\ inbox' = Tail(inbox) /\ roster' = Noted(roster, Head(inbox))
  <1>1. \/ /\ Me!NextFromLobby
           /\ \E packet \in FromLobby : packet = Head(inbox) /\ Handled(packet)
        \/ /\ Me!NextFromGame
           /\ \E packet \in FromServer : packet = Head(fromGame) /\ Handled(packet)
    BY MainReadsCases, LoopReadsCases DEF Handled
  <1>2. ASSUME NEW packet, Handled(packet) PROVE roster' = Noted(roster, packet)
    <2>1. CASE Me!ThrowAway(packet)
      <3>1. packet.header \in missed' /\ roster' = roster
        BY <2>1 DEF Me!ThrowAway, Me!Place
      <3> QED
        BY <3>1 DEF Noted, AllHeard, Words
    <2>2. CASE Me!process_event(packet)
      <3>1. CASE Learns(packet)
        BY <3>1 DEF Learns, Me!LearnOf, Noted
      <3>2. CASE Connects(packet) \/ Ignores(packet) \/ Enters(packet) \/ Skips(packet)
        BY <3>2 DEF Connects, Ignores, Enters, Skips, Noted
      <3> QED
        BY <2>2, <3>1, <3>2, Processed
    <2> QED
      BY <1>2, <2>1, <2>2 DEF Handled
  <1>3. missed \subseteq missed'
    BY ReadsGame
  <1>4. CASE /\ Me!NextFromLobby
             /\ \E packet \in FromLobby : packet = Head(inbox) /\ Handled(packet)
    <2>1. PICK packet \in FromLobby : packet = Head(inbox) /\ Handled(packet)
      BY <1>4
    <2>2. roster' = Noted(roster, packet)
      BY <1>2, <2>1
    <2> QED
      BY <1>3, <1>4, <2>1, <2>2 DEF Me!NextFromLobby
  <1>5. CASE /\ Me!NextFromGame
             /\ \E packet \in FromServer : packet = Head(fromGame) /\ Handled(packet)
    <2>1. PICK packet \in FromServer : packet = Head(fromGame) /\ Handled(packet)
      BY <1>5
    <2>2. roster' = Noted(roster, packet)
      BY <1>2, <2>1
    <2>3. Noted(roster, packet) = roster
      BY <2>1 DEF FromServer, Noted
    <2> QED
      BY <1>3, <1>5, <2>2, <2>3 DEF Me!NextFromGame
  <1> QED
    BY <1>1, <1>4, <1>5

LEMMA RosterOthers ==
    ASSUME LobbyInv, ClientInv, ArrivedInv, AgreeInv, NewsInv, RosterInv,
           UNCHANGED <<rooms, vanished>>, MyRooms' = MyRooms, Me!ClientNext,
           ~(Me!MainReads \/ Me!LoopReads \/ Me!LoopAnswered), Orderly', AllHeard'
    PROVE  RosterKnown'
  <1>1. Orderly /\ Balanced
    BY ClientPasses
  <1>2. missed \subseteq missed'
    BY OthersGame
  <1>3. RosterKnown
    BY <1>1, <1>2 DEF AllHeard, RosterInv
  <1>4. CASE Me!GreetConnected \/ Me!GreetKey \/ Me!GreetId
    <2>1. Me!Here.at \in Early /\ Me!Here.at \in Bottom
      BY <1>4 DEF Me!GreetConnected, Me!GreetKey, Me!GreetId, Me!At, Early, Bottom, Alone
    <2>2. Waiting = {} /\ stack[1].at \in Early
      BY <2>1, DoneFacts
    <2>3. AtRest /\ room_id = 0
      BY <1>1, <2>2, NobodyWaits DEF NewsInv
    <2>4. MyRooms = {}
      BY <2>3 DEF AtRest, Agree
    <2> QED
      BY <2>4 DEF RosterKnown
  <1>5. CASE Me!ServerRefused \/ Me!ServerKey
    <2>1. /\ UNCHANGED roster
          /\ \/ inbox' = inbox
             \/ /\ inbox # <<>> /\ inbox' = Tail(inbox)
                /\ missed' = missed \cup {Head(inbox).header}
      BY <1>5 DEF Me!ServerRefused, Me!ServerKey, Me!NextFromLobby, Me!NextFromGame, Me!Place
    <2>2. Head(inbox).header \in missed' => Noted(roster, Head(inbox)) = roster
      BY DEF AllHeard, Words, Noted
    <2> QED
      BY <1>3, <2>1, <2>2, RosterKept
  <1>6. CASE \/ Me!LoopGivesUp \/ Me!ServerConnected \/ Me!ServerGone \/ Me!ServerGreets
             \/ Me!Types \/ Me!Terminated
    <2>1. UNCHANGED <<inbox, roster>>
      BY <1>6 DEF Me!LoopGivesUp, Me!ServerConnected, Me!ServerGone, Me!ServerGreets, Me!Types,
         Me!TypeRoom, Me!TypeRooms, Me!TypeConnect, Me!TypeDisconnect, Me!TypeExit, Me!TypeCreate,
         Me!Terminated, Me!Line, Me!Place
    <2> QED
      BY <1>3, <2>1, RosterKept
  <1> QED
    BY <1>4, <1>5, <1>6 DEF Me!ClientNext

\* What the lobby sends is one of: no word about anybody, a word about
\* somebody who comes or goes, and all the introductions on the way in.
LEMMA NoWords ==
    ASSUME NEW x, Marks(x, News) = {}
    PROVE  \A h \in Words : \A i : Said(x, h, i) = {}
  BY DEF Marks, News, Words, Said

LEMMA RosterQuiet ==
    ASSUME ClientInv, RosterKnown, LobbyStep, out'[me] \in Seq(FromLobby), MyRooms' = MyRooms,
           \A h \in Words : \A i : Said(out'[me], h, i) = {},
           \A r \in MyRooms : There(r)' \subseteq There(r) /\ There(r) \subseteq There(r)' \cup vanished',
           vanished \subseteq vanished'
    PROVE  RosterKnown'
  <1>1. PICK x \in Seq(FromLobby) : x = out'[me]
    OBVIOUS
  <1>2. inbox \in Seq(FromLobby)
    BY DEF ClientInv, Valued
  <1>3. \A h \in Words : \A i : Said(x, h, i) = {}
    BY <1>1
  <1>4. \A i : /\ Lists(roster, inbox, i) => Lists(roster, inbox \o x, i)
               /\ Omits(roster, inbox, i) => Omits(roster, inbox \o x, i)
    BY <1>2, <1>3, NothingAdded
  <1>5. inbox' = inbox \o x /\ roster' = roster
    BY <1>1 DEF LobbyStep, Deliver, ClientWaits
  <1>6. \A i : /\ Lists(roster, inbox, i) => Lists(roster', inbox', i)
               /\ Omits(roster, inbox, i) => Omits(roster', inbox', i)
    BY <1>4, <1>5
  <1> QED
    BY <1>6 DEF RosterKnown

LEMMA OneWord ==
    ASSUME NEW k \in Words, NEW j
    PROVE  /\ \A h \in Words : \A i : i # j \/ h # k => Said(<<About(k, j)>>, h, i) = {}
           /\ Said(<<About(k, j)>>, k, j) # {}
  <1>1. /\ DOMAIN <<About(k, j)>> = {1} /\ <<About(k, j)>>[1] = About(k, j)
        /\ About(k, j).header = k /\ About(k, j).id = j
    BY DEF About
  <1> QED
    BY <1>1 DEF Said

LEMMA RosterTold ==
    ASSUME ClientInv, RosterKnown, LobbyStep, out'[me] \in Seq(FromLobby), MyRooms' = MyRooms,
           NEW k \in Words, NEW j \in Ids, Tells(k, j)
    PROVE  RosterKnown'
  <1>1. PICK x \in Seq(FromLobby) : x = out'[me]
    OBVIOUS
  <1>2. inbox \in Seq(FromLobby) /\ x = <<About(k, j)>>
    BY <1>1 DEF ClientInv, Valued, Tells
  <1>3. /\ \A h \in Words : \A i : i # j \/ h # k => Said(x, h, i) = {}
        /\ Said(x, k, j) # {}
    BY <1>2, OneWord
  <1>4. ASSUME NEW i, i # j
        PROVE  /\ Lists(roster, inbox, i) => Lists(roster, inbox \o x, i)
               /\ Omits(roster, inbox, i) => Omits(roster, inbox \o x, i)
    BY <1>2, <1>3, <1>4, NothingAdded
  <1>5. /\ k = "ClientAbout" => Lists(roster, inbox \o x, j)
        /\ k = "DiscClientAbout" => Omits(roster, inbox \o x, j)
    BY <1>2, <1>3, LastWord DEF Words
  <1>6. inbox' = inbox \o x /\ roster' = roster /\ UNCHANGED vanished
    BY <1>1 DEF LobbyStep, Deliver, ClientWaits, Tells
  <1>7. ASSUME NEW r \in MyRooms, NEW i \in There(r)' PROVE Lists(roster', inbox', i)
    <2>1. There(r)' = IF k = "ClientAbout" THEN There(r) \cup {j} ELSE There(r) \ {j}
      BY DEF Tells
    <2>2. CASE i = j
      BY <1>5, <1>6, <1>7, <2>1, <2>2
    <2>3. CASE i # j
      <3>1. Lists(roster, inbox, i)
        BY <1>7, <2>1, <2>3 DEF RosterKnown
      <3> QED
        BY <1>4, <1>6, <2>3, <3>1
    <2> QED
      BY <2>2, <2>3
  <1>8. ASSUME NEW r \in MyRooms, NEW i \in Ids \ (There(r)' \cup vanished)
        PROVE  Omits(roster', inbox', i)
    <2>1. There(r)' = IF k = "ClientAbout" THEN There(r) \cup {j} ELSE There(r) \ {j}
      BY DEF Tells
    <2>2. CASE i = j
      <3>1. k = "DiscClientAbout"
        BY <1>8, <2>1, <2>2 DEF Words
      <3> QED
        BY <1>5, <1>6, <2>2, <3>1
    <2>3. CASE i # j
      <3>1. Omits(roster, inbox, i)
        BY <1>8, <2>1, <2>3 DEF RosterKnown
      <3> QED
        BY <1>4, <1>6, <2>3, <3>1
    <2> QED
      BY <2>2, <2>3
  <1> QED
    BY <1>6, <1>7, <1>8 DEF RosterKnown

LEMMA SaidAppend ==
    ASSUME NEW S, NEW s \in Seq(S), NEW z \in S, z.header \notin Words
    PROVE  \A h \in Words : \A i : Said(Append(s, z), h, i) = Said(s, h, i)
  <1> DEFINE t == Append(s, z)
  <1>1. /\ \A n \in DOMAIN s : n \in DOMAIN t /\ t[n] = s[n]
        /\ \A n \in DOMAIN t : n \in DOMAIN s \/ n = Len(s) + 1
        /\ t[Len(s) + 1] = z
    BY AppendFacts
  <1> HIDE DEF t
  <1>2. \A h \in Words : \A i : Said(t, h, i) = Said(s, h, i)
    BY <1>1 DEF Said
  <1> QED
    BY <1>2 DEF t

LEMMA Elements ==
    ASSUME NEW S, NEW s \in Seq(S)
    PROVE  \A n \in DOMAIN s : s[n] \in S
  OBVIOUS

LEMMA IntroductionsSaid ==
    ASSUME NEW r \in Rooms, NEW intros, Introduced(r, intros)
    PROVE  \A i : LET said == <<Message("ResultSuccess")>> \o intros
                  IN  /\ Said(said, "DiscClientAbout", i) = {}
                      /\ Said(said, "ClientAbout", i) # {} <=> i \in There(r)
  <1> DEFINE said == <<Message("ResultSuccess")>> \o intros
  <1>1. intros \in Seq([header : {"ClientAbout"}, id : Ids])
    BY DEF Introduced
  <1>2. /\ said[1] = Message("ResultSuccess") /\ DOMAIN said \subseteq Nat
        /\ \A n \in DOMAIN said : n # 1 => n - 1 \in DOMAIN intros /\ said[n] = intros[n - 1]
        /\ \A n \in DOMAIN intros : n + 1 \in DOMAIN said /\ said[n + 1] = intros[n]
    BY <1>1
  <1>3. \A n \in DOMAIN intros : intros[n].header = "ClientAbout"
    <2>1. \A n \in DOMAIN intros : intros[n] \in [header : {"ClientAbout"}, id : Ids]
      BY <1>1, Elements
    <2> QED
      BY <2>1
  <1>4. said[1].header = "ResultSuccess"
    BY <1>2 DEF Message
  <1> HIDE DEF said
  <1>5. \A i : Said(said, "DiscClientAbout", i) = {}
    BY <1>2, <1>3, <1>4 DEF Said
  <1>6. ASSUME NEW i, NEW n \in Said(said, "ClientAbout", i) PROVE i \in There(r)
    <2>1. n \in DOMAIN said /\ said[n].header = "ClientAbout" /\ said[n].id = i
      BY <1>6 DEF Said
    <2>2. n # 1
      BY <1>4, <2>1
    <2>3. n - 1 \in DOMAIN intros /\ intros[n - 1].id = i
      BY <1>2, <2>1, <2>2
    <2>4. PICK q \in Members(r) \ {me} : intros[n - 1].id = rooms[r].clients[q]
      BY <2>3 DEF Introduced
    <2> QED
      BY <2>3, <2>4 DEF There, Called, Members
  <1>7. ASSUME NEW i \in There(r) PROVE Said(said, "ClientAbout", i) # {}
    <2>1. PICK q \in Members(r) \ {me} : i = rooms[r].clients[q]
      BY DEF There, Called, Members
    <2>2. PICK n \in DOMAIN intros : intros[n].id = i
      BY <2>1 DEF Introduced
    <2>3. n + 1 \in DOMAIN said /\ said[n + 1].header = "ClientAbout" /\ said[n + 1].id = i
      BY <1>2, <1>3, <2>2
    <2>4. n + 1 \in Said(said, "ClientAbout", i)
      BY <2>3 DEF Said
    <2> QED
      BY <2>4
  <1>8. \A i : /\ Said(said, "DiscClientAbout", i) = {}
               /\ Said(said, "ClientAbout", i) # {} <=> i \in There(r)
    BY <1>5, <1>6, <1>7
  <1> QED
    BY <1>8 DEF said

\* On the way in everybody in the room is named, after a past without words.
LEMMA RosterAdmitted ==
    ASSUME LobbyInv, ClientInv, Heard, LobbyStep, out'[me] \in Seq(FromLobby),
           NEW r \in Rooms, Admits(r)
    PROVE  RosterKnown'
  <1>1. roster = {} /\ NewsAt = {} /\ MyRooms' = {r} /\ There(r)' = There(r)
    BY DEF Admits, Heard
  <1>2. PICK x \in Seq(FromLobby) : x = out'[me]
    OBVIOUS
  <1>3. PICK intros : /\ Introduced(r, intros)
                      /\ x = IF rooms[r].game_start
                             THEN Append(<<Message("ResultSuccess")>> \o intros, ServerInfo(rooms[r].server))
                             ELSE <<Message("ResultSuccess")>> \o intros
    BY <1>2 DEF Admits
  <1> DEFINE said == <<Message("ResultSuccess")>> \o intros
             where == ServerInfo(rooms[r].server)
  <1>4. \A i : /\ Said(said, "DiscClientAbout", i) = {}
               /\ Said(said, "ClientAbout", i) # {} <=> i \in There(r)
    BY <1>3, IntroductionsSaid
  <1>5. where.header \notin Words
    BY DEF ServerInfo, Words
  <1>6. said \in Seq(Talk \cup [header : Bare])
    <2>1. PICK T, U : T = [header : {"ClientAbout"}, id : Ids] /\ U = Talk \cup [header : Bare]
      OBVIOUS
    <2>2. T \subseteq U /\ intros \in Seq(T) /\ Message("ResultSuccess") \in U
      BY <1>3, <2>1 DEF Talk, Introduced, Message, Bare
    <2>3. intros \in Seq(U) /\ <<Message("ResultSuccess")>> \in Seq(U)
      BY <2>2, LargerRange, SingleType
    <2>4. said \in Seq(U)
      BY <2>3, ConcatParts
    <2> QED
      BY <2>1, <2>4
  <1> DEFINE S == Talk \cup [header : Bare] \cup {where}
  <1>7. said \in Seq(S) /\ where \in S
    BY <1>6, LargerRange
  <1> HIDE DEF said, where, S
  <1>8. \A h \in Words : \A i : Said(Append(said, where), h, i) = Said(said, h, i)
    BY <1>5, <1>7, SaidAppend
  <1>9. x = said \/ x = Append(said, where)
    BY <1>3 DEF said, where
  <1>10. \A i : /\ Said(x, "DiscClientAbout", i) = {}
                /\ Said(x, "ClientAbout", i) # {} <=> i \in There(r)
    BY <1>4, <1>8, <1>9 DEF Words
  <1>11. inbox \in Seq(FromLobby) /\ inbox' = inbox \o x /\ roster' = {}
    BY <1>1, <1>2 DEF ClientInv, Valued, LobbyStep, Deliver, ClientWaits
  <1>12. \A i : Omits({}, inbox, i)
    BY <1>1 DEF NewsAt, Marks, News, Said, Omits
  <1>13. ASSUME NEW i \in There(r) PROVE Lists({}, inbox \o x, i)
    BY <1>10, <1>11, <1>13, LastWord
  <1>14. ASSUME NEW i, i \notin There(r) PROVE Omits({}, inbox \o x, i)
    <2>1. \A h \in Words : Said(x, h, i) = {}
      BY <1>10, <1>14 DEF Words
    <2> QED
      BY <1>11, <1>12, <2>1, NothingAdded
  <1> QED
    BY <1>1, <1>11, <1>13, <1>14 DEF RosterKnown

LEMMA RosterLobby ==
    ASSUME BalanceInv, PlacedInv, Orderly, Heard, RosterKnown,
           LobbyGreetsMe \/ LobbyServesMe \/ TheirSteps
    PROVE  RosterKnown'
  <1>1. LobbyInv /\ ClientInv
    BY DEF BalanceInv, ReachInv, TypeInv
  <1>2. LobbyStep /\ out'[me] \in Seq(FromLobby)
    BY LobbyNews
  <1>3. CASE MyRooms' = MyRooms /\ Passes
    <2>1. \A h \in Words : \A i : Said(out'[me], h, i) = {}
      BY <1>3, NoWords DEF Passes
    <2> QED
      BY <1>1, <1>2, <1>3, <2>1, RosterQuiet DEF Passes
  <1>4. CASE MyRooms' = MyRooms /\ Starting
    <2>1. PICK r \in MyRooms : out'[me] = <<ServerInfo(rooms'[r].server)>>
      BY <1>4 DEF Starting
    <2>2. DOMAIN out'[me] = {1} /\ out'[me][1].header = "ServerInfo"
      BY <2>1 DEF ServerInfo
    <2>3. \A h \in Words : \A i : Said(out'[me], h, i) = {}
      BY <2>2 DEF Said, Words
    <2> QED
      BY <1>1, <1>2, <1>4, <2>3, RosterQuiet DEF Starting
  <1>5. CASE MyRooms' = MyRooms /\ \E h \in {"ClientAbout", "DiscClientAbout"}, i \in Ids : Tells(h, i)
    <2>1. PICK h \in Words, i \in Ids : Tells(h, i)
      BY <1>5 DEF Words
    <2> QED
      BY <1>1, <1>2, <1>5, <2>1, RosterTold
  <1>6. CASE Outside
    BY <1>6 DEF Outside, RosterKnown
  <1>7. CASE \E r \in Rooms : Admits(r)
    BY <1>1, <1>2, <1>7, RosterAdmitted
  <1> QED
    BY <1>3, <1>4, <1>5, <1>6, <1>7, LobbyNews

LEMMA RosterStep ==
    ASSUME BalanceInv, PlacedInv, NewsInv, RosterInv, [Next]_vars
    PROVE  RosterInv'
  <1> SUFFICES ASSUME Orderly', AllHeard' PROVE RosterKnown'
    BY DEF RosterInv
  <1>1. LobbyInv /\ TheirsInv /\ ClientInv /\ ArrivedInv /\ AgreeInv
    BY DEF BalanceInv, ReachInv, TypeInv
  <1>2. CASE Me!ClientNext /\ UNCHANGED <<lobbyVars, agentSide, theirSide>>
    <2>1. UNCHANGED <<rooms, vanished>> /\ MyRooms' = MyRooms
      BY <1>1, <1>2, LobbyUnchanged DEF lobbyVars, theirSide
    <2>2. CASE Me!LoopAnswered
      BY <1>1, <2>1, <2>2, RosterAnswered
    <2>3. CASE Me!MainReads \/ Me!LoopReads
      <3>1. UNCHANGED sealed
        BY <1>1, <1>2, ClientTypes
      <3>2. Orderly
        BY <1>1, <2>3, <3>1, ReadsPass
      <3>3. /\ missed \subseteq missed'
            /\ \/ UNCHANGED <<inbox, roster>>
               \/ inbox # <<>> /\ inbox' = Tail(inbox) /\ roster' = Noted(roster, Head(inbox))
        BY <1>1, <2>3, ReadsRoster
      <3>4. RosterKnown
        BY <3>2, <3>3 DEF AllHeard, RosterInv
      <3> QED
        BY <1>1, <2>1, <3>3, <3>4, RosterKept
    <2> QED
      BY <1>1, <1>2, <2>1, <2>2, <2>3, RosterOthers
  <1>3. ASSUME LobbyStep \/ Still PROVE Orderly /\ RosterKnown
    <2>1. Orderly /\ UNCHANGED missed
      BY <1>1, <1>3, WaitsOn
    <2>2. AllHeard
      BY <2>1 DEF AllHeard
    <2> QED
      BY <2>1, <2>2 DEF RosterInv
  <1>4. CASE LobbyGreetsMe \/ LobbyServesMe \/ TheirSteps
    <2>1. LobbyStep
      BY <1>1, <1>4, TheirEffect DEF LobbyGreetsMe, LobbyServesMe, Elsewhere
    <2>2. Heard
      BY <1>3, <2>1 DEF NewsInv
    <2> QED
      BY <1>3, <1>4, <2>1, <2>2, RosterLobby
  <1>5. CASE LobbyLosesMe
    <2>1. LobbyStep /\ Done
      BY <1>1, <1>5, LosesMe DEF Done
    <2> QED
      BY <1>3, <2>1 DEF Orderly
  <1>6. CASE Still
    <2>1. RosterKnown /\ UNCHANGED <<inbox, roster, rooms, vanished>>
      BY <1>1, <1>3, <1>6, WaitsOn DEF Still, clientSide, theirSide
    <2>2. MyRooms' = MyRooms /\ \A r : There(r)' = There(r)
      BY <2>1 DEF MyRooms, Rooms, Members, There
    <2> QED
      BY <2>1, <2>2 DEF RosterKnown
  <1> QED
    BY <1>1, <1>2, <1>4, <1>5, <1>6, NextCases

LEMMA RosterInit ==
    ASSUME Init
    PROVE  RosterInv
  <1>1. rooms = <<>>
    BY DEF Init, LobbyInit
  <1>2. MyRooms = {}
    BY <1>1 DEF MyRooms, Rooms
  <1> QED
    BY <1>2 DEF RosterInv, RosterKnown

-----------------------------------------------------------------------------
(***************************************************************************)
(* All of it together.                                                     *)
(***************************************************************************)
BeliefInv == BalanceInv /\ NewsInv /\ PlacedInv /\ GameInv /\ PlayInv /\ RosterInv

\* From the packets in flight on: what the client holds of its room, its
\* companions and its game comes to what the lobby has, once they are read
\* (GameClient.cpp: process_event; EnetLobby.cpp: Run).
THEOREM BeliefsKept == Spec => []BeliefInv
  <1>1. Init => BeliefInv
    BY BalanceInit, NewsInit, PlacedInit, GameInit, PlayInit, RosterInit DEF BeliefInv
  <1>2. BeliefInv /\ [Next]_vars => BeliefInv'
    <2> SUFFICES ASSUME BeliefInv, [Next]_vars PROVE BeliefInv'
      OBVIOUS
    <2>1. BalanceInv /\ NewsInv /\ PlacedInv /\ GameInv /\ PlayInv /\ RosterInv
      BY DEF BeliefInv
    <2>2. BalanceInv'
      BY <2>1, BalanceStep
    <2>3. NewsInv' /\ PlacedInv'
      BY <2>1, NewsStep, PlacedStep
    <2>4. GameInv' /\ PlayInv'
      BY <2>1, GameStep, PlayStep
    <2>5. RosterInv'
      BY <2>1, RosterStep
    <2> QED
      BY <2>2, <2>3, <2>4, <2>5 DEF BeliefInv
  <1> QED
    BY <1>1, <1>2, PTL DEF Spec

\* A client back in its main loop in a room it knows of is in that room only.
LEMMA IdleRoom ==
    ASSUME BeliefInv, Idle, ~gave_up, ~crossed
    PROVE  /\ Orderly /\ MyRooms = {room_id} \ {0} /\ Waiting = {} /\ Me!Here.at = "main"
           /\ MyRoom <=> room_id \in MyRooms
  <1>1. AtRest /\ Orderly /\ Waiting = {} /\ Me!Here.at = "main"
    BY IdleRests DEF BeliefInv, Orderly
  <1> QED
    BY <1>1 DEF AtRest, Agree, MyRoom, MyRooms

\* Who is playing is in a running room and connected to that room's server,
\* unless it left a room while its game was still being greeted
\* (GameClient.cpp: process_event, clean_game; EnetLobby.cpp: ServerPort).
THEOREM GamesAgree == Spec => []GameAgrees
  <1>1. BeliefInv => GameAgrees
    <2> SUFFICES ASSUME BeliefInv, Idle, in_game, ~gave_up, ~crossed, ~left_early
                 PROVE  /\ MyRoom /\ rooms[room_id].game_start
                        /\ server_peer # "null" /\ server = rooms[room_id].server
      BY DEF GameAgrees
    <2>1. Orderly /\ MyRooms = {room_id} \ {0} /\ (MyRoom <=> room_id \in MyRooms)
      BY IdleRoom
    <2>2. GameKnown /\ Linked
      BY <2>1 DEF BeliefInv, GameInv, Linked
    <2>3. room_id # 0 /\ server_peer = "slot"
      BY <2>2 DEF GameKnown
    <2>4. room_id \in MyRooms
      BY <2>1, <2>3
    <2> QED
      BY <2>1, <2>2, <2>3, <2>4 DEF GameKnown
  <1> QED
    BY <1>1, BeliefsKept, PTL

\* A member of a running room is in the game once everything sent to it has
\* been read: what the wait loops throw away, a failed server and a room left
\* too early are the only ways to miss it (GameClient.cpp: process_event).
THEOREM RoomPlays == Spec => []MembersPlay
  <1>1. BeliefInv => MembersPlay
    <2> SUFFICES ASSUME BeliefInv, Drained, MyRoom, rooms[room_id].game_start,
                        toGame = <<>>, fromGame = <<>>, ~gave_up, ~crossed, ~gone, ~left_early,
                        {"ServerInfo", "GameInfo"} \cap missed = {}
                 PROVE  in_game
      BY DEF MembersPlay
    <2>1. /\ Orderly /\ Waiting = {} /\ Me!Here.at = "main" /\ room_id \in MyRooms
          /\ inbox = <<>>
      BY IdleRoom DEF Drained
    <2>2. OnTheWay
      BY <2>1 DEF BeliefInv, PlayInv, Unspoilt, Playing
    <2>3. ~Told /\ ~Attending /\ ~GivingUp /\ ~InfoComing
      BY <2>1 DEF Told, InfoAt, Attending, Events, GivingUp, InfoComing, Marks
    <2> QED
      BY <2>2, <2>3 DEF OnTheWay
  <1> QED
    BY <1>1, BeliefsKept, PTL

\* The list of /other holds exactly the others in the room, and perhaps some
\* that disconnected, once everything sent has been read and nothing about
\* anybody was thrown away (GameClient.cpp: others; EnetLobby.cpp: Run).
THEOREM RostersAgree == Spec => []RosterAgrees
  <1>1. BeliefInv => RosterAgrees
    <2> DEFINE there == {rooms[room_id].clients[p] : p \in Members(room_id) \ {me}}
    <2> SUFFICES ASSUME BeliefInv, Drained, ~gave_up, ~crossed, MyRoom,
                        {"ClientAbout", "DiscClientAbout"} \cap missed = {}
                 PROVE  there \subseteq roster /\ roster \subseteq there \cup vanished
      BY DEF RosterAgrees
    <2>1. Orderly /\ room_id \in MyRooms /\ inbox = <<>>
      BY IdleRoom DEF Drained
    <2>2. RosterKnown
      BY <2>1 DEF BeliefInv, RosterInv, AllHeard, Words
    <2>3. there = There(room_id)
      BY DEF There, Called, Members
    <2>4. \A h, i : Said(inbox, h, i) = {}
      BY <2>1 DEF Said
    <2>5. \A i \in There(room_id) : i \in roster
      BY <2>1, <2>2, <2>4 DEF RosterKnown, Lists
    <2>6. \A i \in Ids \ (There(room_id) \cup vanished) : i \notin roster
      BY <2>1, <2>2, <2>4 DEF RosterKnown, Omits
    <2>7. roster \subseteq Ids
      BY DEF BeliefInv, BalanceInv, ReachInv, TypeInv, ClientInv, Valued
    <2> QED
      BY <2>3, <2>5, <2>6, <2>7
  <1> QED
    BY <1>1, BeliefsKept, PTL
=============================================================================
