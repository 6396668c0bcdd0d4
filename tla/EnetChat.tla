------------------------------ MODULE EnetChat ------------------------------
(***************************************************************************)
(* The chat over ENet (server/EnetServer.cpp, client/EnetClient.cpp): a    *)
(* lobby sends its clients the address of a server, they connect to it,    *)
(* the first packet of a client is its name, and the server introduces the *)
(* client and the others to each other.                                    *)
(*                                                                         *)
(* Channel 0 is reliable and ordered; the chat itself, on channel 1,       *)
(* changes nothing.  The lobby is external: it sends the address, once for *)
(* everybody that types /start.                                            *)
(***************************************************************************)
EXTENDS Integers, Sequences, FiniteSets, Maps

CONSTANTS
    Client,     \* the client processes, each on an ENet slot of its own
    MaxStarts,  \* bound: how often the address is sent
    MaxLines    \* bound: lines a client types in the game

ASSUME ChatAssumption ==
    IsFiniteSet(Client) /\ MaxStarts \in Nat /\ MaxLines \in Nat

VARIABLES
    clients,     \* the server's table: peer -> [id, name]
    id_counter,  \* the next id
    phase,       \* the client is in the "lobby", "connecting", "in_game" or "gone"
    link,        \* the client's server_peer: "none", "connecting", "up"
    others,      \* the infos the client has listed, in order
    addresses,   \* addresses of a server on their way to the client
    starts,      \* how often the address has been sent to everybody
    toServer,    \* packets of the client on channel 0
    fromServer,  \* packets to the client on channel 0
    typed,       \* lines typed in the game
    interrupted  \* history: the wait for the server ended without its CONNECT

vars == <<clients, id_counter, phase, link, others, addresses, starts, toServer,
          fromServer, typed, interrupted>>

Address == -1    \* a server address read as a ClientInfo

Init ==
    /\ clients = NoEntries /\ id_counter = 0
    /\ phase = [c \in Client |-> "lobby"]
    /\ link = [c \in Client |-> "none"]
    /\ others = [c \in Client |-> <<>>]
    /\ addresses = [c \in Client |-> 0]
    /\ starts = 0
    /\ toServer = [c \in Client |-> <<>>]
    /\ fromServer = [c \in Client |-> <<>>]
    /\ typed = [c \in Client |-> 0]
    /\ interrupted = [c \in Client |-> FALSE]

ServerSide == <<clients, id_counter>>
Channels == <<toServer, fromServer>>

\* enet_peer_send reaches only a peer that is connected.
Sent(c, packet) ==
    IF link'[c] = "up" THEN [toServer EXCEPT ![c] = Append(@, packet)] ELSE toServer

-----------------------------------------------------------------------------
(***************************************************************************)
(* The client.                                                             *)
(***************************************************************************)

\* /start, typed by anybody: the lobby sends everybody the address.
LobbyStarts ==
    /\ starts < MaxStarts /\ starts' = starts + 1
    /\ addresses' = [c \in Client |-> addresses[c] + (IF phase[c] = "gone" THEN 0 ELSE 1)]
    /\ UNCHANGED <<ServerSide, phase, link, others, Channels, typed, interrupted>>

TakeAddress(c) ==
    addresses[c] > 0 /\ addresses' = [addresses EXCEPT ![c] = @ - 1]

\* The first packet is the address of the server.
BeginConnecting(c) ==
    /\ phase[c] = "lobby" /\ TakeAddress(c)
    /\ phase' = [phase EXCEPT ![c] = "connecting"]
    /\ link' = [link EXCEPT ![c] = "connecting"]
    /\ UNCHANGED <<ServerSide, others, starts, Channels, typed, interrupted>>

\* Mutant of EnterGame: the name is sent after the first line.
EnterGame_Nameless(c) ==
    phase' = [phase EXCEPT ![c] = "in_game"] /\ UNCHANGED toServer

\* However the wait ended, the game is on and the name is sent.
EnterGame(c) ==
    phase' = [phase EXCEPT ![c] = "in_game"] /\ toServer' = Sent(c, "name")

Connected(c) ==
    /\ phase[c] = "connecting"
    /\ link' = [link EXCEPT ![c] = "up"]
    /\ EnterGame(c)
    /\ UNCHANGED <<ServerSide, others, addresses, starts, fromServer, typed, interrupted>>

\* Five seconds, or another packet of the lobby: the connection to the lobby
\* is reset, the one to the server stays in the making.
NotConnected(c) ==
    /\ phase[c] = "connecting"
    /\ addresses' = [addresses EXCEPT ![c] = 0]
    /\ interrupted' = [interrupted EXCEPT ![c] = TRUE]
    /\ UNCHANGED link
    /\ EnterGame(c)
    /\ UNCHANGED <<ServerSide, others, starts, fromServer, typed>>

\* CONNECT after the wait: an invalid operation, but the peer is connected.
\* Or ENet gives up.
ConnectedLate(c) ==
    /\ phase[c] = "in_game" /\ link[c] = "connecting"
    /\ \E l \in {"up", "none"} : link' = [link EXCEPT ![c] = l]
    /\ UNCHANGED <<ServerSide, phase, others, addresses, starts, Channels, typed, interrupted>>

\* A packet on channel 0 in the game is taken for the info of somebody else,
\* a second address of the lobby too.
ReadAddress(c) ==
    /\ phase[c] = "in_game" /\ ~interrupted[c] /\ TakeAddress(c)
    /\ others' = [others EXCEPT ![c] = Append(@, Address)]
    /\ UNCHANGED <<ServerSide, phase, link, starts, Channels, typed, interrupted>>

ReadInfo(c) ==
    /\ phase[c] = "in_game" /\ fromServer[c] # <<>>
    /\ others' = [others EXCEPT ![c] = Append(@, Head(fromServer[c]))]
    /\ fromServer' = [fromServer EXCEPT ![c] = Tail(@)]
    /\ UNCHANGED <<ServerSide, phase, link, addresses, starts, toServer, typed, interrupted>>

Say(c) ==
    /\ phase[c] = "in_game" /\ typed[c] < MaxLines
    /\ typed' = [typed EXCEPT ![c] = @ + 1]
    /\ UNCHANGED link
    /\ toServer' = Sent(c, "line")
    /\ UNCHANGED <<ServerSide, phase, others, addresses, starts, fromServer, interrupted>>

\* The process ends; the host is destroyed and nobody told.
Stop(c) ==
    /\ phase[c] # "gone"
    /\ phase' = [phase EXCEPT ![c] = "gone"]
    /\ link' = [link EXCEPT ![c] = "none"]
    /\ addresses' = [addresses EXCEPT ![c] = 0]
    /\ UNCHANGED <<ServerSide, others, starts, Channels, typed, interrupted>>

-----------------------------------------------------------------------------
(***************************************************************************)
(* The server.                                                             *)
(***************************************************************************)

\* Mutant of Introductions: the newcomer is introduced to itself as well.
Introductions_Self(c) ==
    [d \in Client |->
        IF d = c THEN {clients[e].id : e \in DOMAIN clients \ {c}} \cup {id_counter}
        ELSE IF d \in DOMAIN clients THEN {id_counter} ELSE {}]

\* The ids that each client is told when c comes.
Introductions(c) ==
    [d \in Client |->
        IF d = c THEN {clients[e].id : e \in DOMAIN clients \ {c}}
        ELSE IF d \in DOMAIN clients THEN {id_counter} ELSE {}]

\* The sequences with the elements of S, each once.
Listings(S) ==
    {f \in [1 .. Cardinality(S) -> S] : \A x \in S : \E n \in DOMAIN f : f[n] = x}

\* Mutant of add_new_client: the counter is stepped before the id is taken.
add_new_client_StepFirst(c, name) ==
    /\ id_counter' = id_counter + 1
    /\ clients' = Put(clients, c, [id |-> id_counter', name |-> name])
    /\ UNCHANGED fromServer

add_new_client(c, name) ==
    /\ clients' = Put(clients, c, [id |-> id_counter, name |-> name])
    /\ id_counter' = id_counter + 1
    /\ \E order \in Listings(Introductions(c)[c]) :
         fromServer' = [d \in Client |->
             IF d = c THEN fromServer[d] \o order
             ELSE IF Introductions(c)[d] = {} THEN fromServer[d]
             ELSE Append(fromServer[d], id_counter)]

\* RECEIVE: a name, or a line that is resent.
ServerReceives(c) ==
    /\ toServer[c] # <<>>
    /\ toServer' = [toServer EXCEPT ![c] = Tail(@)]
    /\ IF c \notin DOMAIN clients THEN add_new_client(c, Head(toServer[c]))
       ELSE UNCHANGED <<ServerSide, fromServer>>
    /\ UNCHANGED <<phase, link, others, addresses, starts, typed, interrupted>>

\* DISCONNECT.
ServerLoses(c) ==
    /\ phase[c] = "gone"
    /\ clients' = Erase(clients, c)
    /\ toServer' = [toServer EXCEPT ![c] = <<>>]
    /\ fromServer' = [fromServer EXCEPT ![c] = <<>>]
    /\ UNCHANGED <<id_counter, phase, link, others, addresses, starts, typed, interrupted>>

Next ==
    \/ LobbyStarts
    \/ \E c \in Client :
         \/ BeginConnecting(c) \/ Connected(c) \/ NotConnected(c) \/ ConnectedLate(c)
         \/ ReadAddress(c) \/ ReadInfo(c) \/ Say(c) \/ Stop(c)
         \/ ServerReceives(c) \/ ServerLoses(c)

Spec == Init /\ [][Next]_vars

-----------------------------------------------------------------------------
(***************************************************************************)
(* Properties.                                                             *)
(***************************************************************************)
TypeOK ==
    /\ IsTable(clients, Client, [id : 0 .. id_counter - 1, name : {"name", "line"}])
    /\ id_counter \in Nat
    /\ phase \in [Client -> {"lobby", "connecting", "in_game", "gone"}]
    /\ link \in [Client -> {"none", "connecting", "up"}]
    /\ others \in [Client -> Seq(0 .. id_counter - 1 \cup {Address})]
    /\ addresses \in [Client -> 0 .. MaxStarts] /\ starts \in 0 .. MaxStarts
    /\ toServer \in [Client -> Seq({"name", "line"})]
    /\ fromServer \in [Client -> Seq(0 .. id_counter - 1)]
    /\ typed \in [Client -> 0 .. MaxLines]
    /\ interrupted \in [Client -> BOOLEAN]

Told(c) == others[c] \o fromServer[c]
Tellings(c, i) == {n \in DOMAIN Told(c) : Told(c)[n] = i}

\* Whatever the order of arrivals, two clients that are on the server have
\* been introduced to each other, once: add_new_client, which tells both.
IntroducedOnce ==
    \A c, d \in DOMAIN clients :
        phase[c] # "gone" =>
            Cardinality(Tellings(c, clients[d].id)) = IF c = d THEN 0 ELSE 1

\* The name under which the server lists a client is the one the client goes
\* by, unless the wait for the server was cut short: the name is not sent then
\* and the first line is taken for it.
RightName ==
    \A c \in DOMAIN clients : ~interrupted[c] => clients[c].name = "name"
=============================================================================
