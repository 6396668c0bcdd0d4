------------------------------- MODULE UdpChat -------------------------------
(***************************************************************************)
(* The chat over UDP (server/Server.cpp, client/Client.cpp): clients       *)
(* introduce themselves once, say that they are alive twice in             *)
(* keep_alive_duration_sec, and are forgotten when they do not.            *)
(*                                                                         *)
(* Both ends wait with an edge-triggered epoll and read one datagram per   *)
(* wake-up: datagrams that come together wake the server once, and what    *)
(* is left in the socket waits for the next arrival.  The bytes of names   *)
(* and messages are abstracted; what a client prints changes nothing.      *)
(***************************************************************************)
EXTENDS Integers, Sequences, FiniteSets, Maps

CONSTANTS
    Client,     \* the addresses of the clients
    Half,       \* keep_alive_duration_sec / 2, in units of time
    MaxQueue    \* the datagrams the server's socket holds

ASSUME ChatAssumption ==
    /\ IsFiniteSet(Client)
    /\ Half \in Nat \ {0} /\ MaxQueue \in Nat \ {0}

VARIABLES
    phase,      \* phase[c]: the client is "new", "running" or "gone"
    due,        \* due[c]: the time until the client's timer fires
    socket,     \* the datagrams in the server's socket, oldest first
    ready,      \* the socket has become readable since the last wake-up
    clients,    \* address -> time since its timer was set
    check_due,  \* the time until the server's timer fires
    crashed,    \* the server has read through end()
    lost,       \* history: a datagram was lost
    crowded     \* history: a datagram came before another one was read

vars == <<phase, due, socket, ready, clients, check_due, crashed, lost, crowded>>

Kinds == {"n", "a", "m"}
Datagram == [from : Client, kind : Kinds]

\* Ages beyond the limit are not told apart.
Limit == 2 * Half
Older(age) == IF age > Limit THEN age ELSE age + 1

Init ==
    /\ phase = [c \in Client |-> "new"]
    /\ due = [c \in Client |-> Half]
    /\ socket = <<>> /\ ready = FALSE
    /\ clients = NoEntries
    /\ check_due = Half
    /\ crashed = FALSE
    /\ lost = FALSE /\ crowded = FALSE

ServerKeeps == UNCHANGED <<clients, check_due, crashed>>

-----------------------------------------------------------------------------
(***************************************************************************)
(* The clients.                                                            *)
(***************************************************************************)

\* sendto: the datagram reaches the socket, and wakes the server unless a
\* wake-up is pending already, or it is lost.
Send(c, kind) ==
    \/ /\ Len(socket) < MaxQueue
       /\ socket' = Append(socket, [from |-> c, kind |-> kind])
       /\ ready' = TRUE
       /\ crowded' = (crowded \/ socket # <<>>)
       /\ UNCHANGED lost
    \/ lost' = TRUE /\ UNCHANGED <<socket, ready, crowded>>

\* A client starts: it introduces itself, once, and sets its timer.
Start(c) ==
    /\ phase[c] = "new"
    /\ phase' = [phase EXCEPT ![c] = "running"]
    /\ due' = [due EXCEPT ![c] = Half]
    /\ Send(c, "n") /\ ServerKeeps

\* The client's timer fires.
KeepAlive(c) ==
    /\ phase[c] = "running" /\ due[c] = 0
    /\ due' = [due EXCEPT ![c] = Half]
    /\ Send(c, "a") /\ ServerKeeps
    /\ UNCHANGED phase

\* A line typed.
Say(c) ==
    /\ phase[c] = "running"
    /\ Send(c, "m") /\ ServerKeeps
    /\ UNCHANGED <<phase, due>>

\* SIGTERM: no farewell is sent.
Stop(c) ==
    /\ phase[c] = "running"
    /\ phase' = [phase EXCEPT ![c] = "gone"]
    /\ ServerKeeps
    /\ UNCHANGED <<due, socket, ready, lost, crowded>>

-----------------------------------------------------------------------------
(***************************************************************************)
(* The server.                                                             *)
(***************************************************************************)

\* add_new_client: only an introduction makes a client.
add_new_client(datagram) ==
    clients' = IF datagram.kind = "n" THEN Put(clients, datagram.from, 0) ELSE clients

\* A datagram of a client that is known: a keep-alive or a message, which is
\* resent to the others, sets its timer.
HeardFrom(datagram) ==
    clients' = IF datagram.kind \in {"a", "m"} THEN Put(clients, datagram.from, 0)
               ELSE clients

\* One wake-up, one datagram.
Receive ==
    /\ ~crashed /\ ready /\ socket # <<>>
    /\ ready' = FALSE /\ socket' = Tail(socket)
    /\ IF Head(socket).from \in DOMAIN clients THEN HeardFrom(Head(socket))
       ELSE add_new_client(Head(socket))
    /\ UNCHANGED <<phase, due, check_due, crashed, lost, crowded>>

\* Mutant of Expired: half the time is enough.
Expired_Half(c) == clients[c] >= Half

Expired(c) == clients[c] > Limit

\* Mutant of NextCheck: the timer has no interval.
NextCheck_Once == -1

NextCheck == Half

\* The timer fires: the clients that have expired are erased.  The name that
\* is printed is read through the iterator that erase returned, the next
\* client's; behind the last client, and any may be the last, that is end():
\* the process crashes, or prints what it finds.
Check ==
    LET expired == {c \in DOMAIN clients : Expired(c)}
    IN  /\ ~crashed /\ check_due = 0
        /\ check_due' = NextCheck
        /\ IF expired # {} THEN crashed' \in BOOLEAN ELSE UNCHANGED crashed
        /\ clients' = [c \in DOMAIN clients \ expired |-> clients[c]]
        /\ UNCHANGED <<phase, due, socket, ready, lost, crowded>>

-----------------------------------------------------------------------------
(***************************************************************************)
(* Time passes when every timer that is due has fired and the server has   *)
(* answered its wake-ups: both take far less than a unit.                  *)
(***************************************************************************)
Elapse ==
    /\ \A c \in Client : phase[c] = "running" => due[c] > 0
    /\ ~crashed => ~ready /\ check_due # 0
    /\ due' = [c \in Client |-> IF phase[c] = "running" THEN due[c] - 1 ELSE due[c]]
    /\ check_due' = IF check_due > 0 THEN check_due - 1 ELSE check_due
    /\ clients' = [c \in DOMAIN clients |-> Older(clients[c])]
    /\ UNCHANGED <<phase, socket, ready, crashed, lost, crowded>>

Next ==
    \/ \E c \in Client : Start(c) \/ KeepAlive(c) \/ Say(c) \/ Stop(c)
    \/ Receive
    \/ Check
    \/ Elapse

Spec == Init /\ [][Next]_vars

(***************************************************************************)
(* Fairness: time goes on, and timers fire.  A player may type so much     *)
(* that a wake-up is always pending, so the server's steps are fair too    *)
(* and time is only assumed to pass again and again.                       *)
(***************************************************************************)
FairSpec ==
    /\ Spec
    /\ WF_vars(Receive) /\ WF_vars(Check) /\ SF_vars(Elapse)
    /\ \A c \in Client : WF_vars(KeepAlive(c))

-----------------------------------------------------------------------------
(***************************************************************************)
(* Properties.                                                             *)
(***************************************************************************)

\* Types; and a wake-up is only pending while there is something to read.
TypeOK ==
    /\ phase \in [Client -> {"new", "running", "gone"}]
    /\ due \in [Client -> 0 .. Half]
    /\ socket \in Seq(Datagram) /\ Len(socket) <= MaxQueue
    /\ ready \in BOOLEAN /\ (ready => socket # <<>>)
    /\ IsTable(clients, Client, 0 .. Limit + 1)
    /\ check_due \in 0 .. Half
    /\ crashed \in BOOLEAN
    /\ lost \in BOOLEAN /\ crowded \in BOOLEAN

Introduced(c) ==
    phase[c] = "running" /\ \A n \in DOMAIN socket : socket[n] # [from |-> c, kind |-> "n"]

\* As long as every datagram arrives and is read before the next one comes,
\* a client that has introduced itself and is running is never forgotten.
PromptlyKept ==
    ~lost /\ ~crowded => \A c \in Client : Introduced(c) => c \in DOMAIN clients

\* A client that stopped without a word is forgotten in the end, whatever of
\* its datagrams is still found in the socket, unless the server crashes.
DeadForgotten ==
    \A c \in Client : phase[c] = "gone" ~> (c \notin DOMAIN clients \/ crashed)
=============================================================================
