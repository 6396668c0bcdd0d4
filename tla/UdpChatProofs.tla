---------------------------- MODULE UdpChatProofs ----------------------------
(***************************************************************************)
(* Proofs about UdpChat for every finite set of clients, every timeout and *)
(* every size of the socket: types, and that nobody is forgotten while     *)
(* datagrams arrive and are read in time.                                  *)
(***************************************************************************)
EXTENDS UdpChat, TLAPS

Ages == 0 .. Limit + 1

\* Lemmas about tables and the socket.
LEMMA PutAge ==
    ASSUME NEW c \in Client, IsTable(clients, Client, Ages), clients' = Put(clients, c, 0)
    PROVE  /\ IsTable(clients', Client, Ages)
           /\ DOMAIN clients' = DOMAIN clients \cup {c}
           /\ clients'[c] = 0
           /\ \A d \in DOMAIN clients : d # c => clients'[d] = clients[d]
  <1>1. 0 \in Ages
    BY ChatAssumption DEF Ages, Limit
  <1>2. clients' = [x \in DOMAIN clients \cup {c} |-> IF x = c THEN 0 ELSE clients[x]]
    BY DEF Put
  <1> QED
    BY <1>1, <1>2 DEF IsTable

LEMMA AgeNumbers ==
    /\ Half \in Nat /\ Half > 0 /\ Limit \in Nat /\ Limit = 2 * Half
    /\ \A age \in Ages : age \in Nat /\ Older(age) \in Ages
    /\ \A age \in Ages : age <= Half => Older(age) = age + 1 /\ ~(age > Limit)
  <1>1. Half \in Nat /\ Half > 0 /\ Limit \in Nat /\ Limit = 2 * Half
    BY ChatAssumption DEF Limit
  <1>2. ASSUME NEW age \in Ages
        PROVE  /\ age \in Nat /\ Older(age) \in Ages
               /\ age <= Half => Older(age) = age + 1 /\ ~(age > Limit)
    BY <1>1 DEF Ages, Older
  <1> QED
    BY <1>1, <1>2

-----------------------------------------------------------------------------
(***************************************************************************)
(* Types.                                                                  *)
(***************************************************************************)

\* Sending, to a socket that is not full or to nowhere.
LEMMA SendTypes ==
    ASSUME TypeOK, NEW c \in Client, NEW kind \in Kinds, Send(c, kind)
    PROVE  /\ socket' \in Seq(Datagram) /\ Len(socket') <= MaxQueue
           /\ ready' \in BOOLEAN /\ (ready' => socket' # <<>>)
           /\ lost' \in BOOLEAN /\ crowded' \in BOOLEAN
  <1>1. CASE /\ Len(socket) < MaxQueue
             /\ socket' = Append(socket, [from |-> c, kind |-> kind])
             /\ ready' = TRUE /\ crowded' = (crowded \/ socket # <<>>) /\ lost' = lost
    <2> DEFINE datagram == [from |-> c, kind |-> kind]
    <2>1. datagram \in Datagram
      BY DEF Datagram
    <2>2. socket' = Append(socket, datagram)
      BY <1>1
    <2> HIDE DEF datagram
    <2>3. socket \in Seq(Datagram) /\ lost \in BOOLEAN /\ crowded \in BOOLEAN
      BY DEF TypeOK
    <2>4. socket' \in Seq(Datagram) /\ Len(socket') = Len(socket) + 1 /\ Len(socket) \in Nat
      BY <2>1, <2>2, <2>3
    <2>5. socket' # <<>> /\ Len(socket') <= MaxQueue
      BY <1>1, <2>4, ChatAssumption
    <2> QED
      BY <1>1, <2>3, <2>4, <2>5
  <1>2. CASE lost' = TRUE /\ socket' = socket /\ ready' = ready /\ crowded' = crowded
    BY <1>2 DEF TypeOK
  <1> QED
    BY <1>1, <1>2 DEF Send

LEMMA ReceiveTypes ==
    ASSUME TypeOK, Receive
    PROVE  /\ Head(socket) \in Datagram /\ Head(socket).from \in Client
           /\ socket' \in Seq(Datagram) /\ Len(socket') = Len(socket) - 1 /\ Len(socket) \in Nat
           /\ clients' = clients \/ clients' = Put(clients, Head(socket).from, 0)
           /\ IsTable(clients', Client, Ages)
  <1>1. socket \in Seq(Datagram) /\ socket # <<>> /\ socket' = Tail(socket)
    BY DEF TypeOK, Receive
  <1>2. Head(socket) \in Datagram /\ socket' \in Seq(Datagram) /\ Len(socket') = Len(socket) - 1
        /\ Len(socket) \in Nat
    BY <1>1
  <1>3. Head(socket).from \in Client
    BY <1>2 DEF Datagram
  <1>4. clients' = clients \/ clients' = Put(clients, Head(socket).from, 0)
    BY DEF Receive, HeardFrom, add_new_client
  <1>5. IsTable(clients, Client, Ages)
    BY DEF TypeOK, Ages
  <1>6. IsTable(clients', Client, Ages)
    BY <1>3, <1>4, <1>5, PutAge
  <1> QED
    BY <1>2, <1>3, <1>4, <1>6

LEMMA TypesStep ==
    ASSUME TypeOK, [Next]_vars
    PROVE  TypeOK'
  <1>1. IsTable(clients, Client, Ages) /\ Half \in Nat /\ Half > 0
    BY AgeNumbers DEF TypeOK, Ages
  <1>2. ASSUME NEW c \in Client, Start(c) PROVE TypeOK'
    <2>1. "n" \in Kinds /\ Send(c, "n")
      BY <1>2 DEF Start, Kinds
    <2>2. due' \in [Client -> 0 .. Half] /\ phase' \in [Client -> {"new", "running", "gone"}]
      BY <1>1, <1>2 DEF TypeOK, Start
    <2> QED
      BY <1>2, <2>1, <2>2, SendTypes DEF TypeOK, Start, ServerKeeps
  <1>3. ASSUME NEW c \in Client, KeepAlive(c) PROVE TypeOK'
    <2>1. "a" \in Kinds /\ Send(c, "a")
      BY <1>3 DEF KeepAlive, Kinds
    <2>2. due' \in [Client -> 0 .. Half]
      BY <1>1, <1>3 DEF TypeOK, KeepAlive
    <2> QED
      BY <1>3, <2>1, <2>2, SendTypes DEF TypeOK, KeepAlive, ServerKeeps
  <1>4. ASSUME NEW c \in Client, Say(c) PROVE TypeOK'
    <2>1. "m" \in Kinds /\ Send(c, "m")
      BY <1>4 DEF Say, Kinds
    <2> QED
      BY <1>4, <2>1, SendTypes DEF TypeOK, Say, ServerKeeps
  <1>5. ASSUME NEW c \in Client, Stop(c) PROVE TypeOK'
    BY <1>5 DEF TypeOK, Stop, ServerKeeps
  <1>6. CASE Receive
    <2>1. ready' = FALSE /\ Len(socket') <= MaxQueue
      BY <1>6, ReceiveTypes, ChatAssumption DEF TypeOK, Receive
    <2> QED
      BY <1>6, <2>1, ReceiveTypes DEF TypeOK, Receive, Ages
  <1>7. CASE Check
    <2> DEFINE expired == {c \in DOMAIN clients : Expired(c)}
    <2>1. check_due' \in 0 .. Half
      BY <1>1, <1>7 DEF Check, NextCheck
    <2>2. crashed' \in BOOLEAN
      BY <1>7 DEF TypeOK, Check
    <2>3. clients' = [c \in DOMAIN clients \ expired |-> clients[c]]
      BY <1>7 DEF Check
    <2> HIDE DEF expired
    <2>4. IsTable(clients', Client, Ages)
      BY <1>1, <2>3 DEF IsTable
    <2> QED
      BY <1>7, <2>1, <2>2, <2>4 DEF TypeOK, Check, Ages
  <1>8. CASE Elapse
    <2>1. due' \in [Client -> 0 .. Half]
      <3>1. \A c \in Client : due[c] \in 0 .. Half
        BY DEF TypeOK
      <3>2. \A c \in Client : phase[c] = "running" => due[c] > 0
        BY <1>8 DEF Elapse
      <3>3. \A c \in Client : (IF phase[c] = "running" THEN due[c] - 1 ELSE due[c]) \in 0 .. Half
        BY <1>1, <3>1, <3>2
      <3> QED
        BY <1>8, <3>3 DEF Elapse
    <2>2. check_due' \in 0 .. Half
      BY <1>1, <1>8 DEF TypeOK, Elapse
    <2>3. IsTable(clients', Client, Ages)
      <3>1. clients' = [c \in DOMAIN clients |-> Older(clients[c])]
        BY <1>8 DEF Elapse
      <3>2. \A c \in DOMAIN clients : c \in Client /\ clients[c] \in Ages
        BY <1>1 DEF IsTable
      <3>3. \A c \in DOMAIN clients : Older(clients[c]) \in Ages
        BY <3>2, AgeNumbers
      <3> QED
        BY <3>1, <3>2, <3>3 DEF IsTable
    <2> QED
      BY <1>8, <2>1, <2>2, <2>3 DEF TypeOK, Elapse, Ages
  <1>9. CASE UNCHANGED vars
    BY <1>9 DEF TypeOK, vars
  <1> QED
    BY <1>2, <1>3, <1>4, <1>5, <1>6, <1>7, <1>8, <1>9 DEF Next

LEMMA InitTypes == Init => TypeOK
  <1> SUFFICES ASSUME Init PROVE TypeOK
    OBVIOUS
  <1>1. socket \in Seq(Datagram) /\ Len(socket) <= MaxQueue
    BY ChatAssumption DEF Init
  <1>2. IsTable(clients, Client, 0 .. Limit + 1)
    BY DEF Init, IsTable, NoEntries
  <1>3. due \in [Client -> 0 .. Half] /\ check_due \in 0 .. Half
    BY AgeNumbers DEF Init
  <1> QED
    BY <1>1, <1>2, <1>3 DEF Init, TypeOK

\* Whatever is lost, a wake-up is pending only while there is something to
\* read, and no timer is late.
THEOREM UdpTypes == Spec => []TypeOK
  <1>1. Init => TypeOK
    BY InitTypes
  <1>2. TypeOK /\ [Next]_vars => TypeOK'
    BY TypesStep
  <1> QED
    BY <1>1, <1>2, PTL DEF Spec

-----------------------------------------------------------------------------
(***************************************************************************)
(* As long as every datagram arrives and is read before the next one.      *)
(***************************************************************************)
Prompt == ~lost /\ ~crowded

\* The only datagram in the socket is one of c, of that kind.
Holds(c, kind) == socket # <<>> /\ Head(socket) = [from |-> c, kind |-> kind]

\* The socket holds one datagram, and the server has been woken for it.
OneDatagram == Len(socket) <= 1 /\ (socket # <<>> => ready)

\* A client that has not started is not known and has sent nothing.
Unheard(c) ==
    phase[c] = "new" => c \notin DOMAIN clients /\ \A kind \in Kinds : ~Holds(c, kind)

\* The keep-alive of a client comes when its timer has run for half the time
\* at most.
OnTime(c) ==
    \/ clients[c] + due[c] <= Half
    \/ clients[c] <= Half /\ Holds(c, "a")

\* A running client is about to be introduced, or it is known and on time.
Remembered(c) ==
    phase[c] = "running" =>
        /\ Holds(c, "n") => c \notin DOMAIN clients
        /\ c \notin DOMAIN clients => Holds(c, "n")
        /\ Holds(c, "n") /\ ~crashed => due[c] = Half
        /\ c \in DOMAIN clients /\ ~crashed => OnTime(c)

KeptInv == Prompt => OneDatagram /\ \A c \in Client : Unheard(c) /\ Remembered(c)

\* A datagram that arrives while everything is prompt finds the socket empty.
LEMMA PromptSend ==
    ASSUME TypeOK, KeptInv, NEW c \in Client, NEW kind \in Kinds, Send(c, kind), Prompt'
    PROVE  /\ Prompt /\ socket = <<>> /\ OneDatagram'
           /\ socket' # <<>> /\ Head(socket') = [from |-> c, kind |-> kind]
  <1>1. ~lost' /\ ~crowded'
    BY DEF Prompt
  <1>2. /\ socket' = Append(socket, [from |-> c, kind |-> kind])
        /\ ready' = TRUE /\ crowded' = (crowded \/ socket # <<>>) /\ lost' = lost
    BY <1>1, Zenon DEF Send
  <1>3. Prompt /\ socket = <<>>
    BY <1>1, <1>2 DEF Prompt
  <1>4. socket' = <<[from |-> c, kind |-> kind]>>
    BY <1>2, <1>3
  <1> QED
    BY <1>2, <1>3, <1>4 DEF OneDatagram

\* Different datagrams are told apart.
LEMMA HoldsOne ==
    ASSUME NEW c, NEW d, NEW k, NEW l, Holds(c, k), Holds(d, l)
    PROVE  c = d /\ k = l
  BY DEF Holds

\* The other clients, when one sends: their datagrams were not in the socket.
LEMMA OthersKept ==
    ASSUME TypeOK, KeptInv, NEW c \in Client, NEW kind \in Kinds, Send(c, kind), Prompt',
           ServerKeeps, NEW d \in Client, d # c, phase'[d] = phase[d], due'[d] = due[d]
    PROVE  Unheard(d)' /\ Remembered(d)'
  <1>1. /\ Prompt /\ socket = <<>>
        /\ Head(socket') = [from |-> c, kind |-> kind]
    BY PromptSend
  <1>2. Unheard(d) /\ Remembered(d)
    BY <1>1 DEF KeptInv
  <1>3. \A k : ~Holds(d, k) /\ ~Holds(d, k)'
    BY <1>1 DEF Holds
  <1>4. clients' = clients /\ crashed' = crashed
    BY DEF ServerKeeps
  <1> QED
    BY <1>2, <1>3, <1>4 DEF Unheard, Remembered, OnTime

LEMMA StartKept ==
    ASSUME TypeOK, KeptInv, NEW c \in Client, Start(c), Prompt'
    PROVE  OneDatagram' /\ \A d \in Client : Unheard(d)' /\ Remembered(d)'
  <1>1. "n" \in Kinds /\ Send(c, "n") /\ ServerKeeps /\ phase[c] = "new"
    BY DEF Start, Kinds
  <1>2. /\ phase' = [phase EXCEPT ![c] = "running"] /\ due' = [due EXCEPT ![c] = Half]
        /\ phase \in [Client -> {"new", "running", "gone"}] /\ due \in [Client -> 0 .. Half]
    BY DEF Start, TypeOK
  <1>3. /\ Prompt /\ socket = <<>> /\ OneDatagram'
        /\ socket' # <<>> /\ Head(socket') = [from |-> c, kind |-> "n"]
    BY <1>1, PromptSend
  <1>4. ASSUME NEW d \in Client, d # c PROVE Unheard(d)' /\ Remembered(d)'
    BY <1>1, <1>2, <1>4, OthersKept
  <1>5. c \notin DOMAIN clients /\ clients' = clients
    BY <1>1, <1>3 DEF KeptInv, Unheard, ServerKeeps
  <1>6. Unheard(c)' /\ Remembered(c)'
    BY <1>2, <1>3, <1>5 DEF Unheard, Remembered, Holds
  <1> QED
    BY <1>3, <1>4, <1>6

LEMMA KeepAliveKept ==
    ASSUME TypeOK, KeptInv, NEW c \in Client, KeepAlive(c), Prompt'
    PROVE  OneDatagram' /\ \A d \in Client : Unheard(d)' /\ Remembered(d)'
  <1>1. /\ "a" \in Kinds /\ Send(c, "a") /\ ServerKeeps
        /\ phase[c] = "running" /\ due[c] = 0 /\ phase' = phase
    BY DEF KeepAlive, Kinds
  <1>2. due' = [due EXCEPT ![c] = Half] /\ due \in [Client -> 0 .. Half]
    BY DEF KeepAlive, TypeOK
  <1>3. /\ Prompt /\ socket = <<>> /\ OneDatagram'
        /\ socket' # <<>> /\ Head(socket') = [from |-> c, kind |-> "a"]
    BY <1>1, PromptSend
  <1>4. ASSUME NEW d \in Client, d # c PROVE Unheard(d)' /\ Remembered(d)'
    BY <1>1, <1>2, <1>4, OthersKept
  <1>5. clients' = clients /\ crashed' = crashed /\ Remembered(c)
    BY <1>1, <1>3 DEF KeptInv, ServerKeeps
  <1>6. \A k : ~Holds(c, k)
    BY <1>3 DEF Holds
  <1>7. c \in DOMAIN clients /\ (~crashed => clients[c] <= Half)
    <2>1. c \in DOMAIN clients /\ (~crashed => clients[c] + due[c] <= Half)
      BY <1>1, <1>5, <1>6 DEF Remembered, OnTime
    <2>2. clients[c] \in Ages
      BY <2>1 DEF TypeOK, IsTable, Ages
    <2>3. clients[c] \in Nat
      BY <2>2, AgeNumbers
    <2> QED
      BY <1>1, <2>1, <2>3
  <1>8. Holds(c, "a")' /\ ~Holds(c, "n")'
    BY <1>3 DEF Holds
  <1>9. Unheard(c)' /\ Remembered(c)'
    BY <1>1, <1>5, <1>7, <1>8 DEF Unheard, Remembered, OnTime
  <1> QED
    BY <1>3, <1>4, <1>9

LEMMA SayKept ==
    ASSUME TypeOK, KeptInv, NEW c \in Client, Say(c), Prompt'
    PROVE  OneDatagram' /\ \A d \in Client : Unheard(d)' /\ Remembered(d)'
  <1>1. /\ "m" \in Kinds /\ Send(c, "m") /\ ServerKeeps
        /\ phase[c] = "running" /\ phase' = phase /\ due' = due
    BY DEF Say, Kinds
  <1>2. /\ Prompt /\ socket = <<>> /\ OneDatagram'
        /\ socket' # <<>> /\ Head(socket') = [from |-> c, kind |-> "m"]
    BY <1>1, PromptSend
  <1>3. ASSUME NEW d \in Client, d # c PROVE Unheard(d)' /\ Remembered(d)'
    BY <1>1, <1>3, OthersKept
  <1>4. clients' = clients /\ crashed' = crashed /\ Remembered(c)
    BY <1>1, <1>2 DEF KeptInv, ServerKeeps
  <1>5. \A k : ~Holds(c, k)
    BY <1>2 DEF Holds
  <1>6. ~Holds(c, "n")' /\ ~Holds(c, "a")'
    BY <1>2 DEF Holds
  <1>7. Unheard(c)' /\ Remembered(c)'
    BY <1>1, <1>4, <1>5, <1>6 DEF Unheard, Remembered, OnTime
  <1> QED
    BY <1>2, <1>3, <1>7

LEMMA StopKept ==
    ASSUME TypeOK, KeptInv, NEW c \in Client, Stop(c), Prompt'
    PROVE  OneDatagram' /\ \A d \in Client : Unheard(d)' /\ Remembered(d)'
  <1>1. /\ phase' = [phase EXCEPT ![c] = "gone"] /\ due' = due /\ socket' = socket
        /\ ready' = ready /\ clients' = clients /\ crashed' = crashed
        /\ lost' = lost /\ crowded' = crowded
    BY DEF Stop, ServerKeeps
  <1>2. OneDatagram /\ \A d \in Client : Unheard(d) /\ Remembered(d)
    BY <1>1 DEF KeptInv, Prompt
  <1>3. \A d \in Client : d # c => phase'[d] = phase[d]
    BY <1>1 DEF TypeOK
  <1>4. phase'[c] = "gone"
    BY <1>1 DEF TypeOK
  <1>5. ASSUME NEW d \in Client PROVE Unheard(d)' /\ Remembered(d)'
    <2>1. CASE d = c
      BY <1>4, <2>1 DEF Unheard, Remembered
    <2>2. CASE d # c
      BY <1>1, <1>2, <1>3, <2>2 DEF Unheard, Remembered, Holds, OnTime
    <2> QED
      BY <2>1, <2>2
  <1> QED
    BY <1>1, <1>2, <1>5 DEF OneDatagram

LEMMA ReceiveKept ==
    ASSUME TypeOK, KeptInv, Receive, Prompt'
    PROVE  OneDatagram' /\ \A d \in Client : Unheard(d)' /\ Remembered(d)'
  <1>1. /\ ~crashed /\ crashed' = crashed /\ socket # <<>> /\ phase' = phase /\ due' = due
        /\ lost' = lost /\ crowded' = crowded
    BY DEF Receive
  <1>2. OneDatagram /\ \A d \in Client : Unheard(d) /\ Remembered(d)
    BY <1>1 DEF KeptInv, Prompt
  <1>3. socket' = <<>>
    BY <1>2, ReceiveTypes DEF OneDatagram
  <1>4. PICK f \in Client, k \in Kinds : Head(socket) = [from |-> f, kind |-> k]
    BY ReceiveTypes DEF Datagram
  <1>5. Head(socket).from = f /\ Head(socket).kind = k /\ Holds(f, k)
    BY <1>1, <1>4 DEF Holds
  <1>6. IsTable(clients, Client, Ages) /\ due \in [Client -> 0 .. Half] /\ Half \in Nat
    BY AgeNumbers DEF TypeOK, Ages
  <1>7. clients' = clients \/ clients' = Put(clients, f, 0)
    BY <1>5, ReceiveTypes
  <1>8. ASSUME NEW d \in Client, d # f PROVE Unheard(d)' /\ Remembered(d)'
    <2>1. \A l : ~Holds(d, l) /\ ~Holds(d, l)'
      BY <1>3, <1>5, <1>8, HoldsOne DEF Holds
    <2>2. /\ d \in DOMAIN clients' <=> d \in DOMAIN clients
          /\ d \in DOMAIN clients => clients'[d] = clients[d]
      BY <1>6, <1>7, <1>8, PutAge
    <2> QED
      BY <1>1, <1>2, <2>1, <2>2 DEF Unheard, Remembered, OnTime
  <1>9. Unheard(f)' /\ Remembered(f)'
    <2>1. phase[f] # "new"
      BY <1>2, <1>5 DEF Unheard
    <2>2. \A l : ~Holds(f, l)'
      BY <1>3 DEF Holds
    <2>3. ASSUME phase[f] = "running" PROVE clients' = Put(clients, f, 0)
      <3>1. CASE k = "n"
        <4>1. f \notin DOMAIN clients
          BY <1>2, <1>5, <2>3, <3>1 DEF Remembered
        <4> QED
          BY <1>5, <3>1, <4>1 DEF Receive, add_new_client
      <3>2. CASE k # "n"
        <4>1. ~Holds(f, "n")
          BY <1>5, <3>2, HoldsOne
        <4>2. f \in DOMAIN clients /\ k \in {"a", "m"}
          BY <1>2, <2>3, <3>2, <4>1 DEF Remembered, Kinds
        <4> QED
          BY <1>5, <4>2 DEF Receive, HeardFrom
      <3> QED
        BY <3>1, <3>2
    <2>4. ASSUME phase[f] = "running"
          PROVE  f \in DOMAIN clients' /\ clients'[f] + due'[f] <= Half
      <3>1. f \in DOMAIN clients' /\ clients'[f] = 0
        BY <1>6, <2>3, <2>4, PutAge
      <3>2. due'[f] \in 0 .. Half
        BY <1>1, <1>6
      <3> QED
        BY <1>6, <3>1, <3>2
    <2> QED
      BY <1>1, <2>1, <2>2, <2>4 DEF Unheard, Remembered, OnTime
  <1>10. OneDatagram'
    BY <1>3 DEF OneDatagram
  <1> QED
    BY <1>8, <1>9, <1>10

LEMMA CheckKept ==
    ASSUME TypeOK, KeptInv, Check, Prompt'
    PROVE  OneDatagram' /\ \A d \in Client : Unheard(d)' /\ Remembered(d)'
  <1> DEFINE expired == {c \in DOMAIN clients : Expired(c)}
  <1>1. /\ ~crashed /\ phase' = phase /\ due' = due /\ socket' = socket /\ ready' = ready
        /\ lost' = lost /\ crowded' = crowded
        /\ clients' = [c \in DOMAIN clients \ expired |-> clients[c]]
    BY DEF Check
  <1>2. \A d \in DOMAIN clients : d \in expired => clients[d] > Limit
    BY DEF Expired
  <1> HIDE DEF expired
  <1>3. OneDatagram /\ \A d \in Client : Unheard(d) /\ Remembered(d)
    BY <1>1 DEF KeptInv, Prompt
  <1>4. ASSUME NEW d \in Client, phase[d] = "running", d \in DOMAIN clients
        PROVE  d \in DOMAIN clients' /\ clients'[d] = clients[d]
    <2>1. OnTime(d)
      BY <1>1, <1>3, <1>4 DEF Remembered
    <2>2. clients[d] \in Ages /\ due[d] \in 0 .. Half
      BY <1>4 DEF TypeOK, IsTable, Ages
    <2>3. clients[d] <= Half
      BY <2>1, <2>2, AgeNumbers DEF OnTime
    <2>4. ~(clients[d] > Limit)
      BY <2>2, <2>3, AgeNumbers
    <2> QED
      BY <1>1, <1>2, <1>4, <2>4
  <1>5. \A d \in DOMAIN clients' : d \in DOMAIN clients
    BY <1>1
  <1>6. ASSUME NEW d \in Client PROVE Unheard(d)' /\ Remembered(d)'
    <2>1. \A l : Holds(d, l)' <=> Holds(d, l)
      BY <1>1 DEF Holds
    <2>2. Unheard(d)'
      BY <1>1, <1>3, <1>5, <2>1 DEF Unheard
    <2>3. Remembered(d)'
      BY <1>1, <1>3, <1>4, <1>5, <2>1 DEF Remembered, OnTime
    <2> QED
      BY <2>2, <2>3
  <1> QED
    BY <1>1, <1>3, <1>6 DEF OneDatagram

LEMMA ElapseKept ==
    ASSUME TypeOK, KeptInv, Elapse, Prompt'
    PROVE  OneDatagram' /\ \A d \in Client : Unheard(d)' /\ Remembered(d)'
  <1>1. /\ \A d \in Client : phase[d] = "running" => due[d] > 0 /\ due'[d] = due[d] - 1
        /\ clients' = [c \in DOMAIN clients |-> Older(clients[c])]
        /\ ~crashed => ~ready
        /\ phase' = phase /\ socket' = socket /\ ready' = ready /\ crashed' = crashed
        /\ lost' = lost /\ crowded' = crowded
    BY DEF Elapse
  <1>2. OneDatagram /\ \A d \in Client : Unheard(d) /\ Remembered(d)
    BY <1>1 DEF KeptInv, Prompt
  <1>3. ASSUME NEW d \in Client PROVE Unheard(d)' /\ Remembered(d)'
    <2>1. \A l : Holds(d, l)' <=> Holds(d, l)
      BY <1>1 DEF Holds
    <2>2. Unheard(d)'
      BY <1>1, <1>2, <2>1 DEF Unheard
    <2>3. ASSUME ~crashed PROVE \A l : ~Holds(d, l)
      BY <1>1, <1>2, <2>3 DEF OneDatagram, Holds
    <2>4. ASSUME phase[d] = "running", d \in DOMAIN clients, ~crashed
          PROVE  clients'[d] + due'[d] <= Half
      <3>1. clients[d] + due[d] <= Half
        BY <1>2, <2>3, <2>4 DEF Remembered, OnTime
      <3>2. clients[d] \in Ages /\ due[d] \in Int /\ due[d] > 0 /\ due'[d] = due[d] - 1
        BY <1>1, <2>4 DEF TypeOK, IsTable, Ages
      <3>3. clients[d] \in Nat /\ clients[d] <= Half
        BY <3>1, <3>2, AgeNumbers
      <3>4. clients'[d] = clients[d] + 1
        BY <1>1, <2>4, <3>2, <3>3, AgeNumbers
      <3> QED
        BY <3>1, <3>2, <3>3, <3>4
    <2>5. Remembered(d)'
      BY <1>1, <1>2, <2>1, <2>3, <2>4 DEF Remembered, OnTime
    <2> QED
      BY <2>2, <2>5
  <1> QED
    BY <1>1, <1>2, <1>3 DEF OneDatagram

LEMMA KeptStep ==
    ASSUME TypeOK, KeptInv, [Next]_vars
    PROVE  KeptInv'
  <1> SUFFICES ASSUME Prompt'
               PROVE  OneDatagram' /\ \A d \in Client : Unheard(d)' /\ Remembered(d)'
    BY DEF KeptInv
  <1>1. ASSUME NEW c \in Client, Start(c)
        PROVE  OneDatagram' /\ \A d \in Client : Unheard(d)' /\ Remembered(d)'
    BY <1>1, StartKept
  <1>2. ASSUME NEW c \in Client, KeepAlive(c)
        PROVE  OneDatagram' /\ \A d \in Client : Unheard(d)' /\ Remembered(d)'
    BY <1>2, KeepAliveKept
  <1>3. ASSUME NEW c \in Client, Say(c)
        PROVE  OneDatagram' /\ \A d \in Client : Unheard(d)' /\ Remembered(d)'
    BY <1>3, SayKept
  <1>4. ASSUME NEW c \in Client, Stop(c)
        PROVE  OneDatagram' /\ \A d \in Client : Unheard(d)' /\ Remembered(d)'
    BY <1>4, StopKept
  <1>5. CASE Receive
    BY <1>5, ReceiveKept
  <1>6. CASE Check
    BY <1>6, CheckKept
  <1>7. CASE Elapse
    BY <1>7, ElapseKept
  <1>8. CASE UNCHANGED vars
    BY <1>8 DEF KeptInv, Prompt, OneDatagram, Unheard, Remembered, OnTime, Holds, vars
  <1> QED
    BY <1>1, <1>2, <1>3, <1>4, <1>5, <1>6, <1>7, <1>8 DEF Next

\* Whatever the clients do and whenever they stop, one that runs is never
\* forgotten as long as every datagram arrives and is read in time.
THEOREM RunningKept == Spec => []PromptlyKept
  <1>1. Init => TypeOK /\ KeptInv
    <2>1. Init => KeptInv
      BY DEF Init, KeptInv, OneDatagram, Unheard, Remembered, Holds, NoEntries
    <2> QED
      BY <2>1, InitTypes
  <1>2. TypeOK /\ KeptInv /\ [Next]_vars => TypeOK' /\ KeptInv'
    BY TypesStep, KeptStep
  <1>3. TypeOK /\ KeptInv => PromptlyKept
    <2> SUFFICES ASSUME TypeOK, KeptInv, Prompt, NEW c \in Client, Introduced(c)
                 PROVE  c \in DOMAIN clients
      BY DEF PromptlyKept, Prompt
    <2>1. Remembered(c) /\ phase[c] = "running"
      BY DEF KeptInv, Introduced
    <2>2. ~Holds(c, "n")
      <3>1. socket \in Seq(Datagram)
        BY DEF TypeOK
      <3>2. socket # <<>> => 1 \in DOMAIN socket /\ Head(socket) = socket[1]
        BY <3>1
      <3> QED
        BY <3>2 DEF Introduced, Holds
    <2> QED
      BY <2>1, <2>2 DEF Remembered
  <1> QED
    BY <1>1, <1>2, <1>3, PTL DEF Spec
=============================================================================
