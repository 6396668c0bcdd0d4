----------------------------- MODULE ServerLoop -----------------------------
(***************************************************************************)
(* The loop of GameServer::Run in time.  enet_host_service waits up to 100 *)
(* ms for an event; as long as events come in time the inner loop goes on, *)
(* and only a full wait without any lets the outer one advance the world,  *)
(* look at SIGTERM's flag, or leave when nobody plays and the server is    *)
(* old.  What the events do to the world is in GameServer.                 *)
(***************************************************************************)
EXTENDS Integers, FiniteSets

CONSTANTS
    Peer,       \* the processes that may connect
    Wait,       \* the 100 ms of enet_host_service, in units of time
    Lifetime,   \* the 3000 s after which an empty server leaves
    MaxBurst    \* bound: events of a peer before it pauses

ASSUME LoopAssumption ==
    Wait \in Nat \ {0} /\ Lifetime \in Nat /\ MaxBurst \in Nat \ {0}

VARIABLES
    working_flag,
    in_loop,    \* Run has not returned
    age,        \* time since start, up to Lifetime + 1
    waited,     \* time enet_host_service has been waiting
    connected,  \* the peers with a connection
    clients,    \* the peers that have introduced themselves
    silent,     \* silent[p]: time since p's last event, up to Pause
    burst,      \* burst[p]: events of p since it last was silent for Pause
    ticked      \* the last step advanced the world

\* A pause that the server notices is longer than its wait.
Pause == Wait + 1

vars == <<working_flag, in_loop, age, waited, connected, clients, silent, burst, ticked>>
peerVars == <<connected, clients, silent, burst>>

Init ==
    /\ working_flag = TRUE /\ in_loop = TRUE
    /\ age = 0 /\ waited = 0
    /\ connected = {} /\ clients = {}
    /\ silent = [p \in Peer |-> Pause]
    /\ burst = [p \in Peer |-> 0]
    /\ ticked = FALSE

\* An event of p in the inner loop: the next wait begins.
Event(p) ==
    /\ in_loop /\ burst[p] < MaxBurst
    /\ waited' = 0
    /\ silent' = [silent EXCEPT ![p] = 0]
    /\ burst' = [burst EXCEPT ![p] = @ + 1]
    /\ ticked' = FALSE
    /\ UNCHANGED <<working_flag, in_loop, age>>

Connect(p) ==
    /\ p \notin connected /\ connected' = connected \cup {p}
    /\ Event(p) /\ UNCHANGED clients

\* ClientAbout.
Introduce(p) ==
    /\ p \in connected /\ clients' = clients \cup {p}
    /\ Event(p) /\ UNCHANGED connected

\* MousePosition, ClientAnswer or ChatMessage.
Message(p) ==
    p \in clients /\ Event(p) /\ UNCHANGED <<connected, clients>>

Disconnect(p) ==
    /\ p \in connected /\ connected' = connected \ {p}
    /\ clients' = clients \ {p}
    /\ Event(p)

\* SIGTERM, which interrupts no wait.
Terminate ==
    /\ in_loop /\ working_flag
    /\ working_flag' = FALSE /\ ticked' = FALSE
    /\ UNCHANGED <<in_loop, age, waited, peerVars>>

Upto(limit, n) == IF n < limit THEN n + 1 ELSE limit

\* A unit of time; a peer that has been silent for a Pause may send again.
Elapse ==
    /\ in_loop /\ waited < Wait
    /\ age' = Upto(Lifetime + 1, age)
    /\ waited' = waited + 1
    /\ silent' = [p \in Peer |-> Upto(Pause, silent[p])]
    /\ burst' = [p \in Peer |-> IF silent'[p] = Pause THEN 0 ELSE burst[p]]
    /\ ticked' = FALSE
    /\ UNCHANGED <<working_flag, in_loop, connected, clients>>

\* Mutant of Leaves: SIGTERM is left to the age.
Leaves_NoFlag == clients = {} /\ age > Lifetime

\* Mutant of Leaves: only the flag is looked at, and the code sets one that
\* shadows it.
Leaves_Shadowed == ~working_flag

\* Whether Run returns: it is found old and empty, or terminated.
Leaves == (clients = {} /\ age > Lifetime) \/ ~working_flag

\* Mutant of Advances: the age is looked at first.
Advances_Young == clients # {} /\ age <= Lifetime

\* Whether the world is advanced.
Advances == clients # {}

\* The wait ends without an event.
Quiet ==
    /\ in_loop /\ waited = Wait
    /\ waited' = 0
    /\ ticked' = Advances
    /\ in_loop' = ~Leaves
    /\ UNCHANGED <<working_flag, age, peerVars>>

Next ==
    \/ \E p \in Peer : Connect(p) \/ Introduce(p) \/ Message(p) \/ Disconnect(p)
    \/ Terminate
    \/ Elapse
    \/ Quiet

Spec == Init /\ [][Next]_vars

\* Fairness: time goes on, and the loop with it.
FairSpec == Spec /\ WF_vars(Elapse) /\ WF_vars(Quiet)

-----------------------------------------------------------------------------
\* While somebody plays and pauses now and then the world goes on.
WorldAdvances == []<>(ticked \/ clients = {} \/ ~in_loop)

\* SIGTERM ends the server, although it interrupts no wait and a player goes
\* on sending.
TermObeyed == ~working_flag ~> ~in_loop

\* A server that everybody has left for good ends by itself.
Retires == []<>(clients # {}) \/ <>~in_loop
=============================================================================
