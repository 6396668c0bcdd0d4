------------------------------ MODULE EnetAgent ------------------------------
(***************************************************************************)
(* The agent process (agent/EnetAgent.cpp): for every CreateServer it      *)
(* launches a game server on the next port and answers with that port.     *)
(* Every other packet, the lobby's greeting among them, it throws away.    *)
(***************************************************************************)
EXTENDS Naturals, Sequences, Maps

CONSTANT FirstPort   \* the initial min_port (9000)

VARIABLES
    toAgent,    \* CreateServer packets the lobby has queued
    fromAgent,  \* ServerPort packets the agent has queued
    min_port,   \* the port of the next server
    servers     \* the launched processes: port -> settings on the command line

agentVars == <<toAgent, fromAgent, min_port, servers>>

Init ==
    /\ toAgent = <<>> /\ fromAgent = <<>>
    /\ min_port = FirstPort
    /\ servers = NoEntries

\* Mutants of CreateServer: the port is not stepped; nothing is answered.
CreateServer_SamePort ==
    /\ toAgent # <<>>
    /\ servers' = Put(servers, min_port, Head(toAgent).settings)
    /\ fromAgent' = Append(fromAgent, min_port)
    /\ toAgent' = Tail(toAgent)
    /\ UNCHANGED min_port
CreateServer_NoAnswer ==
    /\ toAgent # <<>>
    /\ servers' = Put(servers, min_port, Head(toAgent).settings)
    /\ min_port' = min_port + 1
    /\ toAgent' = Tail(toAgent)
    /\ UNCHANGED fromAgent

\* RECEIVE CreateServer: std::system launches the process and returns at
\* once; the answer leaves whether or not the server has bound its port.
CreateServer ==
    /\ toAgent # <<>>
    /\ servers' = Put(servers, min_port, Head(toAgent).settings)
    /\ fromAgent' = Append(fromAgent, min_port)
    /\ min_port' = min_port + 1
    /\ toAgent' = Tail(toAgent)
=============================================================================
