----------------------------- MODULE GameServer -----------------------------
(***************************************************************************)
(* The game server process (server/GameServer.cpp): players join and       *)
(* leave, and while there are players the server advances the world and    *)
(* sends each of them the entities as a difference to the last snapshot    *)
(* that player acknowledged.                                               *)
(*                                                                         *)
(* The two coordinates and the radius of an entity are encoded alike, each *)
(* sent when it differs from the acknowledged snapshot; they are one field *)
(* here, body.  Motion is abstracted: a tick may leave any body anywhere.  *)
(* Entities count from 1 here and from 0 in the code.                      *)
(***************************************************************************)
EXTENDS Integers, Sequences, FiniteSets, Maps

CONSTANTS
    Peer,         \* the ENet peer slots of the server's host
    PlayerId,     \* the ids lobby clients introduce themselves with
    Body,         \* positions and sizes
    AICount,      \* entities spawned by Run (10)
    MaxEntities,  \* bound: entities of one execution
    MaxTs         \* bound: ticks of one execution

AI == -1

ASSUME GameAssumption ==
    /\ PlayerId \subseteq Int
    /\ AICount \in Nat \ {0}
    /\ MaxEntities \in Nat
    /\ MaxTs \in Nat
    /\ Body # {}

VARIABLES
    conn,              \* the slots with a connection
    clients,           \* peer -> id of the registered players
    clients_entities,  \* peer -> index of the peer's entity
    last_target,       \* the peers with a target; where it is, is abstracted
    last_ts,           \* peer -> last acknowledged timestamp
    entities,          \* timestamp -> snapshot
    current_ts,        \* the timestamp being played
    steered            \* history: the entities update_users moved last

serverVars == <<conn, clients, clients_entities, last_target, last_ts,
                entities, current_ts, steered>>

Field == {"user_id", "body"}
Entity == [user_id : PlayerId \cup {AI}, body : Body]
World == entities[current_ts]

\* clients_entities[p] of a peer that has none reads as the first entity.
FirstEntity == 1

ServerInit ==
    /\ conn = {}
    /\ clients = NoEntries
    /\ clients_entities = NoEntries
    /\ last_target = {}
    /\ last_ts = NoEntries
    /\ current_ts = 0
    /\ \E bodies \in [1 .. AICount -> Body] :
         entities = [t \in {0} |-> [n \in 1 .. AICount |-> [user_id |-> AI, body |-> bodies[n]]]]
    /\ steered = {}

-----------------------------------------------------------------------------
(***************************************************************************)
(* Events.                                                                 *)
(***************************************************************************)
ServerConnect(p) ==
    /\ p \notin conn
    /\ conn' = conn \cup {p}
    /\ UNCHANGED <<clients, clients_entities, last_target, last_ts, entities,
                   current_ts, steered>>

\* add_new_client: the entity goes to the end of the world being played.
AddNewClient(p, i) ==
    \E b \in Body :
        LET born == Append(World, [user_id |-> i, body |-> b])
        IN  /\ Len(World) < MaxEntities
            /\ entities' = [entities EXCEPT ![current_ts] = born]
            /\ clients_entities' = Put(clients_entities, p, Len(born))
            /\ clients' = Put(clients, p, i)
            /\ last_target' = last_target \cup {p}

\* RECEIVE ClientAbout: a registered player only changes its name.
ServerClientAbout(p, i) ==
    /\ p \in conn
    /\ IF p \in DOMAIN clients
       THEN UNCHANGED <<entities, clients_entities, clients, last_target>>
       ELSE AddNewClient(p, i)
    /\ UNCHANGED <<conn, last_ts, current_ts, steered>>

\* RECEIVE MousePosition.
MousePosition(p) ==
    /\ p \in conn
    /\ last_target' = last_target \cup {p}
    /\ UNCHANGED <<conn, clients, clients_entities, last_ts, entities,
                   current_ts, steered>>

\* Mutant of Keep: the newest acknowledgement decides instead of the oldest.
Keep_Newest(acks, t) == \A p \in DOMAIN acks : acks[p] <= t

\* Whether a snapshot survives: it is not older than every acknowledgement,
\* which is to say not older than the smallest one.
Keep(acks, t) == \E p \in DOMAIN acks : acks[p] <= t

\* RECEIVE ClientAnswer: the acknowledgement is recorded and the snapshots
\* older than every player's are dropped.
ClientAnswer(p, t) ==
    /\ p \in conn
    /\ last_ts' = Put(last_ts, p, t)
    /\ entities' = [u \in {v \in DOMAIN entities : Keep(last_ts', v)} |-> entities[u]]
    /\ UNCHANGED <<conn, clients, clients_entities, last_target, current_ts, steered>>

\* Mutant of EntityOf: the entity of a peer without one is the newest.
EntityOf_Newest(p) == At(clients_entities, p, Len(World))

EntityOf(p) == At(clients_entities, p, FirstEntity)

\* Mutant of Abandoned: the entity stays its player's.
Abandoned_Kept(p) == World

\* The world once p's entity has become an AI.
Abandoned(p) == [World EXCEPT ![EntityOf(p)].user_id = AI]

\* DISCONNECT: last_ts and last_target keep the peer.
ServerDisconnect(p) ==
    /\ p \in conn
    /\ conn' = conn \ {p}
    /\ entities' = [entities EXCEPT ![current_ts] = Abandoned(p)]
    /\ clients' = Erase(clients, p)
    /\ clients_entities' = Erase(clients_entities, p)
    /\ UNCHANGED <<last_target, last_ts, current_ts, steered>>

-----------------------------------------------------------------------------
(***************************************************************************)
(* Snapshots on the wire: per entity, the fields that are sent.            *)
(***************************************************************************)
Difference(old, new) == [f \in {g \in Field : old[g] # new[g]} |-> new[f]]

\* An entity beyond the end of the base is new and sent in full.
Encode(base, world) ==
    [n \in DOMAIN world |->
        IF n \in DOMAIN base THEN Difference(base[n], world[n]) ELSE world[n]]

\* Mutant of Base: the previous snapshot, whether or not it was acknowledged.
Base_Previous(p) ==
    IF p \in DOMAIN last_ts THEN At(entities, current_ts - 1, <<>>) ELSE <<>>

\* The snapshot p has acknowledged, or nothing; reading one that was dropped
\* makes an empty one.
Base(p) == IF p \in DOMAIN last_ts THEN At(entities, last_ts[p], <<>>) ELSE <<>>

\* Mutant of FrameFor: the frame carries the timestamp of the next tick.
FrameFor_Next(p, world) ==
    [epoch |-> current_ts + 1, delta |-> Encode(Base(p), world)]

FrameFor(p, world) == [epoch |-> current_ts, delta |-> Encode(Base(p), world)]

\* The dropped snapshots that the encoding brings back, empty.
Revived == {last_ts[p] : p \in DOMAIN clients \cap DOMAIN last_ts} \ DOMAIN entities

\* What motion, collisions and walls may make of the world.
Moved(world) ==
    {[n \in DOMAIN w |-> [user_id |-> world[n].user_id, body |-> w[n]]] :
        w \in [DOMAIN world -> Body]}

\* Mutant of Stored: the motion reaches the next timestamp only.
Stored_NextOnly(world) ==
    [t \in DOMAIN entities \cup Revived \cup {current_ts + 1} |->
        IF t = current_ts + 1 THEN world ELSE At(entities, t, <<>>)]

\* The history once world was broadcast and copied to the next timestamp.
Stored(world) ==
    [t \in DOMAIN entities \cup Revived \cup {current_ts + 1} |->
        IF t \in {current_ts, current_ts + 1} THEN world ELSE At(entities, t, <<>>)]

\* One tick, sent to the players as frames: update_users, update_AI,
\* check_cond and wall_check, the broadcast, and the copy of the world to the
\* next timestamp.  Looking up the entity of a peer that has left gives that
\* peer the first entity.
Tick(world) ==
    /\ DOMAIN clients # {} /\ current_ts < MaxTs
    /\ world \in Moved(World)
    /\ steered' = {EntityOf(p) : p \in last_target}
    /\ clients_entities' = [p \in DOMAIN clients_entities \cup last_target |-> EntityOf(p)]
    /\ entities' = Stored(world)
    /\ current_ts' = current_ts + 1
    /\ UNCHANGED <<conn, clients, last_target, last_ts>>
=============================================================================
