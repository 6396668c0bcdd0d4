--------------------------- MODULE GameProperties ---------------------------
(***************************************************************************)
(* What the game server owes to its players.                               *)
(***************************************************************************)
EXTENDS Game

Times == 0 .. MaxTs
Snapshots == Seq(Entity)
Deltas == Tables(Field, PlayerId \cup {AI} \cup Body)

\* Every variable keeps its type; the snapshot being played is always there.
TypeOK ==
    /\ conn \subseteq Peer
    /\ IsTable(clients, conn, PlayerId)
    /\ IsTable(clients_entities, Peer, 1 .. Len(World))
    /\ last_target \subseteq Peer
    /\ IsTable(last_ts, Peer, 0 .. current_ts - 1)
    /\ current_ts \in Times
    /\ IsTable(entities, Times, Snapshots) /\ current_ts \in DOMAIN entities
    /\ steered \subseteq 1 .. Len(World)
    /\ down \in [Peer -> Seq([epoch : Times, delta : Seq(Deltas)])]
    /\ up \in [Peer -> Seq(Times)]
    /\ state \in [Peer -> Drawings] /\ brought \in [Peer -> Drawings]
    /\ shown \in [Peer -> Times \cup {None}]
    /\ reused \subseteq Peer

\* A registered player has an entity of its own that carries its id, whatever
\* other players on the same or other slots did before: the index is taken
\* from a table that makes up the first entity for a peer it does not find.
OwnEntity ==
    \A p \in DOMAIN clients :
        /\ p \in DOMAIN clients_entities
        /\ World[clients_entities[p]].user_id = clients[p]
        /\ \A q \in DOMAIN clients \ {p} : clients_entities[q] # clients_entities[p]

\* Entities outlive their players only as AIs: one that carries a player's
\* id belongs to a registered player.
NoOrphans ==
    \A n \in DOMAIN World : World[n].user_id # AI =>
        \E p \in DOMAIN clients : clients_entities[p] = n

\* The baseline of a player's differences is the world that was broadcast at
\* the timestamp it acknowledged, or empty when that snapshot was dropped and
\* made up again by a lookup: it is never another world.
BaselineHonest ==
    \A p \in DOMAIN last_ts : Base(p) \in {<<>>, log[last_ts[p]]}

\* Field f of entity n had the value it has in h[v] before, and was x between.
Between(h, n, f, x, v) ==
    \E t, u \in DOMAIN h :
        /\ t < u /\ u < v /\ n \in DOMAIN h[t]
        /\ h[t][n][f] = h[v][n][f] /\ h[u][n][f] = x

\* s is the world h[v], but for values between, and the rest of old beyond it.
Shows(h, s, old, v) ==
    /\ DOMAIN s = DOMAIN h[v] \cup DOMAIN old
    /\ \A n \in DOMAIN h[v], f \in Field :
          s[n][f] = h[v][n][f] \/ Between(h, n, f, s[n][f], v)
    /\ \A n \in DOMAIN s \ DOMAIN h[v] : s[n] = old[n]

\* What a player draws is the world of the last frame it applied, entity by
\* entity and field by field, over any loss of frames and acknowledgements,
\* and beyond that world only what it brought from an earlier game.  A field
\* is wrong only where its value came back, and then it is the one between.
\* Nothing is said of a slot on which an earlier player acknowledged.
InSync ==
    \A p \in conn \ reused :
        shown[p] # None => Shows(log, state[p], brought[p], shown[p])

\* A snapshot that is some player's baseline stays until that player
\* acknowledges another, however fast the others are.
BaselineKept ==
    [][\A p \in DOMAIN last_ts :
          last_ts[p] \in DOMAIN entities /\ last_ts'[p] = last_ts[p]
              => last_ts[p] \in DOMAIN entities']_gameVars

\* Entity.h:11 says of user_id "-1 - AI": an entity that is an AI is not moved
\* by a player.
AIsAreNotSteered ==
    [][current_ts' # current_ts => \A n \in steered' : World[n].user_id # AI]_gameVars

\* GameServer.cpp:300 says "its new entity" of those sent in full: a player
\* that has applied no frame yet gets every field of every entity.
NewEntitiesInFull ==
    \A p \in conn : shown[p] = None =>
        \A k \in DOMAIN down[p] : \A n \in DOMAIN down[p][k].delta :
            DOMAIN down[p][k].delta[n] = Field
=============================================================================
