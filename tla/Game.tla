-------------------------------- MODULE Game --------------------------------
(***************************************************************************)
(* A game server and its players: frames and acknowledgements travel on    *)
(* ENet's unreliable channel 1, which loses packets but never reorders     *)
(* them; each player rebuilds the world from the differences it receives   *)
(* (GameClient::process_event, Header::Entities).                          *)
(***************************************************************************)
EXTENDS GameServer

CONSTANTS
    OldGames,   \* what players may still draw of games on other servers
    MaxFlight   \* bound: packets in flight per player and direction

\* Blank is an entity that emplace_back made and no frame has filled in.
Blank == [user_id |-> 0, body |-> 0]

\* What a player may draw: entities, some of them still blank in a field.
Drawings == Seq([Field -> PlayerId \cup Body \cup {AI, Blank.user_id, Blank.body}])

ASSUME FlightAssumption ==
    /\ OldGames \subseteq Drawings
    /\ MaxFlight \in Nat \ {0}

VARIABLES
    down,    \* down[p]: frames on the way to player p, oldest first
    up,      \* up[p]: acknowledged timestamps on the way to the server
    state,   \* state[p]: the entities player p draws
    brought, \* history: what the connected p drew already when it came
    shown,   \* history: the timestamp of the last frame the connected p applied, or None
    log,     \* history: the worlds that were broadcast, by timestamp
    reused   \* history: the slots whose present player found a last_ts there

gameVars == <<serverVars, down, up, state, brought, shown, log, reused>>
wire == <<down, up, state, brought, shown, log, reused>>

None == -1

Init ==
    /\ ServerInit
    /\ down = [p \in Peer |-> <<>>]
    /\ up = [p \in Peer |-> <<>>]
    /\ state = [p \in Peer |-> <<>>]
    /\ brought = [p \in Peer |-> <<>>]
    /\ shown = [p \in Peer |-> None]
    /\ log = NoEntries
    /\ reused = {}

-----------------------------------------------------------------------------
\* A packet is queued; with the bound reached, the oldest one is lost.
Queue(channel, packet) ==
    LET sent == Append(channel, packet)
    IN  IF Len(sent) > MaxFlight THEN Tail(sent) ELSE sent

\* A player connects.  A new process draws nothing yet; nothing ever clears
\* the state of one that played before, here or on another server, so it still
\* draws the last world of that game, of whatever size.
PlayerConnects ==
    \E p \in Peer :
        /\ ServerConnect(p)
        /\ \E old \in {<<>>} \cup {state[q] : q \in Peer \ conn} \cup OldGames :
               /\ state' = [state EXCEPT ![p] = old]
               /\ brought' = [brought EXCEPT ![p] = old]
        /\ reused' = IF p \in DOMAIN last_ts THEN reused \cup {p} ELSE reused \ {p}
        /\ UNCHANGED <<down, up, shown, log>>

PlayerIntroduces ==
    \E p \in Peer, i \in PlayerId : ServerClientAbout(p, i) /\ UNCHANGED wire

\* Players send mouse positions once GameInfo has put them in the game.
PlayerAims ==
    \E p \in DOMAIN clients : MousePosition(p) /\ UNCHANGED wire

PlayerLeaves ==
    \E p \in Peer :
        /\ ServerDisconnect(p)
        /\ down' = [down EXCEPT ![p] = <<>>]
        /\ up' = [up EXCEPT ![p] = <<>>]
        /\ brought' = [brought EXCEPT ![p] = <<>>]
        /\ shown' = [shown EXCEPT ![p] = None]
        /\ UNCHANGED <<state, log, reused>>

ServerTicks ==
    \E world \in Moved(World) :
        /\ Tick(world)
        /\ down' = [p \in Peer |-> IF p \in DOMAIN clients
                                   THEN Queue(down[p], FrameFor(p, world)) ELSE down[p]]
        /\ log' = Put(log, current_ts, world)
        /\ UNCHANGED <<up, state, brought, shown, reused>>

ServerReceivesAnswer ==
    \E p \in Peer :
        /\ up[p] # <<>>
        /\ ClientAnswer(p, Head(up[p]))
        /\ up' = [up EXCEPT ![p] = Tail(@)]
        /\ UNCHANGED <<down, state, brought, shown, log, reused>>

\* Any packet in flight may be lost; losing one at the head is enough, as
\* the packets behind it are then the next to be lost or received.
PacketLost ==
    \E p \in Peer :
        /\ \/ down[p] # <<>> /\ down' = [down EXCEPT ![p] = Tail(@)] /\ UNCHANGED up
           \/ up[p] # <<>> /\ up' = [up EXCEPT ![p] = Tail(@)] /\ UNCHANGED down
        /\ UNCHANGED <<serverVars, state, brought, shown, log, reused>>

-----------------------------------------------------------------------------
(***************************************************************************)
(* Decoding.  An entity past the end of state is appended, blank, only if  *)
(* its user_id is sent; any other field of it is written out of range.     *)
(***************************************************************************)
Appended(old, delta) == {n \in DOMAIN delta : n > Len(old) /\ "user_id" \in DOMAIN delta[n]}

InRange(old, delta, n) == n <= Len(old) \/ (Len(old) + 1) .. n \subseteq Appended(old, delta)

Entry(old, n) == IF n <= Len(old) THEN old[n] ELSE Blank

\* Mutant of Written: a field that is not sent is cleared.
Written_Cleared(old, d) == [f \in Field |-> IF f \in DOMAIN d THEN d[f] ELSE Blank[f]]

\* The fields sent replace the old ones.
Written(old, d) == [f \in Field |-> IF f \in DOMAIN d THEN d[f] ELSE old[f]]

Decode(old, delta) ==
    [n \in 1 .. Len(old) + Cardinality(Appended(old, delta)) |->
        IF n \in DOMAIN delta /\ InRange(old, delta, n)
        THEN Written(Entry(old, n), delta[n]) ELSE Entry(old, n)]

\* RECEIVE Entities: the frame is applied and its epoch acknowledged.
PlayerReceivesFrame ==
    \E p \in Peer :
        LET frame == Head(down[p])
        IN  /\ down[p] # <<>>
            /\ down' = [down EXCEPT ![p] = Tail(@)]
            /\ state' = [state EXCEPT ![p] = Decode(@, frame.delta)]
            /\ up' = [up EXCEPT ![p] = Queue(@, frame.epoch)]
            /\ shown' = [shown EXCEPT ![p] = frame.epoch]
            /\ UNCHANGED <<serverVars, brought, log, reused>>

Next ==
    \/ PlayerConnects
    \/ PlayerIntroduces
    \/ PlayerAims
    \/ PlayerLeaves
    \/ ServerTicks
    \/ ServerReceivesAnswer
    \/ PacketLost
    \/ PlayerReceivesFrame

Spec == Init /\ [][Next]_gameVars
=============================================================================
