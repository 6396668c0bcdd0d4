----------------------------- MODULE GameProofs -----------------------------
(***************************************************************************)
(* Proofs about Game for every set of slots, player ids and bodies, every  *)
(* number of AIs, ticks, entities and packets in flight.                   *)
(***************************************************************************)
EXTENDS GameProperties, FiniteSetTheorems, TLAPS

-----------------------------------------------------------------------------
(***************************************************************************)
(* Players and their entities.                                             *)
(***************************************************************************)

\* Players cl have the entities ce of the world w: a player's entity carries
\* its id and is nobody else's, a peer that has left or never introduced
\* itself is mapped to the first entity, the first entity is an AI, and the
\* entities of nobody are AIs.
Owned(cl, ce, w) ==
    /\ w \in Seq(Entity) /\ Len(w) >= 1 /\ w[1].user_id = AI
    /\ DOMAIN cl \subseteq DOMAIN ce
    /\ \A p \in DOMAIN ce : ce[p] \in 1 .. Len(w)
    /\ \A p \in DOMAIN ce : p \notin DOMAIN cl => ce[p] = 1
    /\ \A p \in DOMAIN cl : w[ce[p]].user_id = cl[p] /\ ce[p] # 1
    /\ \A p, q \in DOMAIN cl : p # q => ce[p] # ce[q]
    /\ \A n \in 1 .. Len(w) : w[n].user_id # AI => \E p \in DOMAIN cl : ce[p] = n

\* add_new_client: the entity of the new player is the last one.
LEMMA OwnedBorn ==
    ASSUME NEW cl, NEW ce, NEW w, Owned(cl, ce, w),
           NEW p, p \notin DOMAIN cl, NEW i \in PlayerId, NEW b \in Body
    PROVE  LET born == Append(w, [user_id |-> i, body |-> b])
           IN  /\ Owned(Put(cl, p, i), Put(ce, p, Len(born)), born)
               /\ Len(born) = Len(w) + 1
  <1> DEFINE e == [user_id |-> i, body |-> b]
             born == Append(w, e)
             cl2 == Put(cl, p, i)
             ce2 == Put(ce, p, Len(born))
  <1>1. e \in Entity /\ e.user_id = i
    BY DEF Entity
  <1> HIDE DEF e
  <1>2. /\ w \in Seq(Entity) /\ Len(w) \in Nat /\ Len(w) >= 1
        /\ born \in Seq(Entity) /\ Len(born) = Len(w) + 1
        /\ born[Len(w) + 1] = e
        /\ \A n \in 1 .. Len(w) : born[n] = w[n]
    BY <1>1 DEF Owned
  <1> HIDE DEF born
  <1>3. /\ DOMAIN cl2 = DOMAIN cl \cup {p} /\ cl2[p] = i
        /\ \A q \in DOMAIN cl : q # p /\ cl2[q] = cl[q]
    BY DEF Put
  <1>4. /\ DOMAIN ce2 = DOMAIN ce \cup {p} /\ ce2[p] = Len(w) + 1
        /\ \A q \in DOMAIN ce : q # p => ce2[q] = ce[q]
    BY <1>2 DEF Put
  <1> HIDE DEF cl2, ce2
  <1>5. /\ DOMAIN cl \subseteq DOMAIN ce
        /\ \A q \in DOMAIN ce : ce[q] \in 1 .. Len(w)
        /\ \A q \in DOMAIN ce : q \notin DOMAIN cl => ce[q] = 1
        /\ \A q \in DOMAIN cl : w[ce[q]].user_id = cl[q] /\ ce[q] # 1
        /\ \A q, r \in DOMAIN cl : q # r => ce[q] # ce[r]
        /\ \A n \in 1 .. Len(w) : w[n].user_id # AI => \E q \in DOMAIN cl : ce[q] = n
        /\ w[1].user_id = AI
    BY DEF Owned
  <1>6. born[1].user_id = AI /\ Len(born) >= 1
    BY <1>2, <1>5
  <1>7. \A q \in DOMAIN ce2 : /\ ce2[q] \in 1 .. Len(born)
                              /\ q \notin DOMAIN cl2 => ce2[q] = 1
    BY <1>2, <1>3, <1>4, <1>5
  <1>8. \A q \in DOMAIN cl2 : born[ce2[q]].user_id = cl2[q] /\ ce2[q] # 1
    <2> SUFFICES ASSUME NEW q \in DOMAIN cl2
                 PROVE  born[ce2[q]].user_id = cl2[q] /\ ce2[q] # 1
      OBVIOUS
    <2>1. CASE q = p
      BY <1>1, <1>2, <1>3, <1>4, <2>1
    <2>2. CASE q # p
      <3>1. q \in DOMAIN cl /\ cl2[q] = cl[q] /\ ce2[q] = ce[q] /\ ce[q] \in 1 .. Len(w)
        BY <1>3, <1>4, <1>5, <2>2
      <3> QED
        BY <1>2, <1>5, <3>1
    <2> QED
      BY <2>1, <2>2
  <1>9. \A q, r \in DOMAIN cl2 : q # r => ce2[q] # ce2[r]
    BY <1>2, <1>3, <1>4, <1>5
  <1>10. \A n \in 1 .. Len(born) : born[n].user_id # AI => \E q \in DOMAIN cl2 : ce2[q] = n
    <2> SUFFICES ASSUME NEW n \in 1 .. Len(born), born[n].user_id # AI
                 PROVE  \E q \in DOMAIN cl2 : ce2[q] = n
      OBVIOUS
    <2>1. CASE n = Len(w) + 1
      BY <1>3, <1>4, <2>1
    <2>2. CASE n \in 1 .. Len(w)
      <3>1. PICK q \in DOMAIN cl : ce[q] = n
        BY <1>2, <1>5, <2>2
      <3> QED
        BY <1>3, <1>4, <1>5, <3>1
    <2> QED
      BY <1>2, <2>1, <2>2
  <1>11. DOMAIN cl2 \subseteq DOMAIN ce2
    BY <1>3, <1>4, <1>5
  <1>12. Owned(cl2, ce2, born)
    BY <1>2, <1>6, <1>7, <1>8, <1>9, <1>10, <1>11 DEF Owned
  <1> QED
    BY <1>2, <1>12 DEF cl2, ce2, born, e

\* DISCONNECT: the player's entity becomes an AI; that of a peer without one
\* is the first entity, which is an AI already.
LEMMA OwnedLeft ==
    ASSUME NEW cl, NEW ce, NEW w, Owned(cl, ce, w), NEW p
    PROVE  LET left == [w EXCEPT ![At(ce, p, 1)].user_id = AI]
           IN  Owned(Erase(cl, p), Erase(ce, p), left) /\ Len(left) = Len(w)
  <1> DEFINE k == At(ce, p, 1)
             e == [w[k] EXCEPT !.user_id = AI]
             left == [w EXCEPT ![k].user_id = AI]
             cl2 == Erase(cl, p)
             ce2 == Erase(ce, p)
  <1>1. /\ w \in Seq(Entity) /\ Len(w) \in Nat /\ Len(w) >= 1
        /\ DOMAIN cl \subseteq DOMAIN ce
        /\ \A q \in DOMAIN ce : ce[q] \in 1 .. Len(w)
        /\ \A q \in DOMAIN ce : q \notin DOMAIN cl => ce[q] = 1
        /\ \A q \in DOMAIN cl : w[ce[q]].user_id = cl[q] /\ ce[q] # 1
        /\ \A q, r \in DOMAIN cl : q # r => ce[q] # ce[r]
        /\ \A n \in 1 .. Len(w) : w[n].user_id # AI => \E q \in DOMAIN cl : ce[q] = n
        /\ w[1].user_id = AI
    BY DEF Owned
  <1>2. k \in 1 .. Len(w) /\ (p \in DOMAIN cl => k = ce[p]) /\ (p \notin DOMAIN cl => k = 1)
    BY <1>1 DEF At
  <1> HIDE DEF k
  <1>3. e \in Entity /\ e.user_id = AI
    <2>1. w[k] \in Entity
      BY <1>1, <1>2
    <2> QED
      BY <2>1 DEF Entity
  <1>4. left = [w EXCEPT ![k] = e]
    OBVIOUS
  <1> HIDE DEF e
  <1>5. /\ left \in Seq(Entity) /\ Len(left) = Len(w)
        /\ \A n \in 1 .. Len(w) : left[n] = IF n = k THEN e ELSE w[n]
    BY <1>1, <1>2, <1>3, <1>4
  <1> HIDE DEF left
  <1>6. /\ DOMAIN cl2 = DOMAIN cl \ {p} /\ DOMAIN ce2 = DOMAIN ce \ {p}
        /\ \A q \in DOMAIN cl2 : cl2[q] = cl[q]
        /\ \A q \in DOMAIN ce2 : ce2[q] = ce[q]
    BY DEF Erase
  <1> HIDE DEF cl2, ce2
  <1>7. ASSUME NEW q \in DOMAIN cl2
        PROVE  left[ce2[q]].user_id = cl2[q] /\ ce2[q] # 1
    <2>1. q \in DOMAIN cl /\ q # p /\ cl2[q] = cl[q] /\ ce2[q] = ce[q] /\ ce[q] \in 1 .. Len(w)
      BY <1>1, <1>6
    <2>2. ce[q] # k
      BY <1>1, <1>2, <2>1
    <2> QED
      BY <1>1, <1>5, <2>1, <2>2
  <1>8. ASSUME NEW n \in 1 .. Len(left), left[n].user_id # AI
        PROVE  \E q \in DOMAIN cl2 : ce2[q] = n
    <2>1. n \in 1 .. Len(w) /\ n # k /\ w[n].user_id # AI
      BY <1>3, <1>5, <1>8
    <2>2. PICK q \in DOMAIN cl : ce[q] = n
      BY <1>1, <2>1
    <2>3. q # p
      BY <1>2, <2>1, <2>2
    <2> QED
      BY <1>1, <1>6, <2>2, <2>3
  <1>9. left[1].user_id = AI
    BY <1>1, <1>3, <1>5
  <1>10. \A q, r \in DOMAIN cl2 : q # r => ce2[q] # ce2[r]
    BY <1>1, <1>6
  <1>11. /\ DOMAIN cl2 \subseteq DOMAIN ce2
         /\ \A q \in DOMAIN ce2 : ce2[q] \in 1 .. Len(left)
         /\ \A q \in DOMAIN ce2 : q \notin DOMAIN cl2 => ce2[q] = 1
    BY <1>1, <1>5, <1>6
  <1>12. Owned(cl2, ce2, left)
    BY <1>1, <1>5, <1>7, <1>8, <1>9, <1>10, <1>11 DEF Owned
  <1> QED
    BY <1>5, <1>12 DEF cl2, ce2, left, k

\* A tick: bodies move, and the lookups of update_users make up entries.
LEMMA OwnedMoved ==
    ASSUME NEW cl, NEW ce, NEW w, Owned(cl, ce, w), NEW v \in Moved(w), NEW T
    PROVE  /\ Owned(cl, [p \in DOMAIN ce \cup T |-> At(ce, p, 1)], v)
           /\ Len(v) = Len(w)
           /\ \A p : At(ce, p, 1) \in 1 .. Len(v)
  <1> DEFINE ce2 == [p \in DOMAIN ce \cup T |-> At(ce, p, 1)]
  <1>1. /\ w \in Seq(Entity) /\ Len(w) \in Nat /\ Len(w) >= 1 /\ DOMAIN w = 1 .. Len(w)
        /\ DOMAIN cl \subseteq DOMAIN ce
        /\ \A q \in DOMAIN ce : ce[q] \in 1 .. Len(w)
        /\ \A q \in DOMAIN ce : q \notin DOMAIN cl => ce[q] = 1
        /\ \A q \in DOMAIN cl : w[ce[q]].user_id = cl[q] /\ ce[q] # 1
        /\ \A q, r \in DOMAIN cl : q # r => ce[q] # ce[r]
        /\ \A n \in 1 .. Len(w) : w[n].user_id # AI => \E q \in DOMAIN cl : ce[q] = n
        /\ w[1].user_id = AI
    BY DEF Owned
  <1>2. PICK m \in [DOMAIN w -> Body] :
          v = [n \in DOMAIN w |-> [user_id |-> w[n].user_id, body |-> m[n]]]
    BY DEF Moved
  <1>3. ASSUME NEW n \in 1 .. Len(w)
        PROVE  v[n] \in Entity /\ v[n].user_id = w[n].user_id
    <2>1. w[n] \in Entity /\ m[n] \in Body
      BY <1>1, <1>2
    <2>2. v[n] = [user_id |-> w[n].user_id, body |-> m[n]]
      BY <1>1, <1>2
    <2> QED
      BY <2>1, <2>2 DEF Entity
  <1>4. v \in [1 .. Len(w) -> Entity]
    BY <1>1, <1>2, <1>3
  <1>5. v \in Seq(Entity) /\ Len(v) = Len(w)
    BY <1>1, <1>4
  <1>6. /\ DOMAIN ce2 = DOMAIN ce \cup T
        /\ \A p \in DOMAIN ce : ce2[p] = ce[p]
        /\ \A p \in DOMAIN ce2 : p \notin DOMAIN ce => ce2[p] = 1
        /\ \A p : At(ce, p, 1) \in 1 .. Len(v)
    BY <1>1, <1>5 DEF At
  <1> HIDE DEF ce2
  <1>7. /\ DOMAIN cl \subseteq DOMAIN ce2
        /\ \A q \in DOMAIN ce2 : ce2[q] \in 1 .. Len(v)
        /\ \A q \in DOMAIN ce2 : q \notin DOMAIN cl => ce2[q] = 1
        /\ \A q, r \in DOMAIN cl : q # r => ce2[q] # ce2[r]
    BY <1>1, <1>5, <1>6
  <1>8. \A q \in DOMAIN cl : v[ce2[q]].user_id = cl[q] /\ ce2[q] # 1
    BY <1>1, <1>3, <1>6
  <1>9. \A n \in 1 .. Len(v) : v[n].user_id # AI => \E q \in DOMAIN cl : ce2[q] = n
    BY <1>1, <1>3, <1>5, <1>6
  <1>10. v[1].user_id = AI /\ Len(v) >= 1
    BY <1>1, <1>3, <1>5
  <1>11. Owned(cl, ce2, v)
    BY <1>5, <1>7, <1>8, <1>9, <1>10 DEF Owned
  <1> QED
    BY <1>5, <1>6, <1>11 DEF ce2

-----------------------------------------------------------------------------
(***************************************************************************)
(* The inductive invariant.                                                *)
(***************************************************************************)
Frames(n) == [epoch : 0 .. n - 1, delta : Seq(Deltas)]

\* The tables of the server, and its players with their entities.
ServerInv ==
    /\ conn \subseteq Peer
    /\ IsTable(clients, conn, PlayerId)
    /\ IsTable(clients_entities, Peer, Nat)
    /\ last_target \subseteq Peer
    /\ current_ts \in Nat /\ current_ts <= MaxTs
    /\ IsTable(last_ts, Peer, 0 .. current_ts - 1)
    /\ IsTable(entities, 0 .. current_ts, Snapshots)
    /\ current_ts \in DOMAIN entities
    /\ Owned(clients, clients_entities, World)

\* Only past timestamps are on their way.
WireInv ==
    /\ steered \subseteq 1 .. Len(World)
    /\ down \in [Peer -> Seq(Frames(current_ts))]
    /\ up \in [Peer -> Seq(0 .. current_ts - 1)]
    /\ state \in [Peer -> Drawings] /\ brought \in [Peer -> Drawings]
    /\ shown \in [Peer -> 0 .. current_ts - 1 \cup {None}]
    /\ reused \subseteq Peer

\* A past snapshot is the world that was broadcast, or empty.
HistoryInv ==
    /\ DOMAIN log = 0 .. current_ts - 1
    /\ \A t \in DOMAIN entities : t < current_ts => entities[t] \in {<<>>, log[t]}

GameInv == ServerInv /\ WireInv /\ HistoryInv

USE GameAssumption, FlightAssumption

-----------------------------------------------------------------------------
(***************************************************************************)
(* Tables and queues.                                                      *)
(***************************************************************************)
LEMMA TablePut ==
    ASSUME NEW m, NEW K, NEW V, IsTable(m, K, V), NEW k \in K, NEW v \in V
    PROVE  IsTable(Put(m, k, v), K, V)
  BY DEF IsTable, Put

LEMMA TableErase ==
    ASSUME NEW m, NEW K, NEW V, IsTable(m, K, V), NEW k
    PROVE  IsTable(Erase(m, k), K \ {k}, V)
  BY DEF IsTable, Erase

LEMMA TableWider ==
    ASSUME NEW m, NEW K, NEW V, IsTable(m, K, V), NEW L, NEW W,
           K \subseteq L, V \subseteq W
    PROVE  IsTable(m, L, W)
  BY DEF IsTable

LEMMA SeqWider ==
    ASSUME NEW S, NEW T, S \subseteq T, NEW s \in Seq(S)
    PROVE  s \in Seq(T)
  <1>1. s \in [1 .. Len(s) -> S] /\ Len(s) \in Nat
    OBVIOUS
  <1>2. s \in [1 .. Len(s) -> T]
    BY <1>1
  <1> QED
    BY <1>1, <1>2

LEMMA HeadTail ==
    ASSUME NEW S, NEW s \in Seq(S), s # <<>>
    PROVE  Head(s) \in S /\ Tail(s) \in Seq(S)
  OBVIOUS

\* Queueing loses packets at the front and invents none.
LEMMA Queued ==
    ASSUME NEW S, NEW s \in Seq(S), NEW x \in S
    PROVE  Queue(s, x) \in Seq(S)
  <1>1. Append(s, x) \in Seq(S) /\ Append(s, x) # <<>>
    <2>1. Append(s, x) \in Seq(S) /\ Len(Append(s, x)) = Len(s) + 1 /\ Len(s) \in Nat
      OBVIOUS
    <2> QED
      BY <2>1
  <1>2. Tail(Append(s, x)) \in Seq(S)
    BY <1>1
  <1> QED
    BY <1>1, <1>2 DEF Queue

\* What is sent of a world fits the wire, whatever the baseline.
LEMMA EncodedType ==
    ASSUME NEW base, NEW world \in Seq(Entity)
    PROVE  Encode(base, world) \in Seq(Deltas)
  <1>1. world \in [1 .. Len(world) -> Entity] /\ Len(world) \in Nat
    OBVIOUS
  <1>2. ASSUME NEW e \in Entity, NEW D \in SUBSET Field
        PROVE  [f \in D |-> e[f]] \in Deltas
    <2>1. \A f \in D : e[f] \in PlayerId \cup {AI} \cup Body
      BY DEF Entity, Field
    <2> QED
      BY <2>1 DEF Deltas, Tables
  <1>3. ASSUME NEW e \in Entity
        PROVE  e \in Deltas
    <2>1. e = [f \in Field |-> e[f]]
      BY DEF Entity, Field
    <2> QED
      BY <1>2, <2>1
  <1>4. ASSUME NEW e \in Entity, NEW o
        PROVE  Difference(o, e) \in Deltas
    BY <1>2 DEF Difference
  <1>5. Encode(base, world) \in [1 .. Len(world) -> Deltas]
    BY <1>1, <1>3, <1>4 DEF Encode
  <1> QED
    BY <1>1, <1>5

\* What a player draws after a frame are entities again, whatever it drew.
LEMMA DecodedType ==
    ASSUME NEW old \in Drawings, NEW delta \in Seq(Deltas)
    PROVE  Decode(old, delta) \in Drawings
  <1> DEFINE Values == PlayerId \cup Body \cup {AI, Blank.user_id, Blank.body}
             len == Len(old) + Cardinality(Appended(old, delta))
  <1>1. len \in Nat
    <2>1. /\ Appended(old, delta) \subseteq 1 .. Len(delta)
          /\ Len(delta) \in Nat /\ Len(old) \in Nat
      BY DEF Appended, Drawings
    <2>2. IsFiniteSet(1 .. Len(delta))
      BY <2>1, FS_Interval
    <2>3. Cardinality(Appended(old, delta)) \in Nat
      BY <2>1, <2>2, FS_Subset, FS_CardinalityType
    <2> QED
      BY <2>1, <2>3
  <1>2. ASSUME NEW n \in 1 .. len PROVE Entry(old, n) \in [Field -> Values]
    <2>1. CASE n <= Len(old)
      <3>1. n \in 1 .. Len(old) /\ old \in Seq([Field -> Values])
        BY <1>1, <2>1 DEF Drawings
      <3> QED
        BY <2>1, <3>1 DEF Entry
    <2>2. CASE ~(n <= Len(old))
      BY <2>2 DEF Entry, Blank, Field
    <2> QED
      BY <2>1, <2>2
  <1>3. ASSUME NEW n \in 1 .. len, n \in DOMAIN delta
        PROVE  Written(Entry(old, n), delta[n]) \in [Field -> Values]
    <2>1. delta[n] \in Deltas
      BY <1>3
    <2>2. \A f \in DOMAIN delta[n] : delta[n][f] \in Values
      BY <2>1 DEF Deltas, Tables
    <2> QED
      BY <1>2, <2>2 DEF Written
  <1>4. Decode(old, delta) \in [1 .. len -> [Field -> Values]]
    BY <1>2, <1>3 DEF Decode
  <1> QED
    BY <1>1, <1>4 DEF Drawings

-----------------------------------------------------------------------------
(***************************************************************************)
(* Each action of Next preserves the invariant.                            *)
(***************************************************************************)

\* The world that is being played is replaced by one as long or longer.
LEMMA WorldReplaced ==
    ASSUME ServerInv, HistoryInv, NEW w \in Seq(Entity),
           current_ts' = current_ts, log' = log,
           entities' = [entities EXCEPT ![current_ts] = w]
    PROVE  /\ World' = w
           /\ IsTable(entities', 0 .. current_ts, Snapshots)
           /\ current_ts \in DOMAIN entities'
           /\ HistoryInv'
  <1>1. /\ IsTable(entities, 0 .. current_ts, Snapshots) /\ current_ts \in DOMAIN entities
        /\ current_ts \in Nat
    BY DEF ServerInv
  <1>2. /\ DOMAIN entities' = DOMAIN entities
        /\ entities'[current_ts] = w
        /\ \A t \in DOMAIN entities : t # current_ts => entities'[t] = entities[t]
        /\ entities' = [t \in DOMAIN entities' |-> entities'[t]]
    BY <1>1
  <1>3. World' = w
    BY <1>2 DEF World
  <1>4. IsTable(entities', 0 .. current_ts, Snapshots)
    BY <1>1, <1>2 DEF IsTable, Snapshots
  <1>5. HistoryInv'
    BY <1>1, <1>2 DEF HistoryInv
  <1> QED
    BY <1>1, <1>2, <1>3, <1>4, <1>5

\* Nothing on the wire ages while the timestamp stays.
LEMMA WireKept ==
    ASSUME WireInv, Len(World) \in Nat, Len(World)' \in Nat, Len(World)' >= Len(World),
           UNCHANGED <<current_ts, steered, down, up, state, brought, shown, reused>>
    PROVE  WireInv'
  BY DEF WireInv

LEMMA WorldLen ==
    ASSUME ServerInv
    PROVE  World \in Seq(Entity) /\ Len(World) \in Nat /\ Len(World) >= 1
  BY DEF ServerInv, Owned

LEMMA Connects ==
    ASSUME GameInv, PlayerConnects
    PROVE  GameInv'
  <1>1. PICK p \in Peer, old \in {<<>>} \cup {state[q] : q \in Peer \ conn} \cup OldGames :
          /\ ServerConnect(p)
          /\ state' = [state EXCEPT ![p] = old]
          /\ brought' = [brought EXCEPT ![p] = old]
          /\ reused' = IF p \in DOMAIN last_ts THEN reused \cup {p} ELSE reused \ {p}
          /\ UNCHANGED <<down, up, shown, log>>
    BY DEF PlayerConnects
  <1>2. /\ conn' = conn \cup {p}
        /\ UNCHANGED <<clients, clients_entities, last_target, last_ts, entities,
                       current_ts, steered>>
    BY <1>1 DEF ServerConnect
  <1>3. ServerInv'
    <2>1. IsTable(clients, conn', PlayerId)
      BY <1>2, TableWider DEF GameInv, ServerInv
    <2> QED
      BY <1>2, <2>1 DEF GameInv, ServerInv, World
  <1>4. WireInv'
    <2>1. old \in Drawings
      <3>1. state \in [Peer -> Drawings] /\ OldGames \subseteq Drawings
        BY FlightAssumption DEF GameInv, WireInv
      <3>2. <<>> \in Drawings
        BY DEF Drawings
      <3> QED
        BY <3>1, <3>2
    <2>2. state' \in [Peer -> Drawings] /\ brought' \in [Peer -> Drawings]
      BY <1>1, <2>1 DEF GameInv, WireInv
    <2> QED
      BY <1>1, <1>2, <2>2 DEF GameInv, WireInv, World
  <1>5. HistoryInv'
    BY <1>1, <1>2 DEF GameInv, HistoryInv
  <1> QED
    BY <1>3, <1>4, <1>5 DEF GameInv

LEMMA Introduces ==
    ASSUME GameInv, PlayerIntroduces
    PROVE  GameInv'
  <1>1. PICK p \in Peer, i \in PlayerId : ServerClientAbout(p, i) /\ UNCHANGED wire
    BY DEF PlayerIntroduces
  <1>2. CASE p \in DOMAIN clients
    <2>1. UNCHANGED <<serverVars, wire>>
      BY <1>1, <1>2 DEF ServerClientAbout, serverVars
    <2> QED
      BY <2>1 DEF GameInv, ServerInv, WireInv, HistoryInv, serverVars, wire, World
  <1>3. CASE p \notin DOMAIN clients
    <2>1. AddNewClient(p, i) /\ p \in conn /\ UNCHANGED <<conn, last_ts, current_ts, steered>>
      BY <1>1, <1>3 DEF ServerClientAbout
    <2>2. PICK b \in Body :
            LET born == Append(World, [user_id |-> i, body |-> b])
            IN  /\ entities' = [entities EXCEPT ![current_ts] = born]
                /\ clients_entities' = Put(clients_entities, p, Len(born))
                /\ clients' = Put(clients, p, i)
                /\ last_target' = last_target \cup {p}
      BY <2>1 DEF AddNewClient
    <2> DEFINE born == Append(World, [user_id |-> i, body |-> b])
    <2>3. Owned(clients, clients_entities, World)
      BY DEF GameInv, ServerInv
    <2>4. /\ Owned(Put(clients, p, i), Put(clients_entities, p, Len(born)), born)
          /\ Len(born) = Len(World) + 1
      BY <1>3, <2>3, OwnedBorn
    <2>5. /\ entities' = [entities EXCEPT ![current_ts] = born]
          /\ clients_entities' = Put(clients_entities, p, Len(born))
          /\ clients' = Put(clients, p, i)
          /\ last_target' = last_target \cup {p}
      BY <2>2
    <2> HIDE DEF born
    <2>6. born \in Seq(Entity)
      BY <2>4 DEF Owned
    <2>7. UNCHANGED <<down, up, state, brought, shown, reused, log>>
      BY <1>1 DEF wire
    <2>8. /\ World' = born
          /\ IsTable(entities', 0 .. current_ts, Snapshots)
          /\ current_ts \in DOMAIN entities'
          /\ HistoryInv'
      BY <2>1, <2>5, <2>6, <2>7, WorldReplaced DEF GameInv
    <2>9. Len(World) \in Nat /\ Len(born) \in Nat
      BY <2>4, WorldLen DEF GameInv
    <2>10. IsTable(clients', conn', PlayerId)
      BY <2>1, <2>5, TablePut DEF GameInv, ServerInv
    <2>11. IsTable(clients_entities', Peer, Nat)
      BY <2>5, <2>9, TablePut DEF GameInv, ServerInv
    <2>12. Owned(clients, clients_entities, World)'
      BY <2>4, <2>5, <2>8
    <2>13. ServerInv'
      BY <2>1, <2>5, <2>8, <2>10, <2>11, <2>12 DEF GameInv, ServerInv
    <2>14. WireInv'
      BY <2>1, <2>4, <2>7, <2>8, <2>9, WireKept DEF GameInv
    <2> QED
      BY <2>8, <2>13, <2>14 DEF GameInv
  <1> QED
    BY <1>2, <1>3

LEMMA Aims ==
    ASSUME GameInv, PlayerAims
    PROVE  GameInv'
  <1>1. PICK p \in DOMAIN clients : MousePosition(p) /\ UNCHANGED wire
    BY DEF PlayerAims
  <1>2. /\ p \in conn /\ last_target' = last_target \cup {p}
        /\ UNCHANGED <<conn, clients, clients_entities, last_ts, entities, current_ts, steered>>
    BY <1>1 DEF MousePosition
  <1> QED
    BY <1>1, <1>2 DEF GameInv, ServerInv, WireInv, HistoryInv, wire, World

LEMMA Leaves ==
    ASSUME GameInv, PlayerLeaves
    PROVE  GameInv'
  <1>1. PICK p \in Peer :
          /\ ServerDisconnect(p)
          /\ down' = [down EXCEPT ![p] = <<>>]
          /\ up' = [up EXCEPT ![p] = <<>>]
          /\ brought' = [brought EXCEPT ![p] = <<>>]
          /\ shown' = [shown EXCEPT ![p] = None]
          /\ UNCHANGED <<state, log, reused>>
    BY DEF PlayerLeaves
  <1> DEFINE left == [World EXCEPT ![At(clients_entities, p, 1)].user_id = AI]
  <1>2. /\ conn' = conn \ {p}
        /\ entities' = [entities EXCEPT ![current_ts] = left]
        /\ clients' = Erase(clients, p)
        /\ clients_entities' = Erase(clients_entities, p)
        /\ UNCHANGED <<last_target, last_ts, current_ts, steered>>
    BY <1>1 DEF ServerDisconnect, Abandoned, EntityOf, FirstEntity
  <1>3. Owned(clients, clients_entities, World)
    BY DEF GameInv, ServerInv
  <1>4. /\ Owned(Erase(clients, p), Erase(clients_entities, p), left)
        /\ Len(left) = Len(World)
    BY <1>3, OwnedLeft
  <1> HIDE DEF left
  <1>5. left \in Seq(Entity) /\ Len(World) \in Nat
    BY <1>4, WorldLen DEF GameInv, Owned
  <1>6. /\ World' = left
        /\ IsTable(entities', 0 .. current_ts, Snapshots)
        /\ current_ts \in DOMAIN entities'
        /\ HistoryInv'
    BY <1>1, <1>2, <1>5, WorldReplaced DEF GameInv
  <1>7. ServerInv'
    <2>1. IsTable(clients', conn', PlayerId)
      BY <1>2, TableErase DEF GameInv, ServerInv
    <2>2. IsTable(clients_entities', Peer \ {p}, Nat)
      BY <1>2, TableErase DEF GameInv, ServerInv
    <2>3. IsTable(clients_entities', Peer, Nat)
      BY <2>2, TableWider
    <2>4. Owned(clients, clients_entities, World)'
      BY <1>2, <1>4, <1>6
    <2> QED
      BY <1>2, <1>6, <2>1, <2>3, <2>4 DEF GameInv, ServerInv
  <1>8. WireInv'
    <2>1. /\ down' \in [Peer -> Seq(Frames(current_ts))] /\ up' \in [Peer -> Seq(0 .. current_ts - 1)]
          /\ brought' \in [Peer -> Drawings] /\ shown' \in [Peer -> 0 .. current_ts - 1 \cup {None}]
      BY <1>1 DEF GameInv, WireInv, Drawings
    <2> QED
      BY <1>1, <1>2, <1>4, <1>5, <1>6, <2>1 DEF GameInv, WireInv
  <1> QED
    BY <1>6, <1>7, <1>8 DEF GameInv

LEMMA Ticks ==
    ASSUME GameInv, ServerTicks
    PROVE  GameInv'
  <1>1. PICK world \in Moved(World) :
          /\ Tick(world)
          /\ down' = [p \in Peer |-> IF p \in DOMAIN clients
                                     THEN Queue(down[p], FrameFor(p, world)) ELSE down[p]]
          /\ log' = Put(log, current_ts, world)
          /\ UNCHANGED <<up, state, brought, shown, reused>>
    BY DEF ServerTicks
  <1>2. /\ current_ts < MaxTs
        /\ steered' = {EntityOf(p) : p \in last_target}
        /\ clients_entities' =
             [p \in DOMAIN clients_entities \cup last_target |-> EntityOf(p)]
        /\ entities' = Stored(world)
        /\ current_ts' = current_ts + 1
        /\ UNCHANGED <<conn, clients, last_target, last_ts>>
    BY <1>1 DEF Tick
  <1>3. /\ conn \subseteq Peer
        /\ IsTable(clients, conn, PlayerId)
        /\ IsTable(clients_entities, Peer, Nat)
        /\ last_target \subseteq Peer
        /\ current_ts \in Nat
        /\ IsTable(last_ts, Peer, 0 .. current_ts - 1)
        /\ IsTable(entities, 0 .. current_ts, Snapshots)
        /\ Owned(clients, clients_entities, World)
    BY DEF GameInv, ServerInv
  <1>4. /\ Owned(clients, clients_entities', world)
        /\ Len(world) = Len(World)
        /\ \A p : EntityOf(p) \in 1 .. Len(world)
    BY <1>2, <1>3, OwnedMoved DEF EntityOf, FirstEntity
  <1>5. world \in Seq(Entity)
    BY <1>4 DEF Owned
  <1>6. /\ DOMAIN entities' = DOMAIN entities \cup Revived \cup {current_ts + 1}
        /\ entities'[current_ts + 1] = world
        /\ current_ts \in DOMAIN entities' => entities'[current_ts] = world
        /\ \A t \in DOMAIN entities' :
             t # current_ts /\ t # current_ts + 1 => entities'[t] = At(entities, t, <<>>)
        /\ entities' = [t \in DOMAIN entities' |-> entities'[t]]
    BY <1>2, <1>3 DEF Stored
  <1>7. Revived \subseteq 0 .. current_ts - 1
    BY <1>3 DEF Revived, IsTable
  <1>8. World' = world
    BY <1>2, <1>6 DEF World
  <1>9. IsTable(entities', 0 .. current_ts', Snapshots) /\ current_ts' \in DOMAIN entities'
    <2>1. DOMAIN entities' \subseteq 0 .. current_ts'
      BY <1>2, <1>3, <1>6, <1>7 DEF IsTable
    <2>2. \A t : At(entities, t, <<>>) \in Snapshots
      BY <1>3 DEF At, IsTable, Snapshots
    <2>3. \A t \in DOMAIN entities' : entities'[t] \in Snapshots
      BY <1>5, <1>6, <2>2 DEF Snapshots
    <2> QED
      BY <1>2, <1>6, <2>1, <2>3 DEF IsTable
  <1>10. ServerInv'
    <2>1. current_ts' \in Nat /\ current_ts' <= MaxTs
      BY <1>2, <1>3
    <2>2. IsTable(last_ts', Peer, 0 .. current_ts' - 1)
      BY <1>2, <1>3 DEF IsTable
    <2>3. IsTable(clients_entities', Peer, Nat)
      <3>1. DOMAIN clients_entities \subseteq Peer
        BY <1>3 DEF IsTable
      <3>2. Len(world) \in Nat
        BY <1>5
      <3>3. \A p : EntityOf(p) \in Nat
        BY <1>4, <3>2
      <3> QED
        BY <1>2, <1>3, <3>1, <3>3 DEF IsTable
    <2>4. Owned(clients, clients_entities, World)'
      BY <1>2, <1>4, <1>8
    <2> QED
      BY <1>2, <1>3, <1>9, <2>1, <2>2, <2>3, <2>4 DEF ServerInv
  <1>11. WireInv'
    <2>1. \A p \in Peer : FrameFor(p, world) \in Frames(current_ts + 1)
      BY <1>3, <1>5, EncodedType DEF FrameFor, Frames
    <2>2. /\ Frames(current_ts) \subseteq Frames(current_ts + 1)
          /\ 0 .. current_ts - 1 \subseteq 0 .. current_ts' - 1
      BY <1>2, <1>3 DEF Frames
    <2>3. \A p \in Peer : down[p] \in Seq(Frames(current_ts + 1))
      BY <2>2, SeqWider DEF GameInv, WireInv
    <2>4. \A p \in Peer : Queue(down[p], FrameFor(p, world)) \in Seq(Frames(current_ts + 1))
      BY <2>1, <2>3, Queued
    <2>5. down' \in [Peer -> Seq(Frames(current_ts'))]
      BY <1>1, <1>2, <2>3, <2>4
    <2>6. \A p \in Peer : up[p] \in Seq(0 .. current_ts' - 1)
      <3>1. \A p \in Peer : up[p] \in Seq(0 .. current_ts - 1)
        BY DEF GameInv, WireInv
      <3>2. \A q \in Seq(0 .. current_ts - 1) : q \in Seq(0 .. current_ts' - 1)
        BY <2>2, SeqWider
      <3> QED
        BY <3>1, <3>2
    <2>7. up' \in [Peer -> Seq(0 .. current_ts' - 1)]
      BY <1>1, <2>6 DEF GameInv, WireInv
    <2>8. shown' \in [Peer -> 0 .. current_ts' - 1 \cup {None}]
      BY <1>1, <2>2 DEF GameInv, WireInv
    <2>9. steered' \subseteq 1 .. Len(World')
      BY <1>2, <1>4, <1>8
    <2> QED
      BY <1>1, <2>5, <2>7, <2>8, <2>9 DEF GameInv, WireInv
  <1>12. HistoryInv'
    <2>1. /\ DOMAIN log' = (0 .. current_ts - 1) \cup {current_ts}
          /\ log'[current_ts] = world
          /\ \A t \in 0 .. current_ts - 1 : log'[t] = log[t]
      BY <1>1, <1>3 DEF Put, GameInv, HistoryInv
    <2>2. DOMAIN log' = 0 .. current_ts' - 1
      BY <1>2, <1>3, <2>1
    <2>3. ASSUME NEW t \in DOMAIN entities', t < current_ts'
          PROVE  entities'[t] \in {<<>>, log'[t]}
      <3>1. t \in 0 .. current_ts'
        BY <1>9 DEF IsTable
      <3>2. CASE t = current_ts
        BY <1>6, <2>1, <3>2
      <3>3. CASE t \in 0 .. current_ts - 1
        <4>1. entities'[t] = At(entities, t, <<>>) /\ log'[t] = log[t]
          BY <1>3, <1>6, <2>1, <3>3
        <4>2. At(entities, t, <<>>) \in {<<>>, log[t]}
          BY <1>3, <3>3 DEF At, GameInv, HistoryInv
        <4> QED
          BY <4>1, <4>2
      <3> QED
        BY <1>2, <1>3, <2>3, <3>1, <3>2, <3>3
    <2> QED
      BY <2>2, <2>3 DEF HistoryInv
  <1> QED
    BY <1>10, <1>11, <1>12 DEF GameInv

LEMMA ReceivesAnswer ==
    ASSUME GameInv, ServerReceivesAnswer
    PROVE  GameInv'
  <1>1. PICK p \in Peer :
          /\ up[p] # <<>>
          /\ ClientAnswer(p, Head(up[p]))
          /\ up' = [up EXCEPT ![p] = Tail(@)]
          /\ UNCHANGED <<down, state, brought, shown, log, reused>>
    BY DEF ServerReceivesAnswer
  <1> DEFINE t == Head(up[p])
  <1>2. /\ p \in conn
        /\ last_ts' = Put(last_ts, p, t)
        /\ entities' = [u \in {v \in DOMAIN entities : Keep(last_ts', v)} |-> entities[u]]
        /\ UNCHANGED <<conn, clients, clients_entities, last_target, current_ts, steered>>
    BY <1>1 DEF ClientAnswer
  <1>3. up[p] \in Seq(0 .. current_ts - 1)
    BY DEF GameInv, WireInv
  <1>4. t \in 0 .. current_ts - 1 /\ Tail(up[p]) \in Seq(0 .. current_ts - 1)
    BY <1>1, <1>3, HeadTail
  <1> HIDE DEF t
  <1>5. IsTable(last_ts', Peer, 0 .. current_ts - 1)
    BY <1>2, <1>4, TablePut DEF GameInv, ServerInv
  <1>6. Keep(last_ts', current_ts)
    <2>1. p \in DOMAIN last_ts' /\ last_ts'[p] = t
      BY <1>2 DEF Put
    <2>2. t <= current_ts
      BY <1>4 DEF GameInv, ServerInv
    <2> QED
      BY <2>1, <2>2 DEF Keep
  <1>7. /\ DOMAIN entities' \subseteq DOMAIN entities
        /\ current_ts \in DOMAIN entities'
        /\ \A u \in DOMAIN entities' : entities'[u] = entities[u]
        /\ entities' = [u \in DOMAIN entities' |-> entities'[u]]
    BY <1>2, <1>6 DEF GameInv, ServerInv
  <1>8. World' = World
    BY <1>2, <1>7 DEF World
  <1>9. ServerInv'
    <2>1. IsTable(entities', 0 .. current_ts, Snapshots)
      BY <1>7 DEF GameInv, ServerInv, IsTable
    <2>2. Owned(clients, clients_entities, World)'
      BY <1>2, <1>8 DEF GameInv, ServerInv
    <2> QED
      BY <1>2, <1>5, <1>7, <2>1, <2>2 DEF GameInv, ServerInv
  <1>10. WireInv'
    <2>1. up' \in [Peer -> Seq(0 .. current_ts - 1)]
      BY <1>1, <1>4 DEF GameInv, WireInv
    <2> QED
      BY <1>1, <1>2, <1>8, <2>1 DEF GameInv, WireInv
  <1>11. HistoryInv'
    BY <1>1, <1>2, <1>7 DEF GameInv, HistoryInv
  <1> QED
    BY <1>9, <1>10, <1>11 DEF GameInv

LEMMA Lost ==
    ASSUME GameInv, PacketLost
    PROVE  GameInv'
  <1>1. PICK p \in Peer :
          /\ \/ down[p] # <<>> /\ down' = [down EXCEPT ![p] = Tail(@)] /\ UNCHANGED up
             \/ up[p] # <<>> /\ up' = [up EXCEPT ![p] = Tail(@)] /\ UNCHANGED down
          /\ UNCHANGED <<serverVars, state, brought, shown, log, reused>>
    BY DEF PacketLost
  <1>2. ServerInv' /\ HistoryInv' /\ World' = World
    BY <1>1 DEF GameInv, ServerInv, HistoryInv, serverVars, World
  <1>3. down[p] \in Seq(Frames(current_ts)) /\ up[p] \in Seq(0 .. current_ts - 1)
    BY DEF GameInv, WireInv
  <1>4. down' \in [Peer -> Seq(Frames(current_ts))] /\ up' \in [Peer -> Seq(0 .. current_ts - 1)]
    <2>1. /\ down[p] # <<>> => Tail(down[p]) \in Seq(Frames(current_ts))
          /\ up[p] # <<>> => Tail(up[p]) \in Seq(0 .. current_ts - 1)
      BY <1>3, HeadTail
    <2>2. down \in [Peer -> Seq(Frames(current_ts))] /\ up \in [Peer -> Seq(0 .. current_ts - 1)]
      BY DEF GameInv, WireInv
    <2>3. CASE /\ down[p] # <<>> /\ down' = [down EXCEPT ![p] = Tail(@)] /\ UNCHANGED up
      BY <2>1, <2>2, <2>3
    <2>4. CASE /\ up[p] # <<>> /\ up' = [up EXCEPT ![p] = Tail(@)] /\ UNCHANGED down
      BY <2>1, <2>2, <2>4
    <2> QED
      BY <1>1, <2>3, <2>4
  <1>5. WireInv'
    BY <1>1, <1>2, <1>4 DEF GameInv, WireInv, serverVars
  <1> QED
    BY <1>2, <1>5 DEF GameInv

LEMMA ReceivesFrame ==
    ASSUME GameInv, PlayerReceivesFrame
    PROVE  GameInv'
  <1>1. PICK p \in Peer :
          /\ down[p] # <<>>
          /\ down' = [down EXCEPT ![p] = Tail(@)]
          /\ state' = [state EXCEPT ![p] = Decode(@, Head(down[p]).delta)]
          /\ up' = [up EXCEPT ![p] = Queue(@, Head(down[p]).epoch)]
          /\ shown' = [shown EXCEPT ![p] = Head(down[p]).epoch]
          /\ UNCHANGED <<serverVars, brought, log, reused>>
    BY DEF PlayerReceivesFrame
  <1>2. ServerInv' /\ HistoryInv' /\ World' = World
    BY <1>1 DEF GameInv, ServerInv, HistoryInv, serverVars, World
  <1>3. down[p] \in Seq(Frames(current_ts)) /\ up[p] \in Seq(0 .. current_ts - 1)
    BY DEF GameInv, WireInv
  <1>4. Head(down[p]) \in Frames(current_ts) /\ Tail(down[p]) \in Seq(Frames(current_ts))
    BY <1>1, <1>3
  <1>5. Head(down[p]).epoch \in 0 .. current_ts - 1 /\ Head(down[p]).delta \in Seq(Deltas)
    BY <1>4 DEF Frames
  <1>6. Queue(up[p], Head(down[p]).epoch) \in Seq(0 .. current_ts - 1)
    BY <1>3, <1>5, Queued
  <1>9. state' \in [Peer -> Drawings]
    <2>1. state \in [Peer -> Drawings]
      BY DEF GameInv, WireInv
    <2>2. Decode(state[p], Head(down[p]).delta) \in Drawings
      BY <1>5, <2>1, DecodedType
    <2> QED
      BY <1>1, <2>1, <2>2
  <1>7. /\ down' \in [Peer -> Seq(Frames(current_ts))]
        /\ up' \in [Peer -> Seq(0 .. current_ts - 1)]
        /\ shown' \in [Peer -> 0 .. current_ts - 1 \cup {None}]
    BY <1>1, <1>4, <1>5, <1>6 DEF GameInv, WireInv
  <1>8. WireInv'
    BY <1>1, <1>2, <1>7, <1>9 DEF GameInv, WireInv, serverVars
  <1> QED
    BY <1>2, <1>8 DEF GameInv

-----------------------------------------------------------------------------
(***************************************************************************)
(* The invariant holds in every reachable state.                           *)
(***************************************************************************)
LEMMA Starts ==
    ASSUME Init
    PROVE  GameInv
  <1>1. ServerInit /\ down = [p \in Peer |-> <<>>] /\ up = [p \in Peer |-> <<>>]
        /\ state = [p \in Peer |-> <<>>] /\ brought = [p \in Peer |-> <<>>]
        /\ shown = [p \in Peer |-> None] /\ log = NoEntries /\ reused = {}
    BY DEF Init
  <1>2. PICK bodies \in [1 .. AICount -> Body] :
          entities = [t \in {0} |-> [n \in 1 .. AICount |-> [user_id |-> AI, body |-> bodies[n]]]]
    BY <1>1 DEF ServerInit
  <1>3. /\ conn = {} /\ clients = NoEntries /\ clients_entities = NoEntries
        /\ last_target = {} /\ last_ts = NoEntries /\ current_ts = 0 /\ steered = {}
    BY <1>1 DEF ServerInit
  <1> DEFINE w == [n \in 1 .. AICount |-> [user_id |-> AI, body |-> bodies[n]]]
  <1>4. entities = [t \in {0} |-> w]
    BY <1>2
  <1>5. \A n \in 1 .. AICount : w[n] \in Entity /\ w[n].user_id = AI
    BY DEF Entity
  <1>6. w \in [1 .. AICount -> Entity] /\ AICount \in Nat /\ AICount >= 1
    BY <1>5, GameAssumption
  <1>7. w \in Seq(Entity) /\ Len(w) = AICount
    BY <1>6
  <1> HIDE DEF w
  <1>8. World = w /\ DOMAIN entities = {0} /\ entities[0] = w
    BY <1>3, <1>4 DEF World
  <1>9. NoEntries = [k \in {} |-> NoEntries[k]] /\ DOMAIN NoEntries = {}
    BY DEF NoEntries
  <1>10. Owned(clients, clients_entities, World)
    BY <1>3, <1>5, <1>6, <1>7, <1>8, <1>9 DEF Owned
  <1>11. ServerInv
    <2>1. IsTable(entities, 0 .. current_ts, Snapshots)
      BY <1>3, <1>4, <1>7, <1>8 DEF IsTable, Snapshots
    <2> QED
      BY <1>3, <1>8, <1>9, <1>10, <2>1, GameAssumption DEF ServerInv, IsTable
  <1>12. WireInv
    <2>1. /\ <<>> \in Seq(Frames(current_ts)) /\ <<>> \in Seq(0 .. current_ts - 1)
          /\ <<>> \in Drawings
      BY DEF Drawings
    <2> QED
      BY <1>1, <1>3, <2>1 DEF WireInv
  <1>13. HistoryInv
    BY <1>1, <1>3, <1>8, <1>9 DEF HistoryInv
  <1> QED
    BY <1>11, <1>12, <1>13 DEF GameInv

\* The invariant that the theorems below follow from: the tables and queues
\* keep their types, the entities belong to whom they should, and what is
\* kept of the past is what was broadcast.
THEOREM GameInvariance == Spec => []GameInv
  <1>1. Init => GameInv
    BY Starts
  <1>2. GameInv /\ [Next]_gameVars => GameInv'
    <2> SUFFICES ASSUME GameInv, [Next]_gameVars PROVE GameInv'
      OBVIOUS
    <2>1. CASE PlayerConnects
      BY <2>1, Connects
    <2>2. CASE PlayerIntroduces
      BY <2>2, Introduces
    <2>3. CASE PlayerAims
      BY <2>3, Aims
    <2>4. CASE PlayerLeaves
      BY <2>4, Leaves
    <2>5. CASE ServerTicks
      BY <2>5, Ticks
    <2>6. CASE ServerReceivesAnswer
      BY <2>6, ReceivesAnswer
    <2>7. CASE PacketLost
      BY <2>7, Lost
    <2>8. CASE PlayerReceivesFrame
      BY <2>8, ReceivesFrame
    <2>9. CASE UNCHANGED gameVars
      BY <2>9 DEF GameInv, ServerInv, WireInv, HistoryInv, gameVars, serverVars, World
    <2> QED
      BY <2>1, <2>2, <2>3, <2>4, <2>5, <2>6, <2>7, <2>8, <2>9 DEF Next
  <1> QED
    BY <1>1, <1>2, PTL DEF Spec

\* Every variable keeps its type: no timestamp on the wire or acknowledged
\* lies in the future, every index names an entity of the world, and the
\* snapshot being played is never dropped by an acknowledgement.
THEOREM GameTypes == Spec => []TypeOK
  <1>1. GameInv => TypeOK
    <2> SUFFICES ASSUME GameInv PROVE TypeOK
      OBVIOUS
    <2>1. current_ts \in Times /\ 0 .. current_ts \subseteq Times
          /\ 0 .. current_ts - 1 \subseteq Times
      BY GameAssumption DEF GameInv, ServerInv, Times
    <2>2. IsTable(clients_entities, Peer, 1 .. Len(World))
      BY DEF GameInv, ServerInv, Owned, IsTable
    <2>3. IsTable(entities, Times, Snapshots)
      BY <2>1, TableWider DEF GameInv, ServerInv
    <2>4. Frames(current_ts) \subseteq [epoch : Times, delta : Seq(Deltas)]
      BY <2>1 DEF Frames
    <2>5. \A q \in Seq(Frames(current_ts)) : q \in Seq([epoch : Times, delta : Seq(Deltas)])
      BY <2>4, SeqWider
    <2>6. \A q \in Seq(0 .. current_ts - 1) : q \in Seq(Times)
      BY <2>1, SeqWider
    <2>7. down \in [Peer -> Seq([epoch : Times, delta : Seq(Deltas)])]
      BY <2>5 DEF GameInv, WireInv
    <2>8. up \in [Peer -> Seq(Times)]
      BY <2>6 DEF GameInv, WireInv
    <2>9. shown \in [Peer -> Times \cup {None}]
      BY <2>1 DEF GameInv, WireInv
    <2> QED
      BY <2>1, <2>2, <2>3, <2>7, <2>8, <2>9 DEF GameInv, ServerInv, WireInv, TypeOK
  <1> QED
    BY <1>1, GameInvariance, PTL

\* A registered player has an entity of its own that carries its id, however
\* players come and go and whatever the table of entities makes up for those
\* that have none (GameServer::add_new_client, update_users and DISCONNECT).
THEOREM PlayersHaveEntities == Spec => []OwnEntity
  <1>1. GameInv => OwnEntity
    BY DEF GameInv, ServerInv, Owned, OwnEntity
  <1> QED
    BY <1>1, GameInvariance, PTL

\* An entity that carries a player's id belongs to a registered player: the
\* ones players leave behind have become AIs.
THEOREM EntitiesHavePlayers == Spec => []NoOrphans
  <1>1. GameInv => NoOrphans
    BY DEF GameInv, ServerInv, Owned, NoOrphans
  <1> QED
    BY <1>1, GameInvariance, PTL

\* What the server takes differences to is the world it broadcast at the
\* timestamp the player acknowledged, or nothing: never another world, so
\* an event after the broadcast does not reach back into the history.
THEOREM BaselinesAreHonest == Spec => []BaselineHonest
  <1>1. GameInv => BaselineHonest
    <2> SUFFICES ASSUME GameInv, NEW p \in DOMAIN last_ts
                 PROVE  Base(p) \in {<<>>, log[last_ts[p]]}
      BY DEF BaselineHonest
    <2>1. last_ts[p] \in 0 .. current_ts - 1 /\ current_ts \in Nat
      BY DEF GameInv, ServerInv, IsTable
    <2> QED
      BY <2>1 DEF Base, At, GameInv, HistoryInv
  <1> QED
    BY <1>1, GameInvariance, PTL

\* The snapshot a player acknowledged stays until that player acknowledges
\* another one: the cleanup is bounded by the slowest player.
THEOREM BaselinesAreKept == Spec => BaselineKept
  <1> DEFINE Kept == \A p \in DOMAIN last_ts :
                       last_ts[p] \in DOMAIN entities /\ last_ts'[p] = last_ts[p]
                         => last_ts[p] \in DOMAIN entities'
  <1>1. GameInv /\ [Next]_gameVars => [Kept]_gameVars
    <2> SUFFICES ASSUME GameInv, Next PROVE Kept
      OBVIOUS
    <2>1. CASE ServerReceivesAnswer
      <3>1. PICK p \in Peer : ClientAnswer(p, Head(up[p]))
        BY <2>1 DEF ServerReceivesAnswer
      <3>2. /\ last_ts' = Put(last_ts, p, Head(up[p]))
            /\ entities' = [u \in {v \in DOMAIN entities : Keep(last_ts', v)} |-> entities[u]]
        BY <3>1 DEF ClientAnswer
      <3> SUFFICES ASSUME NEW q \in DOMAIN last_ts,
                          last_ts[q] \in DOMAIN entities, last_ts'[q] = last_ts[q]
                   PROVE  last_ts[q] \in DOMAIN entities'
        OBVIOUS
      <3>3. q \in DOMAIN last_ts' /\ last_ts[q] \in 0 .. current_ts - 1
        BY <3>2 DEF Put, GameInv, ServerInv, IsTable
      <3>4. Keep(last_ts', last_ts[q])
        BY <3>3 DEF Keep
      <3> QED
        BY <3>2, <3>4
    <2>2. CASE ServerTicks
      BY <2>2 DEF ServerTicks, Tick, Stored
    <2>3. CASE PlayerIntroduces
      <3>1. DOMAIN entities' = DOMAIN entities
        BY <2>3 DEF PlayerIntroduces, ServerClientAbout, AddNewClient
      <3> QED
        BY <3>1
    <2>4. CASE PlayerLeaves
      <3>1. DOMAIN entities' = DOMAIN entities
        BY <2>4 DEF PlayerLeaves, ServerDisconnect
      <3> QED
        BY <3>1
    <2>5. CASE PlayerConnects \/ PlayerAims \/ PacketLost \/ PlayerReceivesFrame
      <3>1. entities' = entities
        BY <2>5 DEF PlayerConnects, ServerConnect, PlayerAims, MousePosition, PacketLost,
                    PlayerReceivesFrame, serverVars
      <3> QED
        BY <3>1
    <2> QED
      BY <2>1, <2>2, <2>3, <2>4, <2>5 DEF Next
  <1> QED
    BY <1>1, GameInvariance, PTL DEF Spec, BaselineKept

-----------------------------------------------------------------------------
(***************************************************************************)
(* What players draw: the world of the last frame they applied, over any   *)
(* loss of frames and acknowledgements.                                    *)
(***************************************************************************)

-----------------------------------------------------------------------------
(***************************************************************************)
(* The inductive invariant.                                                *)
(***************************************************************************)

\* Worlds only grow.
LogInv ==
    /\ \A t \in DOMAIN log : log[t] \in Seq(Entity) /\ Len(log[t]) <= Len(World)
    /\ \A t, u \in DOMAIN log : t <= u => Len(log[t]) <= Len(log[u])

\* Up to time v field f of entity n was x after a time when it was as in h[b].
Later(h, n, f, x, b, v) ==
    \E t, u \in DOMAIN h :
        /\ t < u /\ u <= v /\ n \in DOMAIN h[t]
        /\ h[t][n][f] = h[b][n][f] /\ h[u][n][f] = x

\* Whatever of s, drawn at time v, is not as in h[b] has come after that.
Follows(h, s, b, v) ==
    \A n \in DOMAIN h[b], f \in Field :
        s[n][f] = h[b][n][f] \/ Later(h, n, f, s[n][f], b, v)

\* What p draws follows the world of time b, as if p had applied it.
Holds(h, s, v, b) == b \in DOMAIN h /\ b <= v /\ Follows(h, s, b, v)
Has(p, b) == Holds(log, state[p], shown[p], b)

\* A frame has its world in full, or the difference to a world that p has.
Built(p, frame) ==
    \/ frame.delta = log[frame.epoch]
    \/ \E t \in DOMAIN log :
         Has(p, t) /\ frame.delta = Encode(log[t], log[frame.epoch])

\* p has what it acknowledged; what is on its way is newer, and in order.
Informed(p) ==
    /\ \A k \in DOMAIN up[p] : Has(p, up[p][k])
    /\ p \in DOMAIN last_ts => Has(p, last_ts[p])
    /\ \A k \in DOMAIN down[p] : shown[p] < down[p][k].epoch /\ Built(p, down[p][k])
    /\ \A k, m \in DOMAIN down[p] : k < m => down[p][k].epoch < down[p][m].epoch

\* p draws what it brought, and after its first frame the world of the last one.
Draws(p) ==
    IF shown[p] = None THEN state[p] = brought[p]
    ELSE Shows(log, state[p], brought[p], shown[p])

Synced(p) == Informed(p) /\ Draws(p)

\* Nothing is on its way from or to a slot without a player, nor was applied.
Silent == \A p \in Peer \ conn : down[p] = <<>> /\ up[p] = <<>> /\ shown[p] = None

SyncInv ==
    /\ GameInv
    /\ LogInv
    /\ Silent
    /\ reused \subseteq DOMAIN last_ts
    /\ \A p \in conn \ reused : Synced(p)

-----------------------------------------------------------------------------
(***************************************************************************)
(* Decoding.                                                               *)
(***************************************************************************)

\* new is s with the fields of w that d has, and what s lacks of w in full.
Merged(new, s, w, d) ==
    /\ DOMAIN new = DOMAIN s \cup DOMAIN w
    /\ \A n \in DOMAIN w, f \in Field :
          new[n][f] = IF n \notin DOMAIN s THEN w[n][f]
                      ELSE IF f \in DOMAIN d[n] THEN d[n][f] ELSE s[n][f]
    /\ \A n \in DOMAIN s \ DOMAIN w : new[n] = s[n]

\* The entities s lacks are all in the frame, in full.
Completes(s, w, d) ==
    DOMAIN d = 1 .. Len(w) /\ \A n \in 1 .. Len(w) : n > Len(s) => d[n] = w[n]

\* A frame that has in full every entity s lacks makes s as long as the world
\* w, writes the fields it has, and leaves what s has beyond w.
LEMMA DecodeDelta ==
    ASSUME NEW s \in Drawings, NEW w \in Seq(Entity), NEW d, Completes(s, w, d)
    PROVE  Merged(Decode(s, d), s, w, d)
  <1> USE DEF Completes
  <1>1. /\ Len(s) \in Nat /\ DOMAIN s = 1 .. Len(s)
        /\ Len(w) \in Nat /\ DOMAIN w = 1 .. Len(w)
        /\ \A n \in 1 .. Len(w) : w[n] \in Entity
    BY DEF Drawings
  <1>2. ASSUME NEW e \in Entity PROVE DOMAIN e = Field /\ "user_id" \in DOMAIN e
    BY DEF Entity, Field
  <1>3. Appended(s, d) = (Len(s) + 1) .. Len(w)
    <2>1. \A n \in 1 .. Len(w) : n > Len(s) => "user_id" \in DOMAIN d[n]
      BY <1>1, <1>2
    <2> QED
      BY <1>1, <2>1 DEF Appended
  <1> DEFINE len == Len(s) + Cardinality(Appended(s, d))
  <1>4. len = IF Len(w) > Len(s) THEN Len(w) ELSE Len(s)
    <2>1. Cardinality((Len(s) + 1) .. Len(w))
            = IF Len(s) + 1 > Len(w) THEN 0 ELSE Len(w) - (Len(s) + 1) + 1
      <3>1. Len(s) + 1 \in Int /\ Len(w) \in Int
        BY <1>1
      <3> QED
        BY <3>1, FS_Interval
    <2> QED
      BY <1>1, <1>3, <2>1
  <1> HIDE DEF len
  <1>5. 1 .. len = 1 .. Len(s) \cup 1 .. Len(w)
    BY <1>1, <1>4
  <1>6. Decode(s, d) = [n \in 1 .. len |-> IF n \in DOMAIN d /\ InRange(s, d, n)
                                           THEN Written(Entry(s, n), d[n]) ELSE Entry(s, n)]
    BY DEF Decode, len
  <1>7. \A n \in 1 .. Len(w) : n \in DOMAIN d /\ InRange(s, d, n)
    BY <1>1, <1>3 DEF InRange
  <1>8. ASSUME NEW n \in DOMAIN w, NEW f \in Field
        PROVE  Decode(s, d)[n][f] = IF n \notin DOMAIN s THEN w[n][f]
                                    ELSE IF f \in DOMAIN d[n] THEN d[n][f] ELSE s[n][f]
    <2>1. Decode(s, d)[n] = Written(Entry(s, n), d[n])
      BY <1>1, <1>5, <1>6, <1>7
    <2>2. Decode(s, d)[n][f] = IF f \in DOMAIN d[n] THEN d[n][f] ELSE Entry(s, n)[f]
      BY <2>1 DEF Written
    <2>3. CASE n \in DOMAIN s
      BY <1>1, <2>2, <2>3 DEF Entry
    <2>4. CASE n \notin DOMAIN s
      <3>1. d[n] = w[n] /\ DOMAIN w[n] = Field
        BY <1>1, <1>2, <2>4
      <3> QED
        BY <2>2, <2>4, <3>1
    <2> QED
      BY <2>3, <2>4
  <1>9. ASSUME NEW n \in DOMAIN s \ DOMAIN w PROVE Decode(s, d)[n] = s[n]
    BY <1>1, <1>5, <1>6 DEF Entry
  <1> QED
    BY <1>1, <1>5, <1>6, <1>8, <1>9 DEF Merged

\* The first frame is in full and makes its world of whatever was brought.
LEMMA FirstFrame ==
    ASSUME LogInv, NEW e \in DOMAIN log, NEW old \in Drawings
    PROVE  Shows(log, Decode(old, log[e]), old, e)
  <1> DEFINE w == log[e]
             new == Decode(old, w)
  <1>1. w \in Seq(Entity) /\ DOMAIN w = 1 .. Len(w)
    BY DEF LogInv
  <1>2. ASSUME NEW n \in DOMAIN w PROVE DOMAIN w[n] = Field
    <2>1. w[n] \in Entity
      BY <1>1
    <2> QED
      BY <2>1 DEF Entity, Field
  <1>3. Merged(new, old, w, w)
    <2>1. Completes(old, w, w)
      BY <1>1 DEF Completes
    <2> HIDE DEF w
    <2> QED
      BY <1>1, <2>1, DecodeDelta
  <1> HIDE DEF w, new
  <1>4. Shows(log, new, old, e)
    BY <1>2, <1>3 DEF Merged, Shows, w
  <1> QED
    BY <1>4 DEF new, w

\* new is s, drawn at time u, after a frame of the world at time e: a field is
\* that of the world, or that of s where a world that s follows has the same.
Advanced(new, s, u, e) ==
    /\ DOMAIN new = DOMAIN s \cup DOMAIN log[e] /\ DOMAIN log[u] \subseteq DOMAIN log[e]
    /\ \A n \in DOMAIN log[e], f \in Field :
          \/ new[n][f] = log[e][n][f]
          \/ /\ n \in DOMAIN s /\ new[n][f] = s[n][f]
             /\ \E t \in DOMAIN log :
                   /\ t <= u /\ Follows(log, s, t, u)
                   /\ n \in DOMAIN log[t] /\ log[t][n][f] = log[e][n][f]
    /\ \A n \in DOMAIN s \ DOMAIN log[e] : new[n] = s[n]

\* A later frame is in full or a difference to a world that s follows.
LEMMA Advances ==
    ASSUME GameInv, LogInv, NEW u \in DOMAIN log, NEW e \in DOMAIN log, u < e,
           NEW s \in Drawings, NEW old, Shows(log, s, old, u), NEW d,
           \/ d = log[e]
           \/ \E t \in DOMAIN log : t <= u /\ Follows(log, s, t, u) /\ d = Encode(log[t], log[e])
    PROVE  Advanced(Decode(s, d), s, u, e)
  <1> DEFINE w == log[e]
             new == Decode(s, d)
  <1>1. \A t \in DOMAIN log : t \in Nat
    BY DEF GameInv, HistoryInv, ServerInv
  <1>2. /\ w \in Seq(Entity) /\ DOMAIN w = 1 .. Len(w) /\ Len(w) \in Nat
        /\ \A n \in DOMAIN w : DOMAIN w[n] = Field
        /\ DOMAIN log[u] \subseteq DOMAIN w
    <2>1. w \in Seq(Entity) /\ log[u] \in Seq(Entity) /\ Len(log[u]) <= Len(w)
      BY <1>1 DEF LogInv
    <2>2. ASSUME NEW n \in DOMAIN w PROVE DOMAIN w[n] = Field
      <3>1. w[n] \in Entity
        BY <2>1
      <3> QED
        BY <3>1 DEF Entity, Field
    <2> HIDE DEF w
    <2> QED
      BY <2>1, <2>2
  <1>3. /\ DOMAIN s = DOMAIN log[u] \cup DOMAIN old
        /\ \A n \in DOMAIN log[u], f \in Field :
              s[n][f] = log[u][n][f] \/ Between(log, n, f, s[n][f], u)
        /\ \A n \in DOMAIN s \ DOMAIN log[u] : s[n] = old[n]
    BY DEF Shows
  \* Every field of w is sent, or was the same in a world that s follows.
  <1> DEFINE same(n, f) == \E t \in DOMAIN log :
                              /\ t <= u /\ Follows(log, s, t, u)
                              /\ n \in DOMAIN log[t] /\ log[t][n][f] = w[n][f]
  <1>4. /\ Completes(s, w, d)
        /\ \A n \in DOMAIN w, f \in Field :
              IF f \in DOMAIN d[n] THEN d[n][f] = w[n][f] ELSE same(n, f)
    <2>1. CASE d = w
      BY <1>2, <2>1 DEF Completes
    <2>2. CASE \E t \in DOMAIN log :
                  t <= u /\ Follows(log, s, t, u) /\ d = Encode(log[t], log[e])
      <3>1. PICK t \in DOMAIN log : t <= u /\ Follows(log, s, t, u) /\ d = Encode(log[t], w)
        BY <2>2
      <3>2. /\ DOMAIN d = DOMAIN w
            /\ \A n \in DOMAIN w :
                  d[n] = IF n \in DOMAIN log[t] THEN Difference(log[t][n], w[n]) ELSE w[n]
        BY <3>1 DEF Encode
      <3>3. ASSUME NEW n \in 1 .. Len(w), n > Len(s) PROVE d[n] = w[n]
        <4>1. /\ log[t] \in Seq(Entity) /\ log[u] \in Seq(Entity) /\ Len(log[t]) <= Len(log[u])
              /\ Len(s) \in Nat /\ DOMAIN s = 1 .. Len(s)
          BY <3>1 DEF LogInv, Drawings
        <4>2. n \notin DOMAIN log[u]
          BY <1>3, <3>3, <4>1
        <4>3. n \notin DOMAIN log[t]
          BY <4>1, <4>2
        <4> QED
          BY <1>2, <3>2, <4>3
      <3>4. ASSUME NEW n \in DOMAIN w, NEW f \in Field
            PROVE  IF f \in DOMAIN d[n] THEN d[n][f] = w[n][f] ELSE same(n, f)
        <4>1. CASE n \notin DOMAIN log[t]
          BY <1>2, <3>2, <4>1
        <4>2. CASE n \in DOMAIN log[t]
          <5>1. d[n] = [g \in {h \in Field : log[t][n][h] # w[n][h]} |-> w[n][g]]
            BY <3>2, <4>2 DEF Difference
          <5>2. CASE log[t][n][f] # w[n][f]
            BY <5>1, <5>2
          <5>3. CASE log[t][n][f] = w[n][f]
            BY <3>1, <4>2, <5>1, <5>3
          <5> QED
            BY <5>2, <5>3
        <4> QED
          BY <4>1, <4>2
      <3> QED
        BY <1>2, <3>2, <3>3, <3>4 DEF Completes
    <2> QED
      BY <2>1, <2>2
  <1>5. Merged(new, s, w, d)
    <2> HIDE DEF w
    <2> QED
      BY <1>2, <1>4, DecodeDelta
  <1> HIDE DEF w, new, same
  <1>6. ASSUME NEW n \in DOMAIN w, NEW f \in Field
        PROVE  \/ new[n][f] = w[n][f]
               \/ n \in DOMAIN s /\ new[n][f] = s[n][f] /\ same(n, f)
    BY <1>4, <1>5 DEF Merged
  <1>7. Advanced(new, s, u, e)
    BY <1>2, <1>5, <1>6 DEF Merged, Advanced, w, same
  <1> QED
    BY <1>7 DEF new

\* It then is the world of the frame, but for fields that came back.
LEMMA NextFrame ==
    ASSUME GameInv, LogInv, NEW u \in DOMAIN log, NEW e \in DOMAIN log, u < e,
           NEW s, NEW old, Shows(log, s, old, u), NEW new, Advanced(new, s, u, e)
    PROVE  Shows(log, new, old, e)
  <1>1. \A t \in DOMAIN log : t \in Nat
    BY DEF GameInv, HistoryInv, ServerInv
  <1>2. ASSUME NEW n \in DOMAIN log[e], NEW f \in Field, new[n][f] # log[e][n][f]
        PROVE  Between(log, n, f, new[n][f], e)
    <2> DEFINE x == new[n][f]
    <2>1. PICK t \in DOMAIN log :
            /\ t <= u /\ Follows(log, s, t, u) /\ x = s[n][f]
            /\ n \in DOMAIN log[t] /\ log[t][n][f] = log[e][n][f]
      BY <1>2 DEF Advanced
    <2> HIDE DEF x
    <2>2. Later(log, n, f, x, t, u)
      BY <1>2, <2>1 DEF Follows, x
    <2>3. PICK r, q \in DOMAIN log :
            /\ r < q /\ q <= u /\ n \in DOMAIN log[r]
            /\ log[r][n][f] = log[t][n][f] /\ log[q][n][f] = x
      BY <2>2 DEF Later
    <2>4. q < e /\ log[r][n][f] = log[e][n][f]
      BY <1>1, <2>1, <2>3
    <2>5. Between(log, n, f, x, e)
      BY <2>3, <2>4 DEF Between
    <2> QED
      BY <2>5 DEF x
  <1>3. /\ DOMAIN new = DOMAIN log[e] \cup DOMAIN old
        /\ \A n \in DOMAIN new \ DOMAIN log[e] : new[n] = old[n]
    BY DEF Shows, Advanced
  <1> QED
    BY <1>2, <1>3 DEF Shows

\* What shows a world follows it, and goes on following those before.
LEMMA ShownFollows ==
    ASSUME GameInv, NEW v \in DOMAIN log, NEW s, NEW old, Shows(log, s, old, v)
    PROVE  Follows(log, s, v, v)
  <1>1. \A t \in DOMAIN log : t \in Nat
    BY DEF GameInv, HistoryInv, ServerInv
  <1>2. ASSUME NEW n, NEW f, NEW x, Between(log, n, f, x, v)
        PROVE  Later(log, n, f, x, v, v)
    BY <1>1, <1>2 DEF Between, Later
  <1> QED
    BY <1>2 DEF Shows, Follows

LEMMA GoesOn ==
    ASSUME GameInv, LogInv, NEW u \in DOMAIN log, NEW e \in DOMAIN log, u < e,
           NEW s, NEW new, Advanced(new, s, u, e),
           NEW b \in DOMAIN log, b <= u, Follows(log, s, b, u)
    PROVE  Follows(log, new, b, e)
  <1>1. \A t \in DOMAIN log : t \in Nat
    BY DEF GameInv, HistoryInv, ServerInv
  <1>2. DOMAIN log[b] \subseteq DOMAIN log[e]
    <2>1. log[b] \in Seq(Entity) /\ log[e] \in Seq(Entity) /\ Len(log[b]) <= Len(log[e])
      BY <1>1 DEF LogInv
    <2> QED
      BY <2>1
  <1>3. ASSUME NEW n \in DOMAIN log[b], NEW f \in Field
        PROVE  new[n][f] = log[b][n][f] \/ Later(log, n, f, new[n][f], b, e)
    <2>1. CASE new[n][f] = log[e][n][f]
      <3>1. b < e /\ e <= e
        BY <1>1
      <3>2. Later(log, n, f, new[n][f], b, e)
        BY <2>1, <3>1 DEF Later
      <3> QED
        BY <3>2
    <2>2. CASE new[n][f] = s[n][f]
      <3> DEFINE x == s[n][f]
      <3> HIDE DEF x
      <3>1. x = log[b][n][f] \/ Later(log, n, f, x, b, u)
        BY DEF Follows, x
      <3>2. Later(log, n, f, x, b, u) => Later(log, n, f, x, b, e)
        BY <1>1 DEF Later
      <3> QED
        BY <2>2, <3>1, <3>2 DEF x
    <2> QED
      BY <1>2, <2>1, <2>2 DEF Advanced
  <1> QED
    BY <1>3 DEF Follows

-----------------------------------------------------------------------------
(***************************************************************************)
(* Channels.                                                               *)
(***************************************************************************)

\* A queue keeps what was in it, in order, but for a packet lost at its
\* front, and has the new packet at its end.
LEMMA QueueOrder ==
    ASSUME NEW S, NEW s \in Seq(S), NEW x \in S
    PROVE  \E o \in {0, 1} : \A k \in DOMAIN Queue(s, x) :
              /\ k \in Nat /\ k + o \in 1 .. Len(s) + 1
              /\ Queue(s, x)[k] = IF k + o = Len(s) + 1 THEN x ELSE s[k + o]
  <1> DEFINE sent == Append(s, x)
  <1>1. /\ sent \in Seq(S) /\ Len(sent) = Len(s) + 1 /\ Len(s) \in Nat
        /\ DOMAIN sent = 1 .. Len(s) + 1
        /\ \A k \in 1 .. Len(s) + 1 : sent[k] = IF k = Len(s) + 1 THEN x ELSE s[k]
    OBVIOUS
  <1>2. Queue(s, x) = sent \/ Queue(s, x) = Tail(sent)
    BY DEF Queue
  <1> HIDE DEF sent
  <1>3. CASE Queue(s, x) = sent
    <2>1. \A k \in DOMAIN Queue(s, x) :
              /\ k \in Nat /\ k + 0 \in 1 .. Len(s) + 1
              /\ Queue(s, x)[k] = IF k + 0 = Len(s) + 1 THEN x ELSE s[k + 0]
      BY <1>1, <1>3
    <2> QED
      BY <2>1
  <1>4. CASE Queue(s, x) = Tail(sent)
    <2>1. /\ DOMAIN Tail(sent) = 1 .. Len(s)
          /\ \A k \in 1 .. Len(s) : Tail(sent)[k] = sent[k + 1]
      BY <1>1
    <2>2. \A k \in DOMAIN Queue(s, x) :
              /\ k \in Nat /\ k + 1 \in 1 .. Len(s) + 1
              /\ Queue(s, x)[k] = IF k + 1 = Len(s) + 1 THEN x ELSE s[k + 1]
      BY <1>1, <1>4, <2>1
    <2> QED
      BY <2>2
  <1> QED
    BY <1>2, <1>3, <1>4

\* A queue holds nothing but what was in it and what is put into it.
LEMMA QueueHas ==
    ASSUME NEW s \in Seq(Nat), NEW x \in Nat, NEW k \in DOMAIN Queue(s, x)
    PROVE  Queue(s, x)[k] = x \/ \E m \in DOMAIN s : Queue(s, x)[k] = s[m]
  <1>1. PICK o \in {0, 1} : \A j \in DOMAIN Queue(s, x) :
              /\ j \in Nat /\ j + o \in 1 .. Len(s) + 1
              /\ Queue(s, x)[j] = IF j + o = Len(s) + 1 THEN x ELSE s[j + o]
    BY QueueOrder
  <1>2. Len(s) \in Nat /\ DOMAIN s = 1 .. Len(s)
    OBVIOUS
  <1>3. CASE k + o = Len(s) + 1
    BY <1>1, <1>3
  <1>4. CASE k + o # Len(s) + 1
    BY <1>1, <1>2, <1>4
  <1> QED
    BY <1>3, <1>4

LEMMA TailOrder ==
    ASSUME NEW S, NEW s \in Seq(S), s # <<>>
    PROVE  /\ 1 \in DOMAIN s /\ Head(s) = s[1]
           /\ \A k \in DOMAIN Tail(s) : k \in Nat /\ k >= 1 /\ k + 1 \in DOMAIN s
                                        /\ Tail(s)[k] = s[k + 1]
  OBVIOUS

-----------------------------------------------------------------------------
(***************************************************************************)
(* What a step leaves alone.                                               *)
(***************************************************************************)

\* The worlds that were broadcast stay as they were.
LogGrows == \A t \in DOMAIN log : t \in DOMAIN log' /\ log'[t] = log[t]

\* A player that draws a past world draws it however many worlds follow.
LEMMA ShowsStays ==
    ASSUME LogGrows, NEW s, NEW old, NEW v \in DOMAIN log, Shows(log, s, old, v)
    PROVE  Shows(log', s, old, v)
  <1>1. log'[v] = log[v]
    BY DEF LogGrows
  <1>2. ASSUME NEW n, NEW f, NEW x, Between(log, n, f, x, v)
        PROVE  Between(log', n, f, x, v)
    BY <1>2 DEF Between, LogGrows
  <1> QED
    BY <1>1, <1>2 DEF Shows

LEMMA HoldsStays ==
    ASSUME LogGrows, NEW s, NEW v, NEW b, Holds(log, s, v, b)
    PROVE  Holds(log', s, v, b)
  <1>1. b \in DOMAIN log /\ b \in DOMAIN log' /\ log'[b] = log[b]
    BY DEF Holds, LogGrows
  <1>2. ASSUME NEW n, NEW f, NEW x, Later(log, n, f, x, b, v)
        PROVE  Later(log', n, f, x, b, v)
    BY <1>1, <1>2 DEF Later, LogGrows
  <1> QED
    BY <1>1, <1>2 DEF Holds, Follows

\* The last frame p applied is of a world in the log.
LEMMA ShownInLog ==
    ASSUME GameInv, NEW p \in Peer, shown[p] # None
    PROVE  shown[p] \in DOMAIN log
  BY DEF GameInv, WireInv, HistoryInv

LEMMA DrawsStays ==
    ASSUME GameInv, LogGrows, NEW p \in Peer, Draws(p),
           state'[p] = state[p], brought'[p] = brought[p], shown'[p] = shown[p]
    PROVE  Draws(p)'
  <1>1. CASE shown[p] = None
    BY <1>1 DEF Draws
  <1>2. CASE shown[p] # None
    <2>1. Shows(log', state[p], brought[p], shown[p])
      BY <1>2, ShownInLog, ShowsStays DEF Draws
    <2> QED
      BY <1>2, <2>1 DEF Draws
  <1> QED
    BY <1>1, <1>2

\* Every frame on its way is of a world in the log.
LEMMA Epochs ==
    ASSUME GameInv, NEW p \in Peer
    PROVE  /\ down[p] \in Seq(Frames(current_ts)) /\ up[p] \in Seq(Nat)
           /\ shown[p] \in Int /\ current_ts \in Nat
           /\ DOMAIN log = 0 .. current_ts - 1
           /\ \A k \in DOMAIN down[p] : down[p][k].epoch \in DOMAIN log
           /\ \A k \in DOMAIN up[p] : up[p][k] \in Nat
           /\ p \in DOMAIN last_ts => last_ts[p] \in DOMAIN log
  <1>1. /\ current_ts \in Nat /\ DOMAIN log = 0 .. current_ts - 1
        /\ down[p] \in Seq(Frames(current_ts)) /\ up[p] \in Seq(0 .. current_ts - 1)
        /\ shown[p] \in 0 .. current_ts - 1 \cup {None}
    BY DEF GameInv, ServerInv, WireInv, HistoryInv
  <1>2. up[p] \in Seq(Nat)
    <2>1. 0 .. current_ts - 1 \subseteq Nat
      BY <1>1
    <2> QED
      BY <1>1, <2>1, SeqWider
  <1>3. shown[p] \in Int
    BY <1>1 DEF None
  <1>4. ASSUME NEW k \in DOMAIN down[p] PROVE down[p][k].epoch \in DOMAIN log
    <2>1. down[p][k] \in Frames(current_ts)
      BY <1>1
    <2> QED
      BY <1>1, <2>1 DEF Frames
  <1>5. p \in DOMAIN last_ts => last_ts[p] \in DOMAIN log
    BY <1>1 DEF GameInv, ServerInv, IsTable
  <1> QED
    BY <1>1, <1>2, <1>3, <1>4, <1>5

\* A slot of which nothing changes.
SameSlot(p) ==
    /\ down'[p] = down[p] /\ up'[p] = up[p]
    /\ state'[p] = state[p] /\ brought'[p] = brought[p] /\ shown'[p] = shown[p]
    /\ p \in DOMAIN last_ts' => p \in DOMAIN last_ts /\ last_ts'[p] = last_ts[p]

LEMMA SlotStays ==
    ASSUME GameInv, LogGrows, NEW p \in Peer, Synced(p), SameSlot(p)
    PROVE  Synced(p)'
  <1>1. \A k \in DOMAIN down[p] : down[p][k].epoch \in DOMAIN log
    BY Epochs
  <1>2. Informed(p)'
    <2>1. \A b : Has(p, b) => Holds(log', state'[p], shown'[p], b)
      BY HoldsStays DEF Has, SameSlot
    <2>2. ASSUME NEW k \in DOMAIN down[p] PROVE Built(p, down[p][k])'
      <3>1. Built(p, down[p][k]) /\ down[p][k].epoch \in DOMAIN log
        BY <1>1 DEF Synced, Informed
      <3> QED
        BY <2>1, <3>1 DEF Built, Has, SameSlot, LogGrows
    <2> QED
      BY <2>1, <2>2 DEF Synced, Informed, Has, SameSlot
  <1>3. Draws(p)'
    BY DrawsStays DEF Synced, SameSlot
  <1> QED
    BY <1>2, <1>3 DEF Synced

\* The world was replaced by one as long or longer.
LEMMA LogStays ==
    ASSUME GameInv, LogInv, log' = log, Len(World)' \in Nat, Len(World)' >= Len(World)
    PROVE  LogInv' /\ LogGrows
  <1>1. Len(World) \in Nat /\ \A t \in DOMAIN log : Len(log[t]) \in Nat
    BY WorldLen DEF GameInv, LogInv
  <1> QED
    BY <1>1 DEF LogInv, LogGrows

-----------------------------------------------------------------------------
(***************************************************************************)
(* The actions, one by one.                                                *)
(***************************************************************************)
LEMMA ConnectsSync ==
    ASSUME SyncInv, GameInv', PlayerConnects
    PROVE  SyncInv'
  <1>1. PICK p \in Peer, old \in {<<>>} \cup {state[q] : q \in Peer \ conn} \cup OldGames :
          /\ ServerConnect(p)
          /\ state' = [state EXCEPT ![p] = old]
          /\ brought' = [brought EXCEPT ![p] = old]
          /\ reused' = IF p \in DOMAIN last_ts THEN reused \cup {p} ELSE reused \ {p}
          /\ UNCHANGED <<down, up, shown, log>>
    BY DEF PlayerConnects
  <1>2. /\ p \notin conn /\ conn' = conn \cup {p}
        /\ last_ts' = last_ts /\ current_ts' = current_ts /\ entities' = entities
    BY <1>1 DEF ServerConnect
  <1>3. /\ GameInv /\ LogInv /\ Silent
        /\ DOMAIN state = Peer /\ DOMAIN brought = Peer /\ conn \subseteq Peer
    BY DEF SyncInv, GameInv, WireInv, ServerInv
  <1>4. LogInv' /\ LogGrows
    <2>1. World' = World /\ Len(World) \in Nat
      BY <1>2, <1>3, WorldLen DEF World, GameInv
    <2> QED
      BY <1>1, <1>3, <2>1, LogStays
  <1>5. Silent'
    BY <1>1, <1>2, <1>3 DEF Silent
  <1>6. reused' \subseteq DOMAIN last_ts'
    BY <1>1, <1>2 DEF SyncInv
  <1>7. ASSUME NEW q \in conn' \ reused' PROVE Synced(q)'
    <2>1. CASE q # p
      <3>1. q \in conn \ reused /\ q \in Peer
        BY <1>1, <1>2, <1>3, <1>7, <2>1
      <3>2. Synced(q) /\ SameSlot(q)
        BY <1>1, <1>2, <1>3, <2>1, <3>1 DEF SameSlot, SyncInv
      <3> QED
        BY <1>3, <1>4, <3>1, <3>2, SlotStays
    <2>2. CASE q = p
      <3>1. down'[p] = <<>> /\ up'[p] = <<>> /\ shown'[p] = None /\ p \notin DOMAIN last_ts'
        BY <1>1, <1>2, <1>3, <1>7, <2>2 DEF Silent
      <3>2. state'[p] = brought'[p]
        BY <1>1, <1>3
      <3> QED
        BY <2>2, <3>1, <3>2 DEF Synced, Informed, Draws
    <2> QED
      BY <2>1, <2>2
  <1> QED
    BY <1>3, <1>4, <1>5, <1>6, <1>7 DEF SyncInv

\* Events that only touch the world being played, and the tables of players.
LEMMA EventSync ==
    ASSUME SyncInv, GameInv', Len(World)' >= Len(World),
           UNCHANGED <<conn, last_ts, wire>>
    PROVE  SyncInv'
  <1>1. /\ GameInv /\ LogInv /\ Silent /\ reused \subseteq DOMAIN last_ts
        /\ conn \subseteq Peer /\ \A p \in conn \ reused : Synced(p)
    BY DEF SyncInv, GameInv, ServerInv
  <1>2. UNCHANGED <<down, up, state, brought, shown, log, reused>>
    BY DEF wire
  <1>3. LogInv' /\ LogGrows
    <2>1. Len(World)' \in Nat
      BY WorldLen DEF GameInv, ServerInv, Owned
    <2> QED
      BY <1>1, <1>2, <2>1, LogStays
  <1>4. \A p \in conn \ reused : Synced(p)'
    BY <1>1, <1>2, <1>3, SlotStays DEF SameSlot
  <1> QED
    BY <1>1, <1>2, <1>3, <1>4 DEF SyncInv, Silent

LEMMA IntroducesSync ==
    ASSUME SyncInv, GameInv', PlayerIntroduces \/ PlayerAims \/ UNCHANGED gameVars
    PROVE  SyncInv'
  <1>1. GameInv /\ World \in Seq(Entity) /\ Len(World) \in Nat
    BY WorldLen DEF SyncInv, GameInv
  <1>2. CASE PlayerIntroduces
    <2>1. PICK p \in Peer, i \in PlayerId : ServerClientAbout(p, i) /\ UNCHANGED wire
      BY <1>2 DEF PlayerIntroduces
    <2>2. UNCHANGED <<conn, last_ts, current_ts>>
      BY <2>1 DEF ServerClientAbout
    <2>3. Len(World)' >= Len(World)
      <3>1. CASE p \in DOMAIN clients
        <4>1. World' = World
          BY <2>1, <2>2, <3>1 DEF ServerClientAbout, World
        <4> QED
          BY <1>1, <4>1
      <3>2. CASE p \notin DOMAIN clients
        <4>1. PICK b \in Body :
                entities' = [entities EXCEPT ![current_ts] =
                               Append(World, [user_id |-> i, body |-> b])]
          BY <2>1, <3>2 DEF ServerClientAbout, AddNewClient
        <4> DEFINE e == [user_id |-> i, body |-> b]
        <4>2. e \in Entity
          BY DEF Entity
        <4> HIDE DEF e
        <4>3. Append(World, e) \in Seq(Entity) /\ Len(Append(World, e)) = Len(World) + 1
          BY <1>1, <4>2
        <4>4. World' = Append(World, e)
          BY <1>1, <2>2, <4>1 DEF World, GameInv, ServerInv, e
        <4> QED
          BY <1>1, <4>3, <4>4
      <3> QED
        BY <3>1, <3>2
    <2> QED
      BY <2>1, <2>2, <2>3, EventSync
  <1>3. CASE PlayerAims
    <2>1. UNCHANGED <<conn, last_ts, entities, current_ts, wire>>
      BY <1>3 DEF PlayerAims, MousePosition
    <2>2. World' = World
      BY <2>1 DEF World
    <2> QED
      BY <1>1, <2>1, <2>2, EventSync
  <1>4. CASE UNCHANGED gameVars
    <2>1. UNCHANGED <<conn, last_ts, entities, current_ts, wire>>
      BY <1>4 DEF gameVars, serverVars, wire
    <2>2. World' = World
      BY <2>1 DEF World
    <2> QED
      BY <1>1, <2>1, <2>2, EventSync
  <1> QED
    BY <1>2, <1>3, <1>4

LEMMA LeavesSync ==
    ASSUME SyncInv, GameInv', PlayerLeaves
    PROVE  SyncInv'
  <1>1. PICK p \in Peer :
          /\ ServerDisconnect(p)
          /\ down' = [down EXCEPT ![p] = <<>>]
          /\ up' = [up EXCEPT ![p] = <<>>]
          /\ brought' = [brought EXCEPT ![p] = <<>>]
          /\ shown' = [shown EXCEPT ![p] = None]
          /\ UNCHANGED <<state, log, reused>>
    BY DEF PlayerLeaves
  <1>2. /\ conn' = conn \ {p} /\ entities' = [entities EXCEPT ![current_ts] = Abandoned(p)]
        /\ UNCHANGED <<last_ts, current_ts>>
    BY <1>1 DEF ServerDisconnect
  <1>3. /\ GameInv /\ LogInv /\ Silent /\ reused \subseteq DOMAIN last_ts
        /\ conn \subseteq Peer /\ \A q \in conn \ reused : Synced(q)
        /\ DOMAIN state = Peer /\ DOMAIN brought = Peer /\ DOMAIN shown = Peer
        /\ DOMAIN down = Peer /\ DOMAIN up = Peer
    BY DEF SyncInv, GameInv, WireInv, ServerInv
  <1>4. LogInv' /\ LogGrows
    <2>1. Owned(clients, clients_entities, World) /\ current_ts \in DOMAIN entities
      BY <1>3 DEF GameInv, ServerInv
    <2>2. Len(Abandoned(p)) = Len(World)
      BY <2>1, OwnedLeft DEF Abandoned, EntityOf, FirstEntity
    <2>3. World' = Abandoned(p) /\ Len(World) \in Nat
      BY <1>2, <1>3, <2>1, WorldLen DEF World, GameInv
    <2>4. Len(World)' = Len(World)
      BY <2>2, <2>3
    <2> QED
      BY <1>1, <1>3, <2>3, <2>4, LogStays
  <1>5. Silent'
    BY <1>1, <1>2, <1>3 DEF Silent
  <1>6. ASSUME NEW q \in conn' \ reused PROVE Synced(q)'
    <2>1. q # p /\ q \in conn \ reused /\ q \in Peer
      BY <1>2, <1>3
    <2>2. SameSlot(q)
      BY <1>1, <1>2, <1>3, <2>1 DEF SameSlot
    <2> QED
      BY <1>3, <1>4, <2>1, <2>2, SlotStays
  <1> QED
    BY <1>1, <1>2, <1>3, <1>4, <1>5, <1>6 DEF SyncInv

\* A packet leaves the channels of p at the front.
LEMMA LostSync ==
    ASSUME SyncInv, GameInv', PacketLost
    PROVE  SyncInv'
  <1>1. PICK p \in Peer :
          /\ \/ down[p] # <<>> /\ down' = [down EXCEPT ![p] = Tail(@)] /\ UNCHANGED up
             \/ up[p] # <<>> /\ up' = [up EXCEPT ![p] = Tail(@)] /\ UNCHANGED down
          /\ UNCHANGED <<serverVars, state, brought, shown, log, reused>>
    BY DEF PacketLost
  <1>2. UNCHANGED <<conn, last_ts, current_ts, entities, state, brought, shown, log, reused>>
    BY <1>1 DEF serverVars
  <1>3. /\ GameInv /\ LogInv /\ Silent /\ reused \subseteq DOMAIN last_ts
        /\ conn \subseteq Peer /\ \A q \in conn \ reused : Synced(q)
        /\ DOMAIN down = Peer /\ DOMAIN up = Peer
    BY DEF SyncInv, GameInv, WireInv, ServerInv
  <1>4. LogInv' /\ LogGrows
    <2>1. World' = World /\ Len(World) \in Nat
      BY <1>2, <1>3, WorldLen DEF World, GameInv
    <2> QED
      BY <1>2, <1>3, <2>1, LogStays
  <1>5. Silent'
    BY <1>1, <1>2, <1>3 DEF Silent
  <1>6. ASSUME NEW q \in conn \ reused PROVE Synced(q)'
    <2>1. CASE q # p
      <3>1. SameSlot(q)
        BY <1>1, <1>2, <1>3, <2>1 DEF SameSlot
      <3> QED
        BY <1>3, <1>4, <3>1, SlotStays
    <2>2. CASE q = p /\ down[p] # <<>> /\ down' = [down EXCEPT ![p] = Tail(@)] /\ UNCHANGED up
      <3>1. down[p] \in Seq(Frames(current_ts)) /\ down'[p] = Tail(down[p])
        BY <1>3, <2>2, Epochs
      <3>2. \A k \in DOMAIN down'[p] : k \in Nat /\ k + 1 \in DOMAIN down[p]
                                        /\ down'[p][k] = down[p][k + 1]
        BY <2>2, <3>1, TailOrder, ZenonT(40)
      <3>3. Informed(p)
        BY <1>3, <2>2 DEF Synced
      <3>4. ASSUME NEW k \in DOMAIN down'[p]
            PROVE  shown[p] < down'[p][k].epoch /\ Built(p, down[p][k])'
        <4>1. /\ k + 1 \in DOMAIN down[p] /\ down'[p][k] = down[p][k + 1]
              /\ shown[p] < down[p][k + 1].epoch /\ Built(p, down[p][k + 1])
          BY <3>2, <3>3 DEF Informed
        <4> QED
          BY <1>2, <4>1 DEF Built, Has
      <3>5. ASSUME NEW k \in DOMAIN down'[p], NEW m \in DOMAIN down'[p], k < m
            PROVE  down'[p][k].epoch < down'[p][m].epoch
        <4>1. k + 1 \in DOMAIN down[p] /\ m + 1 \in DOMAIN down[p] /\ k + 1 < m + 1
          BY <3>2, <3>5
        <4> QED
          BY <3>2, <3>3, <4>1 DEF Informed
      <3>6. Informed(p)'
        BY <1>2, <2>2, <3>3, <3>4, <3>5 DEF Informed, Has
      <3>7. Draws(p)'
        BY <1>2, <1>3, <1>4, <2>2, DrawsStays DEF Synced
      <3> QED
        BY <2>2, <3>6, <3>7 DEF Synced
    <2>3. CASE q = p /\ up[p] # <<>> /\ up' = [up EXCEPT ![p] = Tail(@)] /\ UNCHANGED down
      <3>1. up[p] \in Seq(Nat) /\ up'[p] = Tail(up[p])
        BY <1>3, <2>3, Epochs
      <3>2. \A k \in DOMAIN up'[p] : k + 1 \in DOMAIN up[p] /\ up'[p][k] = up[p][k + 1]
        BY <2>3, <3>1, TailOrder, ZenonT(40)
      <3>3. Informed(p)
        BY <1>3, <2>3 DEF Synced
      <3>4. \A k \in DOMAIN down[p] : Built(p, down[p][k])'
        BY <1>2, <2>3, <3>3 DEF Informed, Built, Has
      <3>5. Informed(p)'
        BY <1>2, <2>3, <3>2, <3>3, <3>4 DEF Informed, Has
      <3>6. Draws(p)'
        BY <1>2, <1>3, <1>4, <2>3, DrawsStays DEF Synced
      <3> QED
        BY <2>3, <3>5, <3>6 DEF Synced
    <2> QED
      BY <1>1, <2>1, <2>2, <2>3
  <1> QED
    BY <1>1, <1>2, <1>3, <1>4, <1>5, <1>6 DEF SyncInv

\* An acknowledgement reaches the server: its player has applied that frame.
LEMMA AnswerSync ==
    ASSUME SyncInv, GameInv', ServerReceivesAnswer
    PROVE  SyncInv'
  <1>1. PICK p \in Peer :
          /\ up[p] # <<>>
          /\ ClientAnswer(p, Head(up[p]))
          /\ up' = [up EXCEPT ![p] = Tail(@)]
          /\ UNCHANGED <<down, state, brought, shown, log, reused>>
    BY DEF ServerReceivesAnswer
  <1> DEFINE ts == Head(up[p])
  <1>2. /\ last_ts' = Put(last_ts, p, ts)
        /\ entities' = [u \in {v \in DOMAIN entities : Keep(last_ts', v)} |-> entities[u]]
        /\ UNCHANGED <<conn, current_ts>>
    BY <1>1 DEF ClientAnswer
  <1>3. /\ GameInv /\ LogInv /\ Silent /\ reused \subseteq DOMAIN last_ts
        /\ conn \subseteq Peer /\ \A q \in conn \ reused : Synced(q)
        /\ DOMAIN down = Peer /\ DOMAIN up = Peer
    BY DEF SyncInv, GameInv, WireInv, ServerInv
  <1>4. /\ up[p] \in Seq(Nat) /\ up'[p] = Tail(up[p])
        /\ 1 \in DOMAIN up[p] /\ ts = up[p][1]
        /\ \A k \in DOMAIN up'[p] : k + 1 \in DOMAIN up[p] /\ up'[p][k] = up[p][k + 1]
    <2>1. up[p] \in Seq(Nat) /\ up'[p] = Tail(up[p])
      BY <1>1, <1>3, Epochs
    <2> QED
      BY <1>1, <2>1, TailOrder, ZenonT(40)
  <1> HIDE DEF ts
  <1>5. LogInv' /\ LogGrows
    <2>1. current_ts \in DOMAIN entities'
      BY <1>2 DEF GameInv, ServerInv
    <2>2. World' = World /\ Len(World) \in Nat
      BY <1>2, <1>3, <2>1, WorldLen DEF World, GameInv
    <2> QED
      BY <1>1, <1>3, <2>2, LogStays
  <1>6. /\ DOMAIN last_ts' = DOMAIN last_ts \cup {p} /\ last_ts'[p] = ts
        /\ \A q \in DOMAIN last_ts : q # p => last_ts'[q] = last_ts[q]
    BY <1>2 DEF Put
  <1>7. Silent'
    BY <1>1, <1>2, <1>3 DEF Silent
  <1>8. ASSUME NEW q \in conn \ reused PROVE Synced(q)'
    <2>1. CASE q # p
      <3>1. SameSlot(q)
        BY <1>1, <1>3, <1>6, <2>1 DEF SameSlot
      <3> QED
        BY <1>3, <1>5, <3>1, SlotStays
    <2>2. CASE q = p
      <3>1. Informed(p)
        BY <1>3, <2>2 DEF Synced
      <3>2. Has(p, last_ts'[p])
        BY <1>4, <1>6, <3>1 DEF Informed
      <3>3. \A k \in DOMAIN up'[p] : Has(p, up'[p][k])
        BY <1>4, <3>1 DEF Informed
      <3>4. \A k \in DOMAIN down[p] : Built(p, down[p][k])'
        BY <1>1, <3>1 DEF Informed, Built, Has
      <3>5. Informed(p)'
        BY <1>1, <3>1, <3>2, <3>3, <3>4 DEF Informed, Has
      <3>6. Draws(p)'
        BY <1>1, <1>3, <1>5, <2>2, DrawsStays DEF Synced
      <3> QED
        BY <2>2, <3>5, <3>6 DEF Synced
    <2> QED
      BY <2>1, <2>2
  <1> QED
    BY <1>1, <1>2, <1>3, <1>5, <1>6, <1>7, <1>8 DEF SyncInv

\* A frame arrives: it makes the world of its timestamp of what p drew.
LEMMA FrameSync ==
    ASSUME SyncInv, GameInv', PlayerReceivesFrame
    PROVE  SyncInv'
  <1>1. PICK p \in Peer :
          /\ down[p] # <<>>
          /\ down' = [down EXCEPT ![p] = Tail(@)]
          /\ state' = [state EXCEPT ![p] = Decode(@, Head(down[p]).delta)]
          /\ up' = [up EXCEPT ![p] = Queue(@, Head(down[p]).epoch)]
          /\ shown' = [shown EXCEPT ![p] = Head(down[p]).epoch]
          /\ UNCHANGED <<serverVars, brought, log, reused>>
    BY DEF PlayerReceivesFrame
  <1>2. UNCHANGED <<conn, last_ts, current_ts, entities, brought, log, reused>>
    BY <1>1 DEF serverVars
  <1>3. /\ GameInv /\ LogInv /\ Silent /\ reused \subseteq DOMAIN last_ts
        /\ conn \subseteq Peer /\ \A q \in conn \ reused : Synced(q)
        /\ DOMAIN state = Peer /\ DOMAIN brought = Peer /\ DOMAIN shown = Peer
        /\ DOMAIN down = Peer /\ DOMAIN up = Peer /\ state[p] \in Drawings
    BY DEF SyncInv, GameInv, WireInv, ServerInv
  <1>4. LogInv' /\ LogGrows
    <2>1. World' = World /\ Len(World) \in Nat
      BY <1>2, <1>3, WorldLen DEF World, GameInv
    <2> QED
      BY <1>2, <1>3, <2>1, LogStays
  <1> DEFINE frame == down[p][1]
             e == frame.epoch
  <1>5. /\ Head(down[p]) = frame /\ 1 \in DOMAIN down[p]
        /\ \A k \in DOMAIN Tail(down[p]) : /\ k \in Nat /\ k >= 1 /\ k + 1 \in DOMAIN down[p]
                                          /\ Tail(down[p])[k] = down[p][k + 1]
    <2>1. down[p] \in Seq(Frames(current_ts))
      BY <1>3, Epochs
    <2> QED
      BY <1>1, <2>1, TailOrder
  <1>6. e \in DOMAIN log /\ e \in Nat /\ DOMAIN log = 0 .. current_ts - 1
    <2>1. e \in DOMAIN log /\ DOMAIN log = 0 .. current_ts - 1 /\ current_ts \in Nat
      BY <1>3, <1>5, Epochs
    <2> QED
      BY <2>1
  <1>7. /\ down'[p] = Tail(down[p]) /\ state'[p] = Decode(state[p], frame.delta)
        /\ up'[p] = Queue(up[p], e) /\ shown'[p] = e
        /\ \A q \in Peer : q # p => /\ down'[q] = down[q] /\ state'[q] = state[q]
                                   /\ up'[q] = up[q] /\ shown'[q] = shown[q]
    BY <1>1, <1>3, <1>5
  <1>8. Silent'
    BY <1>1, <1>2, <1>3, <1>7 DEF Silent
  <1>9. ASSUME NEW q \in conn \ reused, q # p PROVE Synced(q)'
    <2>1. SameSlot(q)
      BY <1>2, <1>3, <1>7, <1>9 DEF SameSlot
    <2> QED
      BY <1>3, <1>4, <2>1, SlotStays
  \* What p draws then, and that it goes on having what it had.
  <1>10. ASSUME p \in conn \ reused
         PROVE  /\ Shows(log, state'[p], brought[p], e)
                /\ \A b : Has(p, b) => Holds(log, state'[p], e, b)
    <2>1. Draws(p) /\ Informed(p) /\ shown[p] \in Int
      BY <1>3, <1>10, Epochs DEF Synced
    <2>2. shown[p] < e /\ Built(p, frame)
      BY <1>5, <2>1 DEF Informed
    <2>3. CASE shown[p] = None
      <3>1. \A t : ~Has(p, t)
        BY <1>6, <2>3 DEF None, Has, Holds
      <3>2. frame.delta = log[e] /\ state[p] = brought[p]
        BY <2>1, <2>2, <2>3, <3>1 DEF Built, Draws
      <3>3. Shows(log, Decode(state[p], frame.delta), brought[p], e)
        BY <1>3, <1>6, <3>2, FirstFrame
      <3> QED
        BY <1>7, <3>1, <3>3
    <2>4. CASE shown[p] # None
      <3> DEFINE u == shown[p]
                 s == state[p]
                 new == Decode(s, frame.delta)
      <3>1. u \in DOMAIN log /\ Shows(log, s, brought[p], u)
        BY <1>3, <2>1, <2>4, ShownInLog DEF Draws
      <3>2. \/ frame.delta = log[e]
            \/ \E t \in DOMAIN log :
                 t <= u /\ Follows(log, s, t, u) /\ frame.delta = Encode(log[t], log[e])
        BY <2>2 DEF Built, Has, Holds
      <3>3. Advanced(new, s, u, e)
        BY <1>3, <1>6, <2>2, <3>1, <3>2, Advances
      <3>4. e \in DOMAIN log /\ u < e /\ state'[p] = new
        BY <1>6, <1>7, <2>2
      <3> HIDE DEF u, s, new, e
      <3>5. Shows(log, new, brought[p], e)
        BY <1>3, <3>1, <3>3, <3>4, NextFrame
      <3>6. ASSUME NEW b, Holds(log, s, u, b) PROVE Holds(log, new, e, b)
        <4>1. b \in DOMAIN log /\ b <= u /\ Follows(log, s, b, u)
          BY <3>6 DEF Holds
        <4>2. Follows(log, new, b, e)
          BY <1>3, <3>1, <3>3, <3>4, <4>1, GoesOn
        <4>3. b <= e
          BY <1>6, <3>1, <3>4, <4>1
        <4> QED
          BY <4>1, <4>2, <4>3 DEF Holds
      <3> QED
        BY <3>4, <3>5, <3>6 DEF Has, u, s
    <2> QED
      BY <2>3, <2>4
  <1>11. ASSUME p \in conn \ reused PROVE Synced(p)'
    <2>1. Informed(p) /\ shown[p] \in Int
      BY <1>3, <1>11, Epochs DEF Synced
    <2>2. shown[p] < e
      BY <1>5, <2>1 DEF Informed
    <2>3. \A b : Has(p, b) => Holds(log, state'[p], e, b)
      BY <1>10, <1>11
    <2>4. Holds(log, state'[p], e, e)
      BY <1>3, <1>6, <1>10, <1>11, ShownFollows DEF Holds
    <2>5. \A k \in DOMAIN up'[p] : Holds(log, state'[p], e, up'[p][k])
      <3>1. up[p] \in Seq(Nat) /\ \A k \in DOMAIN up[p] : Holds(log, state'[p], e, up[p][k])
        BY <1>3, <2>1, <2>3, Epochs DEF Informed
      <3>2. e \in Nat
        BY <1>6
      <3> HIDE DEF e
      <3>3. ASSUME NEW k \in DOMAIN up'[p]
            PROVE  up'[p][k] = e \/ \E m \in DOMAIN up[p] : up'[p][k] = up[p][m]
        BY <1>7, <3>1, <3>2, <3>3, QueueHas
      <3> QED
        BY <2>4, <3>1, <3>3
    <2>6. ASSUME NEW k \in DOMAIN down'[p]
          PROVE  e < down'[p][k].epoch /\ Built(p, down[p][k])'
      <3>1. /\ k + 1 \in DOMAIN down[p] /\ down'[p][k] = down[p][k + 1] /\ 1 < k + 1
        BY <1>5, <1>7
      <3>2. e < down[p][k + 1].epoch /\ Built(p, down[p][k + 1])
        BY <1>5, <2>1, <3>1 DEF Informed
      <3> HIDE DEF e
      <3> QED
        BY <1>2, <1>7, <2>3, <3>1, <3>2 DEF Built, Has
    <2>7. ASSUME NEW k \in DOMAIN down'[p], NEW m \in DOMAIN down'[p], k < m
          PROVE  down'[p][k].epoch < down'[p][m].epoch
      <3>1. k + 1 \in DOMAIN down[p] /\ m + 1 \in DOMAIN down[p] /\ k + 1 < m + 1
        BY <1>5, <1>7, <2>7
      <3> QED
        BY <1>5, <1>7, <2>1, <3>1 DEF Informed
    <2>8. Informed(p)'
      BY <1>2, <1>7, <2>1, <2>3, <2>5, <2>6, <2>7 DEF Informed, Has
    <2>9. Draws(p)'
      <3>1. e # None
        BY <1>6 DEF None
      <3> QED
        BY <1>2, <1>7, <1>10, <1>11, <3>1 DEF Draws
    <2> QED
      BY <2>8, <2>9 DEF Synced
  <1>12. \A q \in conn \ reused : Synced(q)'
    BY <1>9, <1>11
  <1> QED
    BY <1>1, <1>2, <1>3, <1>4, <1>8, <1>12 DEF SyncInv

\* The frame a tick sends to p, whose baseline is what p acknowledged.
LEMMA FrameBuilt ==
    ASSUME GameInv, NEW p, p \in DOMAIN last_ts => Has(p, last_ts[p]),
           NEW world \in Seq(Entity)
    PROVE  \/ FrameFor(p, world).delta = world
           \/ \E t \in DOMAIN log :
                Has(p, t) /\ FrameFor(p, world).delta = Encode(log[t], world)
  <1>1. FrameFor(p, world).delta = Encode(Base(p), world)
    BY DEF FrameFor
  <1>2. CASE Base(p) = <<>>
    <2>1. world = [n \in DOMAIN world |-> world[n]]
      OBVIOUS
    <2>2. Encode(<<>>, world) = [n \in DOMAIN world |-> world[n]]
      BY DEF Encode
    <2> QED
      BY <1>1, <1>2, <2>1, <2>2
  <1>3. CASE Base(p) # <<>>
    <2>1. p \in DOMAIN last_ts /\ Base(p) = At(entities, last_ts[p], <<>>)
      BY <1>3 DEF Base
    <2>2. last_ts[p] \in 0 .. current_ts - 1 /\ current_ts \in Nat /\ DOMAIN log = 0 .. current_ts - 1
      BY <2>1 DEF GameInv, ServerInv, HistoryInv, IsTable
    <2>3. Base(p) = log[last_ts[p]]
      BY <1>3, <2>1, <2>2 DEF At, GameInv, HistoryInv
    <2> QED
      BY <1>1, <2>1, <2>2, <2>3
  <1> QED
    BY <1>2, <1>3

\* A tick: a new world, and a frame of it to every player.
LEMMA TickSync ==
    ASSUME SyncInv, GameInv', ServerTicks
    PROVE  SyncInv'
  <1>1. PICK world \in Moved(World) :
          /\ Tick(world)
          /\ down' = [p \in Peer |-> IF p \in DOMAIN clients
                                     THEN Queue(down[p], FrameFor(p, world)) ELSE down[p]]
          /\ log' = Put(log, current_ts, world)
          /\ UNCHANGED <<up, state, brought, shown, reused>>
    BY DEF ServerTicks
  <1>2. /\ entities' = Stored(world) /\ current_ts' = current_ts + 1
        /\ UNCHANGED <<conn, clients, last_ts>>
    BY <1>1 DEF Tick
  <1>3. /\ GameInv /\ LogInv /\ Silent /\ reused \subseteq DOMAIN last_ts
        /\ conn \subseteq Peer /\ \A q \in conn \ reused : Synced(q)
        /\ DOMAIN clients \subseteq conn /\ current_ts \in Nat
        /\ DOMAIN log = 0 .. current_ts - 1
    BY DEF SyncInv, GameInv, ServerInv, HistoryInv, IsTable
  <1>4. world \in Seq(Entity) /\ Len(world) = Len(World) /\ Len(World) \in Nat
    <2>1. Owned(clients, clients_entities, World)
      BY <1>3 DEF GameInv, ServerInv
    <2>2. Owned(clients, [q \in DOMAIN clients_entities \cup {} |-> At(clients_entities, q, 1)], world)
          /\ Len(world) = Len(World)
      BY <2>1, OwnedMoved
    <2> QED
      BY <1>3, <2>2, WorldLen DEF Owned, GameInv
  <1>5. /\ LogGrows /\ DOMAIN log' = DOMAIN log \cup {current_ts} /\ log'[current_ts] = world
        /\ \A t \in DOMAIN log : t < current_ts /\ t \in Nat
    BY <1>1, <1>3 DEF Put, LogGrows
  <1>6. LogInv'
    <2>1. World' = world
      BY <1>2, <1>3 DEF Stored, World, GameInv, ServerInv
    <2>2. ASSUME NEW t \in DOMAIN log'
          PROVE  log'[t] \in Seq(Entity) /\ Len(log'[t]) <= Len(World)'
      <3>1. CASE t = current_ts
        BY <1>4, <1>5, <2>1, <3>1
      <3>2. CASE t \in DOMAIN log
        BY <1>3, <1>4, <1>5, <2>1, <3>2 DEF LogInv, LogGrows
      <3> QED
        BY <1>5, <3>1, <3>2
    <2>3. ASSUME NEW t \in DOMAIN log', NEW u \in DOMAIN log', t <= u
          PROVE  Len(log'[t]) <= Len(log'[u])
      <3>1. CASE u = current_ts
        BY <1>5, <2>1, <2>2, <3>1
      <3>2. CASE u \in DOMAIN log
        <4>1. t \in DOMAIN log
          BY <1>3, <1>5, <2>3, <3>2
        <4> QED
          BY <1>3, <1>5, <2>3, <3>2, <4>1 DEF LogInv, LogGrows
      <3> QED
        BY <1>5, <3>1, <3>2
    <2> QED
      BY <2>2, <2>3 DEF LogInv
  <1>7. Silent'
    BY <1>1, <1>2, <1>3 DEF Silent
  <1>8. ASSUME NEW p \in conn \ reused PROVE Synced(p)'
    <2>1. CASE p \notin DOMAIN clients
      <3>1. SameSlot(p)
        BY <1>1, <1>2, <1>3, <2>1 DEF SameSlot
      <3> QED
        BY <1>3, <1>5, <3>1, SlotStays
    <2>2. CASE p \in DOMAIN clients
      <3> DEFINE frame == FrameFor(p, world)
                 before == down[p]
                 sent == Queue(before, frame)
                 all == Frames(current_ts + 1)
      <3>1. down'[p] = sent
        BY <1>1, <1>3, <2>2
      <3>2. /\ Informed(p) /\ shown[p] \in Int /\ shown[p] < current_ts
            /\ before \in Seq(Frames(current_ts))
            /\ \A k \in DOMAIN before : before[k].epoch \in DOMAIN log
        <4>1. shown[p] \in 0 .. current_ts - 1 \cup {None}
          BY <1>3 DEF GameInv, WireInv
        <4>2. shown[p] < current_ts
          BY <1>3, <4>1 DEF None
        <4> QED
          BY <1>3, <4>2, Epochs DEF Synced
      <3>3. frame \in all /\ frame.epoch = current_ts
        BY <1>3, <1>4, EncodedType DEF FrameFor, Frames
      <3>4. \/ frame.delta = world
            \/ \E t \in DOMAIN log : Has(p, t) /\ frame.delta = Encode(log[t], world)
        BY <1>3, <1>4, <3>2, FrameBuilt DEF Informed
      <3>5. before \in Seq(all)
        <4>1. Frames(current_ts) \subseteq all
          BY <1>3 DEF Frames
        <4> QED
          BY <3>2, <4>1, SeqWider
      <3> HIDE DEF frame, all, sent
      <3>6. PICK o \in {0, 1} : \A k \in DOMAIN sent :
              /\ k \in Nat /\ k + o \in 1 .. Len(before) + 1
              /\ sent[k] = IF k + o = Len(before) + 1 THEN frame ELSE before[k + o]
        BY <3>3, <3>5, QueueOrder DEF sent
      <3>7. Len(before) \in Nat /\ DOMAIN before = 1 .. Len(before)
        BY <3>5
      <3>8. ASSUME NEW k \in DOMAIN sent
            PROVE  \/ sent[k] = frame /\ k + o = Len(before) + 1
                   \/ k + o \in DOMAIN before /\ sent[k] = before[k + o]
        BY <3>6, <3>7
      <3>9. \A b : Has(p, b) => Holds(log', state'[p], shown'[p], b)
        BY <1>1, <1>5, HoldsStays DEF Has
      <3>10. \A k \in DOMAIN sent : shown[p] < sent[k].epoch
        BY <3>2, <3>3, <3>8 DEF Informed
      <3>11. ASSUME NEW k \in DOMAIN sent PROVE Built(p, down[p][k])'
        <4>1. CASE sent[k] = frame
          BY <1>1, <1>5, <3>1, <3>3, <3>4, <3>9, <4>1 DEF Built, Has, LogGrows
        <4>2. CASE k + o \in DOMAIN before /\ sent[k] = before[k + o]
          <5>1. Built(p, before[k + o]) /\ before[k + o].epoch \in DOMAIN log
            BY <3>2, <4>2 DEF Informed
          <5> QED
            BY <1>1, <1>5, <3>1, <3>9, <4>2, <5>1 DEF Built, Has, LogGrows
        <4> QED
          BY <3>8, <4>1, <4>2
      <3>12. ASSUME NEW k \in DOMAIN sent, NEW m \in DOMAIN sent, k < m
             PROVE  sent[k].epoch < sent[m].epoch
        <4>1. k + o \in DOMAIN before /\ sent[k] = before[k + o] /\ k + o < m + o
          BY <3>6, <3>7, <3>12
        <4>2. CASE m + o = Len(before) + 1
          BY <1>5, <3>2, <3>3, <3>6, <4>1, <4>2
        <4>3. CASE m + o \in DOMAIN before /\ sent[m] = before[m + o]
          BY <3>2, <4>1, <4>3 DEF Informed
        <4> QED
          BY <3>8, <4>2, <4>3
      <3>13. Informed(p)'
        BY <1>1, <1>2, <3>1, <3>2, <3>9, <3>10, <3>11, <3>12 DEF Informed, Has
      <3>14. Draws(p)'
        BY <1>1, <1>3, <1>5, DrawsStays DEF Synced
      <3> QED
        BY <3>13, <3>14 DEF Synced
    <2> QED
      BY <2>1, <2>2
  <1> QED
    BY <1>1, <1>2, <1>3, <1>6, <1>7, <1>8 DEF SyncInv

-----------------------------------------------------------------------------
(***************************************************************************)
(* The invariant, and what follows from it.                                *)
(***************************************************************************)
LEMMA SyncStart == Init => SyncInv
  <1> SUFFICES ASSUME Init PROVE SyncInv
    OBVIOUS
  <1>1. GameInv
    BY Starts
  <1>2. /\ log = NoEntries /\ reused = {} /\ last_ts = NoEntries
        /\ down = [p \in Peer |-> <<>>] /\ up = [p \in Peer |-> <<>>]
        /\ shown = [p \in Peer |-> None] /\ conn = {}
    BY DEF Init, ServerInit
  <1>3. DOMAIN log = {} /\ DOMAIN last_ts = {}
    BY <1>2 DEF NoEntries
  <1> QED
    BY <1>1, <1>2, <1>3 DEF SyncInv, LogInv, Silent

\* The log only grows, what a player acknowledged it has applied, and what it
\* draws is the world of the last frame it applied, but for fields that came
\* back, in every execution.
THEOREM Synchrony == Spec => []SyncInv
  <1>1. SyncInv /\ [Next]_gameVars /\ GameInv' => SyncInv'
    BY ConnectsSync, IntroducesSync, LeavesSync, TickSync, AnswerSync, LostSync, FrameSync
    DEF Next
  <1> QED
    BY <1>1, SyncStart, GameInvariance, PTL DEF Spec

\* A player draws the world of the last frame it applied, whatever frames and
\* acknowledgements are lost and whatever it draws of earlier games, and beyond
\* that world only what it brought.  A field is wrong only where its value came
\* back, and then it has the value between.  The one condition is that no
\* earlier player acknowledged on its slot.
THEOREM PlayersInSync == Spec => []InSync
  <1>1. SyncInv => InSync
    BY DEF SyncInv, Synced, Draws, InSync
  <1> QED
    BY <1>1, Synchrony, PTL
=============================================================================
