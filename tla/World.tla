-------------------------------- MODULE World --------------------------------
(***************************************************************************)
(* The bodies of a game and one tick of their physics (GameServer.cpp):    *)
(* update_users, update_AI, check_cond and wall_check, in that order.      *)
(*                                                                         *)
(* Arithmetic is exact: a body that moves goes anywhere on a grid that     *)
(* reaches beyond the walls, radii are integers, and NaN is a position of  *)
(* its own.  Comparisons with NaN are false.                               *)
(***************************************************************************)
EXTENDS Integers, Sequences

CONSTANTS
    weight, height,   \* the size of the field
    XS, YS,           \* the coordinates a moved body may have
    Radii,            \* the radii bodies are spawned with
    Spawned,          \* the AIs the server starts with (10)
    MaxBodies,        \* bound: bodies in the world
    NaN               \* the position of a body that was moved by 0 / 0

ASSUME WorldAssumption ==
    /\ weight \in Nat /\ height \in Nat
    /\ XS \subseteq Int /\ YS \subseteq Int
    /\ Radii \subseteq Nat
    /\ Spawned \in Nat /\ MaxBodies \in Nat
    /\ NaN \notin [x : Int, y : Int]

VARIABLES
    entities,   \* the bodies, in the order of their ids
    stray       \* whether last_target has the target of a player that left

vars == <<entities, stray>>

AI == -1
User == 0
Points == [x : XS, y : YS]
Field == {p \in Points : p.x \in 0 .. weight /\ p.y \in 0 .. height}

Lost(b) == b.pos = NaN
At(b, p) == [b EXCEPT !.pos = p]

Square(n) == n * n
dist2(p, q) == Square(p.x - q.x) + Square(p.y - q.y)
Diagonal == Square(height) + Square(weight)

\* dist2(b, c) < limit, for positions that may be NaN.
Nearer(b, c, limit) == ~Lost(b) /\ ~Lost(c) /\ dist2(b.pos, c.pos) < limit

Init ==
    /\ entities \in [1 .. Spawned -> [user_id : {AI}, pos : Field, radius : Radii]]
    /\ stray = FALSE

-----------------------------------------------------------------------------
(***************************************************************************)
(* update_users: a player moves towards the target or is there.  A target  *)
(* that was left behind moves the first body, the id operator[] inserts.   *)
(***************************************************************************)
Steered(w, n) ==
    {w[n]} \cup IF ~Lost(w[n]) /\ (w[n].user_id = User \/ (stray /\ n = 1))
               THEN {At(w[n], p) : p \in Points} ELSE {}

update_users(w) ==
    LET f[n \in 0 .. Len(w)] ==
          IF n = 0 THEN {w}
          ELSE UNION {{[v EXCEPT ![n] = b] : b \in Steered(v, n)} : v \in f[n - 1]}
    IN  f[Len(w)]

(***************************************************************************)
(* update_AI.                                                              *)
(***************************************************************************)

\* The inner loop up to body n: the nearest smaller and the nearest bigger
\* body so far, with their distances; the body itself when there is none.
Search(w, i) ==
    LET f[n \in 0 .. Len(w)] ==
          IF n = 0 THEN [eat |-> i, eat_dist |-> Diagonal,
                         predator |-> i, predator_dist |-> Diagonal]
          ELSE LET s == f[n - 1]
                   eats == n # i /\ w[i].radius > w[n].radius /\ Nearer(w[i], w[n], s.eat_dist)
                   fears == n # i /\ w[i].radius < w[n].radius
                              /\ Nearer(w[i], w[n], s.predator_dist)
               IN  [eat |-> IF eats THEN n ELSE s.eat,
                    eat_dist |-> IF eats THEN dist2(w[i].pos, w[n].pos) ELSE s.eat_dist,
                    predator |-> IF fears THEN n ELSE s.predator,
                    predator_dist |-> IF fears THEN dist2(w[i].pos, w[n].pos)
                                      ELSE s.predator_dist]
    IN  f[Len(w)]

\* Mutant of Target: what is as near as the prey does not keep it from eating.
Target_Greedy(w, i) ==
    LET s == Search(w, i)
    IN  IF s.eat_dist <= s.predator_dist THEN [body |-> s.eat, chase |-> TRUE]
        ELSE [body |-> s.predator, chase |-> FALSE]

Target(w, i) ==
    LET s == Search(w, i)
    IN  IF s.eat_dist < s.predator_dist THEN [body |-> s.eat, chase |-> TRUE]
        ELSE [body |-> s.predator, chase |-> FALSE]

\* Where a body can be after a step of direction (aim - pos) / dist: 0 / 0 for
\* a body that is its own target or is where its target is, NaN if either is.
Stepped(b, aim) ==
    IF Lost(b) \/ aim = NaN \/ aim = b.pos THEN {At(b, NaN)} ELSE {At(b, p) : p \in Points}

\* The targets are chosen for all, then the AIs move one after the other.
update_AI(w) ==
    LET targets == [i \in DOMAIN w |-> Target(w, i).body]
        f[n \in 0 .. Len(w)] ==
          IF n = 0 THEN {w}
          ELSE IF w[n].user_id # AI THEN f[n - 1]
          ELSE UNION {{[v EXCEPT ![n] = b] : b \in Stepped(v[n], v[targets[n]].pos)}
                         : v \in f[n - 1]}
    IN  f[Len(w)]

(***************************************************************************)
(* check_cond.                                                             *)
(***************************************************************************)

\* Mutant of Eats: NaN is taken for near.
Eats_Lost(b, c) ==
    /\ b.radius > c.radius
    /\ Lost(b) \/ Lost(c) \/ Nearer(b, c, Square(b.radius - c.radius))

Eats(b, c) == b.radius > c.radius /\ Nearer(b, c, Square(b.radius - c.radius))

Grown(r, eaten) == r + eaten \div 2

Shrunk(r) == r \div 2

\* Bound: an execution ends where a radius can no longer be halved exactly.
Halves(r) == r % 2 = 0

Fed(b, eaten) == [b EXCEPT !.radius = Grown(@, eaten.radius)]
Reborn(b, p) == [b EXCEPT !.radius = Shrunk(@), !.pos = p]

\* Body i against body j: the eaten one shrinks and comes back anywhere.
Meet(w, i, j) ==
    IF i # j /\ Eats(w[i], w[j])
    THEN {[w EXCEPT ![i] = Fed(w[i], w[j]), ![j] = Reborn(w[j], p)]
            : p \in {q \in Field : Halves(w[j].radius)}}
    ELSE {w}

\* The two loops, pair after pair.
check_cond(w) ==
    LET n == Len(w)
        f[k \in 0 .. n * n] ==
          IF k = 0 THEN {w}
          ELSE UNION {Meet(v, ((k - 1) \div n) + 1, ((k - 1) % n) + 1) : v \in f[k - 1]}
    IN  f[n * n]

(***************************************************************************)
(* wall_check: the near wall first, then the far one.                      *)
(***************************************************************************)

\* Mutant of Clamp: a body may stick out of the far wall.
Clamp_Centre(x, r, size) == IF x - r < 0 THEN r ELSE IF x > size THEN size ELSE x

Clamp(x, r, size) ==
    LET near == IF x - r < 0 THEN r ELSE x
    IN  IF near + r > size THEN size - r ELSE near

Walled(b) ==
    IF Lost(b) THEN b
    ELSE At(b, [x |-> Clamp(b.pos.x, b.radius, weight),
                y |-> Clamp(b.pos.y, b.radius, height)])

wall_check(w) == [i \in DOMAIN w |-> Walled(w[i])]

-----------------------------------------------------------------------------
\* Only while somebody plays.
Tick ==
    /\ \E i \in DOMAIN entities : entities[i].user_id = User
    /\ LET moved == UNION {update_AI(u) : u \in update_users(entities)}
       IN  \E w \in UNION {check_cond(v) : v \in moved} : entities' = wall_check(w)
    /\ UNCHANGED stray

\* DISCONNECT: the body of a player becomes an AI; last_target keeps the player.
Leaves ==
    /\ \E i \in DOMAIN entities :
         /\ entities[i].user_id = User
         /\ entities' = [entities EXCEPT ![i].user_id = AI]
    /\ stray' = TRUE

\* ClientAbout: a body for the new player, whose slot may be that of one that left.
Joins ==
    /\ Len(entities) < MaxBodies
    /\ \E p \in Field, r \in Radii :
         entities' = Append(entities, [user_id |-> User, pos |-> p, radius |-> r])
    /\ stray' \in {FALSE, stray}

Next == Tick \/ Leaves \/ Joins

Spec == Init /\ [][Next]_vars

-----------------------------------------------------------------------------
(***************************************************************************)
(* Properties.                                                             *)
(***************************************************************************)

\* The sum of the radii.
Total(w) ==
    LET f[n \in 0 .. Len(w)] == IF n = 0 THEN 0 ELSE f[n - 1] + w[n].radius
    IN  f[Len(w)]

\* Eating moves size from one body to another: as long as nobody joins, the
\* sum of the radii is what it was, however many bodies meet in one tick.
MassKept == [][~Joins => Total(entities') = Total(entities)]_vars

Inside(b) ==
    /\ b.pos.x - b.radius >= 0 /\ b.pos.x + b.radius <= weight
    /\ b.pos.y - b.radius >= 0 /\ b.pos.y + b.radius <= height

\* After a tick every body that fits is within the walls: the second
\* correction never undoes the first.
Walls ==
    [][~Leaves /\ ~Joins => \A i \in DOMAIN entities' :
         LET b == entities'[i]
         IN  (~Lost(b) /\ 2 * b.radius <= weight /\ 2 * b.radius <= height) => Inside(b)]_vars

\* A body whose position is NaN is out of the game for ever: it is nobody's
\* prey and nobody's danger, and nothing brings it back.
LostForEver ==
    [][\A i \in DOMAIN entities : Lost(entities[i]) =>
         Lost(entities'[i]) /\ entities'[i].radius = entities[i].radius]_vars

\* What the search is for: the smaller and the bigger bodies in sight.
Prey(w, i) == {j \in DOMAIN w : w[j].radius < w[i].radius /\ Nearer(w[i], w[j], Diagonal)}
Danger(w, i) == {j \in DOMAIN w : w[j].radius > w[i].radius /\ Nearer(w[i], w[j], Diagonal)}
Closest(w, i, S) ==
    {j \in S : \A k \in S : dist2(w[i].pos, w[j].pos) <= dist2(w[i].pos, w[k].pos)}

\* An AI goes for the closest smaller body if that is strictly closer than
\* every bigger one, else it flees the closest bigger one; with neither in
\* sight it turns on itself, and is lost.
TargetsRight ==
    \A i \in DOMAIN entities : entities[i].user_id = AI =>
        LET w == entities
            t == Target(w, i)
            safe == \E j \in Prey(w, i) : \A k \in Danger(w, i) :
                        dist2(w[i].pos, w[j].pos) < dist2(w[i].pos, w[k].pos)
        IN  IF safe THEN t.chase /\ t.body \in Closest(w, i, Prey(w, i))
            ELSE IF Danger(w, i) # {} THEN ~t.chase /\ t.body \in Closest(w, i, Danger(w, i))
            ELSE ~t.chase /\ t.body = i
=============================================================================
