----------------------------- MODULE WorldProofs -----------------------------
(***************************************************************************)
(* Theorems about World, for every field, every number of bodies and every *)
(* set of radii.  Each loop of a tick is a recursive function; its values  *)
(* come from Iteration, what they keep from Induction.                     *)
(***************************************************************************)
EXTENDS World, Recursion

Place == [x : Int, y : Int]
Body == [user_id : {AI, User}, pos : Place \cup {NaN}, radius : Nat]
Worlds == Seq(Body)

\* The worlds with as many bodies as w.
Same(w) == [1 .. Len(w) -> Body]

LEMMA SameFacts ==
    ASSUME NEW w \in Worlds
    PROVE  /\ w \in Same(w) /\ Len(w) \in Nat /\ DOMAIN w = 1 .. Len(w)
           /\ \A v \in Same(w) : v \in Worlds /\ Len(v) = Len(w) /\ DOMAIN v = 1 .. Len(w)
  <1>1. Len(w) \in Nat /\ DOMAIN w = 1 .. Len(w) /\ w \in [1 .. Len(w) -> Body]
    BY DEF Worlds
  <1>2. ASSUME NEW v \in Same(w)
        PROVE  v \in Worlds /\ Len(v) = Len(w) /\ DOMAIN v = 1 .. Len(w)
    BY <1>1 DEF Same, Worlds
  <1> QED
    BY <1>1, <1>2 DEF Same

LEMMA PlaceFacts ==
    /\ NaN \notin Place /\ Points \subseteq Place /\ Field \subseteq Points
    /\ weight \in Nat /\ height \in Nat
  BY WorldAssumption DEF Place, Points, Field

\* A body put somewhere.
LEMMA AtTypes ==
    ASSUME NEW b \in Body, NEW p \in Place \cup {NaN}
    PROVE  /\ At(b, p) \in Body /\ At(b, p).pos = p
           /\ At(b, p).radius = b.radius /\ At(b, p).user_id = b.user_id
  BY DEF At, Body

-----------------------------------------------------------------------------
(***************************************************************************)
(* update_users and update_AI.                                             *)
(***************************************************************************)

\* What moving keeps: sizes, who moves what, and that the lost are lost.
Moved(w) ==
    {v \in Same(w) : \A i \in 1 .. Len(w) :
        /\ v[i].radius = w[i].radius /\ v[i].user_id = w[i].user_id
        /\ Lost(w[i]) => Lost(v[i])}

LEMMA MovedFacts ==
    ASSUME NEW w \in Worlds, NEW v \in Moved(w), NEW n \in 1 .. Len(w), NEW b \in Body,
           b.radius = v[n].radius, b.user_id = v[n].user_id, Lost(v[n]) => Lost(b)
    PROVE  v[n] \in Body /\ [v EXCEPT ![n] = b] \in Moved(w)
  <1>1. v \in [1 .. Len(w) -> Body] /\ w \in [1 .. Len(w) -> Body]
    BY SameFacts DEF Moved, Same
  <1> DEFINE N == Len(w)
             u == [v EXCEPT ![n] = b]
  <1> HIDE DEF N
  <1>2. n \in 1 .. N /\ v \in [1 .. N -> Body] /\ w \in [1 .. N -> Body]
    BY <1>1 DEF N
  <1>3. u \in [1 .. N -> Body] /\ u[n] = b /\ \A i \in 1 .. N : i # n => u[i] = v[i]
    BY <1>2
  <1> HIDE DEF u
  <1>4. \A i \in 1 .. N : /\ v[i].radius = w[i].radius /\ v[i].user_id = w[i].user_id
                          /\ Lost(w[i]) => Lost(v[i])
    BY Zenon DEF Moved, N
  <1>5. \A i \in 1 .. N : /\ u[i].radius = w[i].radius /\ u[i].user_id = w[i].user_id
                          /\ Lost(w[i]) => Lost(u[i])
    BY <1>2, <1>3, <1>4, Zenon
  <1>6. u \in Moved(w)
    BY <1>3, <1>5, Zenon DEF Moved, Same, N
  <1> QED
    BY <1>2, <1>6 DEF u

\* A loop whose steps stay in V stays in V.
LEMMA UsersMove ==
    ASSUME NEW w \in Worlds
    PROVE  update_users(w) \in SUBSET Moved(w)
  <1> DEFINE N == Len(w)
             V == SUBSET Moved(w)
             Step(S, n) == UNION {{[v EXCEPT ![n] = b] : b \in Steered(v, n)} : v \in S}
             G == [n \in 1 .. N |-> [S \in V |-> Step(S, n)]]
  <1>1. N \in Nat /\ {w} \in V
    BY SameFacts, Zenon DEF Moved
  <1>2. ASSUME NEW n \in 1 .. N, NEW S \in V
        PROVE  Step(S, n) \in V
    <2> SUFFICES ASSUME NEW v \in S, NEW b \in Steered(v, n)
                 PROVE  [v EXCEPT ![n] = b] \in Moved(w)
      OBVIOUS
    <2>1. v \in Moved(w) /\ v[n] \in Body
      BY SameFacts DEF Moved, Same
    <2>2. b \in Body /\ b.radius = v[n].radius /\ b.user_id = v[n].user_id
          /\ (Lost(v[n]) => Lost(b))
      BY <2>1, AtTypes, PlaceFacts DEF Steered
    <2> QED
      BY <2>1, <2>2, MovedFacts
  <1> HIDE DEF N, V
  <1> DEFINE f == CHOOSE h : h = [n \in 0 .. N |-> IF n = 0 THEN {w} ELSE Step(h[n - 1], n)]
  <1>3. update_users(w) = f[N]
    BY Zenon DEF update_users, N
  <1> HIDE DEF Step
  <1>4. G \in [1 .. N -> [V -> V]]
    BY <1>2
  <1>5. PICK g \in [0 .. N -> V] : Runs(g, N, {w}, G)
    <2> HIDE DEF G
    <2> QED
      BY <1>1, <1>4, Iteration, Zenon
  <1>6. g = [n \in 0 .. N |-> IF n = 0 THEN {w} ELSE Step(g[n - 1], n)]
    <2>1. \A n \in 1 .. N : g[n - 1] \in V /\ g[n] = G[n][g[n - 1]]
      BY <1>1, <1>5 DEF Runs
    <2>2. g[0] = {w} /\ \A n \in 1 .. N : g[n] = Step(g[n - 1], n)
      BY <1>5, <2>1 DEF Runs
    <2> QED
      BY <1>1, <2>2
  <1>7. f = [n \in 0 .. N |-> IF n = 0 THEN {w} ELSE Step(f[n - 1], n)]
    BY <1>6, Zenon
  <1> HIDE DEF f
  <1>8. f[0] = {w}
    BY <1>1, <1>7
  <1>9. ASSUME NEW n \in 1 .. N, f[n - 1] \in V
        PROVE  f[n] = G[n][f[n - 1]]
    <2>1. n \in 0 .. N /\ n # 0
      BY <1>1
    <2> QED
      BY <1>7, <1>9, <2>1
  <1> HIDE DEF G
  <1>10. \A n \in 0 .. N : f[n] \in V
    <2>1. Follows(f, N, V, {w}, G)
      BY <1>8, <1>9 DEF Follows
    <2> QED
      BY <1>1, <1>4, <2>1, Closed, Zenon
  <1> QED
    BY <1>1, <1>3, <1>10 DEF V

LEMMA AIsMove ==
    ASSUME NEW w \in Worlds
    PROVE  update_AI(w) \in SUBSET Moved(w)
  <1> DEFINE N == Len(w)
             V == SUBSET Moved(w)
             targets == [i \in DOMAIN w |-> Target(w, i).body]
             Step(S, n) ==
               IF w[n].user_id # AI THEN S
               ELSE UNION {{[v EXCEPT ![n] = b] : b \in Stepped(v[n], v[targets[n]].pos)}
                             : v \in S}
             G == [n \in 1 .. N |-> [S \in V |-> Step(S, n)]]
  <1>1. N \in Nat /\ {w} \in V
    BY SameFacts, Zenon DEF Moved
  <1>2. ASSUME NEW n \in 1 .. N, NEW S \in V
        PROVE  Step(S, n) \in V
    <2> DEFINE aim(v) == v[targets[n]].pos
    <2> HIDE DEF targets
    <2>1. ASSUME NEW v \in S, NEW b \in Stepped(v[n], aim(v))
          PROVE  [v EXCEPT ![n] = b] \in Moved(w)
      <3>1. v \in Moved(w) /\ v[n] \in Body
        BY SameFacts DEF Moved, Same
      <3>2. PICK p \in Place \cup {NaN} : b = At(v[n], p) /\ (Lost(v[n]) => p = NaN)
        BY <2>1, PlaceFacts DEF Stepped
      <3>3. b \in Body /\ b.radius = v[n].radius /\ b.user_id = v[n].user_id
            /\ (Lost(v[n]) => Lost(b))
        BY <3>1, <3>2, AtTypes DEF Lost
      <3> QED
        BY <3>1, <3>3, MovedFacts
    <2> QED
      BY <2>1
  <1> HIDE DEF N, V, targets
  <1> DEFINE f == CHOOSE h : h = [n \in 0 .. N |-> IF n = 0 THEN {w} ELSE Step(h[n - 1], n)]
  <1>3. update_AI(w) = f[N]
    BY Zenon DEF update_AI, N, targets
  <1> HIDE DEF Step
  <1>4. G \in [1 .. N -> [V -> V]]
    BY <1>2
  <1>5. PICK g \in [0 .. N -> V] : Runs(g, N, {w}, G)
    <2> HIDE DEF G
    <2> QED
      BY <1>1, <1>4, Iteration, Zenon
  <1>6. g = [n \in 0 .. N |-> IF n = 0 THEN {w} ELSE Step(g[n - 1], n)]
    <2>1. \A n \in 1 .. N : g[n - 1] \in V /\ g[n] = G[n][g[n - 1]]
      BY <1>1, <1>5 DEF Runs
    <2>2. g[0] = {w} /\ \A n \in 1 .. N : g[n] = Step(g[n - 1], n)
      BY <1>5, <2>1 DEF Runs
    <2> QED
      BY <1>1, <2>2
  <1>7. f = [n \in 0 .. N |-> IF n = 0 THEN {w} ELSE Step(f[n - 1], n)]
    BY <1>6, Zenon
  <1> HIDE DEF f
  <1>8. f[0] = {w}
    BY <1>1, <1>7
  <1>9. ASSUME NEW n \in 1 .. N, f[n - 1] \in V
        PROVE  f[n] = G[n][f[n - 1]]
    <2>1. n \in 0 .. N /\ n # 0
      BY <1>1
    <2> QED
      BY <1>7, <1>9, <2>1
  <1> HIDE DEF G
  <1>10. \A n \in 0 .. N : f[n] \in V
    <2>1. Follows(f, N, V, {w}, G)
      BY <1>8, <1>9 DEF Follows
    <2> QED
      BY <1>1, <1>4, <2>1, Closed, Zenon
  <1> QED
    BY <1>1, <1>3, <1>10 DEF V

-----------------------------------------------------------------------------
(***************************************************************************)
(* The sum of the radii.                                                   *)
(***************************************************************************)

\* f holds the sums of the first values of a.
Sums(f, N, a) == f[0] = 0 /\ \A n \in 1 .. N : f[n] = f[n - 1] + a[n]

Sizes(w) == [n \in 1 .. Len(w) |-> w[n].radius]
Ints(f, S) == \A n \in S : f[n] \in Int

LEMMA TotalSums ==
    ASSUME NEW w \in Worlds
    PROVE  /\ Ints(Sizes(w), 1 .. Len(w))
           /\ \E f : /\ Ints(f, 0 .. Len(w)) /\ Sums(f, Len(w), Sizes(w))
                    /\ Total(w) = f[Len(w)]
  <1> DEFINE N == Len(w)
             Step(s, n) == s + w[n].radius
             G == [n \in 1 .. N |-> [s \in Int |-> Step(s, n)]]
  <1>1. N \in Nat /\ 0 \in Int
    BY SameFacts
  <1>2. ASSUME NEW n \in 1 .. N, NEW s \in Int
        PROVE  Step(s, n) \in Int
    BY SameFacts DEF Same, Body
  <1>3. Ints(Sizes(w), 1 .. N) /\ \A n \in 1 .. N : Sizes(w)[n] = w[n].radius
    <2>1. \A n \in 1 .. N : w[n].radius \in Int
      <3> SUFFICES ASSUME NEW n \in 1 .. N PROVE w[n].radius \in Int
        OBVIOUS
      <3>1. w[n] \in Body
        BY SameFacts DEF Same
      <3> QED
        BY <3>1 DEF Body
    <2> QED
      BY <2>1 DEF Sizes, Ints
  <1> HIDE DEF N
  <1> DEFINE f == CHOOSE h : h = [n \in 0 .. N |-> IF n = 0 THEN 0 ELSE Step(h[n - 1], n)]
  <1>4. Total(w) = f[N]
    BY Zenon DEF Total, N
  <1> HIDE DEF Step
  <1>5. G \in [1 .. N -> [Int -> Int]]
    BY <1>2
  <1>6. PICK g \in [0 .. N -> Int] : Runs(g, N, 0, G)
    <2> HIDE DEF G
    <2> QED
      BY <1>1, <1>5, Iteration, Zenon
  <1>7. g = [n \in 0 .. N |-> IF n = 0 THEN 0 ELSE Step(g[n - 1], n)]
    <2>1. \A n \in 1 .. N : g[n - 1] \in Int /\ g[n] = G[n][g[n - 1]]
      BY <1>1, <1>6 DEF Runs
    <2>2. g[0] = 0 /\ \A n \in 1 .. N : g[n] = Step(g[n - 1], n)
      BY <1>6, <2>1 DEF Runs
    <2> QED
      BY <1>1, <2>2
  <1>8. f = [n \in 0 .. N |-> IF n = 0 THEN 0 ELSE Step(f[n - 1], n)]
    BY <1>7, Zenon
  <1> HIDE DEF f
  <1>9. f[0] = 0
    BY <1>1, <1>8
  <1>10. ASSUME NEW n \in 1 .. N
        PROVE  f[n] = Step(f[n - 1], n)
    <2>1. n \in 0 .. N /\ n # 0
      BY <1>1
    <2> QED
      BY <1>8, <2>1
  <1>11. \A n \in 0 .. N : f[n] \in Int
    <2>1. Follows(f, N, Int, 0, G)
      BY <1>9, <1>10 DEF Follows
    <2> HIDE DEF G
    <2> QED
      BY <1>1, <1>5, <2>1, Closed, Zenon
  <1>12. Ints(f, 0 .. N)
    BY <1>11, Zenon DEF Ints
  <1>13. Sums(f, N, Sizes(w))
    BY <1>3, <1>9, <1>10, Zenon DEF Sums, Step
  <1> QED
    BY <1>3, <1>4, <1>12, <1>13, Zenon DEF N

\* What differs up to n, when i differs by d and j by - d, and n by e.
LEMMA Differs ==
    ASSUME NEW i \in Int, NEW j \in Int, i # j, NEW d \in Int, NEW n \in Int, NEW e \in Int,
           n = i => e = d, n = j => e = - d, n # i /\ n # j => e = 0
    PROVE  (IF i <= n THEN d ELSE 0) - (IF j <= n THEN d ELSE 0)
             = (IF i <= n - 1 THEN d ELSE 0) - (IF j <= n - 1 THEN d ELSE 0) + e
  OBVIOUS

LEMMA Opposite ==
    ASSUME NEW x \in Int, NEW y \in Int, NEW p \in Int, NEW q \in Int, x + y = p + q
    PROVE  \E d \in Int : x - p = d /\ y - q = - d
  OBVIOUS

\* f and g sum up a and b, which differ only in how i and j share what they have.
Exchanged(N, a, b, f, g, i, j) ==
    /\ i \in 1 .. N /\ j \in 1 .. N /\ i # j
    /\ Ints(a, 1 .. N) /\ Ints(b, 1 .. N) /\ Ints(f, 0 .. N) /\ Ints(g, 0 .. N)
    /\ Sums(f, N, a) /\ Sums(g, N, b)
    /\ a[i] + a[j] = b[i] + b[j]
    /\ \A k \in 1 .. N : k # i /\ k # j => a[k] = b[k]

\* The sum is the same after size went from one body to another.
LEMMA SumsMoved ==
    ASSUME NEW N \in Nat, NEW a, NEW b, NEW f, NEW g, NEW i, NEW j,
           Exchanged(N, a, b, f, g, i, j)
    PROVE  f[N] = g[N]
  <1>1. /\ i \in 1 .. N /\ j \in 1 .. N /\ i # j /\ a[i] + a[j] = b[i] + b[j]
        /\ \A k \in 1 .. N : k # i /\ k # j => a[k] = b[k]
        /\ \A n \in 1 .. N : a[n] \in Int /\ b[n] \in Int
        /\ \A n \in 0 .. N : f[n] \in Int /\ g[n] \in Int
        /\ f[0] = 0 /\ \A n \in 1 .. N : f[n] = f[n - 1] + a[n]
        /\ g[0] = 0 /\ \A n \in 1 .. N : g[n] = g[n - 1] + b[n]
    BY Zenon DEF Exchanged, Ints, Sums
  <1>2. PICK d \in Int : a[i] - b[i] = d /\ a[j] - b[j] = - d
    <2>1. a[i] \in Int /\ b[i] \in Int /\ a[j] \in Int /\ b[j] \in Int
      BY <1>1, Zenon
    <2> QED
      BY <1>1, <2>1, Opposite
  <1> DEFINE gone(n) == (IF i <= n THEN d ELSE 0) - (IF j <= n THEN d ELSE 0)
             T == {n \in 0 .. N : f[n] - g[n] = gone(n)}
  <1>3. 0 \in T
    BY <1>1
  <1>4. ASSUME NEW n \in 1 .. N, n - 1 \in T
        PROVE  n \in T
    <2>1. n \in 0 .. N /\ n - 1 \in 0 .. N
      OBVIOUS
    <2>2. f[n - 1] \in Int /\ g[n - 1] \in Int /\ a[n] \in Int /\ b[n] \in Int
      BY <1>1, <2>1, Zenon
    <2>3. f[n] = f[n - 1] + a[n] /\ g[n] = g[n - 1] + b[n]
      BY <1>1, Zenon
    <2>4. f[n - 1] - g[n - 1] = gone(n - 1)
      BY <1>4
    <2>5. PICK e \in Int : e = a[n] - b[n]
      BY <2>2
    <2>6. f[n] - g[n] = (f[n - 1] - g[n - 1]) + e
      BY <2>2, <2>3, <2>5
    <2>7. (n = i => e = d) /\ (n = j => e = - d) /\ (n # i /\ n # j => e = 0)
      <3>1. n # i /\ n # j => a[n] = b[n]
        BY <1>1, Zenon
      <3> QED
        BY <1>2, <2>2, <2>5, <3>1
    <2>8. gone(n) = gone(n - 1) + e
      BY <1>1, <2>7, Differs
    <2> HIDE DEF gone
    <2> QED
      BY <2>1, <2>4, <2>6, <2>8
  <1>5. \A n \in 0 .. N : n \in T
    <2> HIDE DEF T
    <2> QED
      BY <1>3, <1>4, Induction, Zenon
  <1>6. f[N] - g[N] = gone(N)
    <2>1. N \in T
      <3> HIDE DEF T
      <3> QED
        BY <1>5
    <2> QED
      BY <2>1
  <1>7. gone(N) = 0 /\ f[N] \in Int /\ g[N] \in Int
    BY <1>1
  <1> QED
    BY <1>6, <1>7

SizeMoved(w, v, i, j) ==
    /\ i \in 1 .. Len(w) /\ j \in 1 .. Len(w) /\ i # j
    /\ v[i].radius + v[j].radius = w[i].radius + w[j].radius
    /\ \A k \in 1 .. Len(w) : k # i /\ k # j => v[k].radius = w[k].radius

LEMMA TotalMoved ==
    ASSUME NEW w \in Worlds, NEW v \in Same(w), NEW i, NEW j, SizeMoved(w, v, i, j)
    PROVE  Total(v) = Total(w)
  <1> DEFINE N == Len(w)
             a == Sizes(v)
             b == Sizes(w)
  <1>1. N \in Nat /\ v \in Worlds /\ Len(v) = N
    BY SameFacts, Zenon
  <1>2. Ints(a, 1 .. N) /\ Ints(b, 1 .. N)
    BY <1>1, TotalSums, Zenon
  <1>3. PICK f : Ints(f, 0 .. N) /\ Sums(f, N, a) /\ Total(v) = f[N]
    BY <1>1, TotalSums, Zenon
  <1>4. PICK g : Ints(g, 0 .. N) /\ Sums(g, N, b) /\ Total(w) = g[N]
    BY TotalSums, Zenon
  <1>5. \A k \in 1 .. N : a[k] = v[k].radius /\ b[k] = w[k].radius
    BY <1>1, Zenon DEF Sizes
  <1>6. Exchanged(N, a, b, f, g, i, j)
    <2> HIDE DEF a, b
    <2> QED
      BY <1>2, <1>3, <1>4, <1>5, Zenon DEF Exchanged, SizeMoved
  <1>7. f[N] = g[N]
    <2>1. N \in Nat
      BY <1>1, Zenon
    <2> HIDE DEF N, a, b
    <2> QED
      BY <1>6, <2>1, SumsMoved, SMT
  <1> QED
    BY <1>3, <1>4, <1>7, Zenon

\* And when no radius changes.
LEMMA TotalSame ==
    ASSUME NEW w \in Worlds, NEW v \in Same(w),
           \A k \in 1 .. Len(w) : v[k].radius = w[k].radius
    PROVE  Total(v) = Total(w)
  <1> DEFINE N == Len(w)
             a == Sizes(w)
  <1>1. N \in Nat /\ v \in Worlds /\ Len(v) = N
    BY SameFacts, Zenon
  <1>2. a = Sizes(v)
    <2>1. \A n \in 1 .. N : v[n].radius = w[n].radius
      BY Zenon
    <2> HIDE DEF N
    <2>2. [n \in 1 .. N |-> v[n].radius] = [n \in 1 .. N |-> w[n].radius]
      BY <2>1
    <2> QED
      BY <1>1, <2>2, Zenon DEF Sizes, N
  <1>3. PICK f : Sums(f, N, a) /\ Total(v) = f[N]
    BY <1>1, <1>2, TotalSums, Zenon
  <1>4. PICK g : Sums(g, N, a) /\ Total(w) = g[N]
    BY TotalSums, Zenon
  <1> HIDE DEF N, a
  <1> DEFINE T == {n \in 0 .. N : f[n] = g[n]}
  <1>5. 0 \in T
    BY <1>1, <1>3, <1>4 DEF Sums
  <1>6. ASSUME NEW n \in 1 .. N, n - 1 \in T
        PROVE  n \in T
    BY <1>3, <1>4, <1>6 DEF Sums
  <1> HIDE DEF T
  <1>7. \A n \in 0 .. N : n \in T
    BY <1>1, <1>5, <1>6, Induction, Zenon
  <1>8. f[N] = g[N]
    BY <1>1, <1>7 DEF T
  <1> QED
    BY <1>3, <1>4, <1>8, Zenon

-----------------------------------------------------------------------------
(***************************************************************************)
(* check_cond.                                                             *)
(***************************************************************************)

\* What bodies that meet keep: the sum of the radii, and all of the lost.
Eaten(w) ==
    {v \in Same(w) : /\ Total(v) = Total(w)
                     /\ \A i \in 1 .. Len(w) :
                          Lost(w[i]) => Lost(v[i]) /\ v[i].radius = w[i].radius}

LEMMA Halved ==
    ASSUME NEW r \in Nat, NEW s \in Nat, Halves(r)
    PROVE  /\ Shrunk(r) \in Nat /\ Grown(s, r) \in Nat /\ Grown(s, r) + Shrunk(r) = s + r
  BY DEF Halves, Shrunk, Grown

LEMMA MeetKeeps ==
    ASSUME NEW w \in Worlds, NEW i \in 1 .. Len(w), NEW j \in 1 .. Len(w),
           NEW v \in Meet(w, i, j)
    PROVE  v \in Eaten(w)
  <1> DEFINE N == Len(w)
  <1>1. w \in Same(w) /\ w \in [1 .. N -> Body] /\ i \in 1 .. N /\ j \in 1 .. N
    BY SameFacts, Zenon DEF Same
  <1>2. CASE v = w
    BY <1>1, <1>2, Zenon DEF Eaten
  <1>3. CASE v # w
    <2>1. PICK p \in Field :
            /\ i # j /\ Eats(w[i], w[j]) /\ Halves(w[j].radius)
            /\ v = [w EXCEPT ![i] = Fed(w[i], w[j]), ![j] = Reborn(w[j], p)]
      BY <1>3 DEF Meet
    <2> DEFINE bi == Fed(w[i], w[j])
               bj == Reborn(w[j], p)
    <2>2. w[i] \in Body /\ w[j] \in Body /\ p \in Place
      BY <1>1, PlaceFacts
    <2>3. w[i].radius \in Nat /\ w[j].radius \in Nat
      BY <2>2 DEF Body
    <2>4. /\ Grown(w[i].radius, w[j].radius) \in Nat /\ Shrunk(w[j].radius) \in Nat
          /\ Grown(w[i].radius, w[j].radius) + Shrunk(w[j].radius)
               = w[i].radius + w[j].radius
      BY <2>1, <2>3, Halved
    <2>5. /\ bi \in Body /\ bi.radius = Grown(w[i].radius, w[j].radius)
          /\ bj \in Body /\ bj.radius = Shrunk(w[j].radius)
      BY <2>2, <2>4 DEF Body, Fed, Reborn
    <2> HIDE DEF bi, bj, N
    <2>6. v = [w EXCEPT ![i] = bi, ![j] = bj]
      BY <2>1, Zenon DEF bi, bj
    <2>7. /\ v \in [1 .. N -> Body] /\ v[i] = bi /\ v[j] = bj
          /\ \A k \in 1 .. N : k # i /\ k # j => v[k] = w[k]
      BY <1>1, <2>1, <2>5, <2>6
    <2>8. v \in Same(w)
      BY <2>7, Zenon DEF Same, N
    <2>9. SizeMoved(w, v, i, j)
      BY <1>1, <2>1, <2>4, <2>5, <2>7, Zenon DEF SizeMoved, N
    <2>10. Total(v) = Total(w)
      BY <2>8, <2>9, TotalMoved, Zenon
    <2>11. ~Lost(w[i]) /\ ~Lost(w[j])
      BY <2>1, Zenon DEF Eats, Nearer
    <2>12. \A k \in 1 .. N : Lost(w[k]) => Lost(v[k]) /\ v[k].radius = w[k].radius
      BY <2>7, <2>11, Zenon
    <2> QED
      BY <2>8, <2>10, <2>12, Zenon DEF Eaten, N
  <1> QED
    BY <1>2, <1>3

\* Which bodies step k of the two loops is about.
LEMMA Pairs ==
    ASSUME NEW N \in Nat, NEW k \in 1 .. N * N
    PROVE  ((k - 1) \div N) + 1 \in 1 .. N /\ ((k - 1) % N) + 1 \in 1 .. N
  <1>1. N # 0
    OBVIOUS
  <1>2. (k - 1) % N \in 0 .. N - 1
    BY <1>1
  <1>3. (k - 1) \div N \in 0 .. N - 1
    <2>1. k - 1 = N * ((k - 1) \div N) + ((k - 1) % N)
      BY <1>1
    <2> QED
      BY <1>1, <1>2, <2>1
  <1> QED
    BY <1>2, <1>3

LEMMA AllMeet ==
    ASSUME NEW w \in Worlds
    PROVE  check_cond(w) \in SUBSET Eaten(w)
  <1> DEFINE n == Len(w)
             N == n * n
             V == SUBSET Eaten(w)
             Step(S, k) == UNION {Meet(v, ((k - 1) \div n) + 1, ((k - 1) % n) + 1) : v \in S}
             G == [k \in 1 .. N |-> [S \in V |-> Step(S, k)]]
  <1>1. n \in Nat /\ N \in Nat /\ {w} \in V
    BY SameFacts DEF Eaten
  <1>2. ASSUME NEW k \in 1 .. N, NEW S \in V
        PROVE  Step(S, k) \in V
    <2> DEFINE i == ((k - 1) \div n) + 1
               j == ((k - 1) % n) + 1
    <2>1. i \in 1 .. n /\ j \in 1 .. n
      BY <1>1, Pairs
    <2> HIDE DEF i, j
    <2> SUFFICES ASSUME NEW v \in S, NEW u \in Meet(v, i, j)
                 PROVE  u \in Eaten(w)
      BY DEF i, j
    <2>2. v \in Same(w) /\ v \in Worlds /\ Len(v) = n
      BY SameFacts, Zenon DEF Eaten
    <2>3. u \in Eaten(v)
      BY <2>1, <2>2, MeetKeeps, Zenon
    <2> QED
      BY <2>2, <2>3, Zenon DEF Eaten, Same
  <1> HIDE DEF n, N, V
  <1> DEFINE f == CHOOSE h : h = [k \in 0 .. N |-> IF k = 0 THEN {w} ELSE Step(h[k - 1], k)]
  <1>3. check_cond(w) = f[N]
    BY Zenon DEF check_cond, n, N
  <1> HIDE DEF Step
  <1>4. G \in [1 .. N -> [V -> V]]
    BY <1>2
  <1>5. PICK g \in [0 .. N -> V] : Runs(g, N, {w}, G)
    <2> HIDE DEF G
    <2> QED
      BY <1>1, <1>4, Iteration, Zenon
  <1>6. g = [k \in 0 .. N |-> IF k = 0 THEN {w} ELSE Step(g[k - 1], k)]
    <2>1. \A k \in 1 .. N : g[k - 1] \in V /\ g[k] = G[k][g[k - 1]]
      BY <1>1, <1>5 DEF Runs
    <2>2. g[0] = {w} /\ \A k \in 1 .. N : g[k] = Step(g[k - 1], k)
      BY <1>5, <2>1 DEF Runs
    <2> QED
      BY <1>1, <2>2
  <1>7. f = [k \in 0 .. N |-> IF k = 0 THEN {w} ELSE Step(f[k - 1], k)]
    BY <1>6, Zenon
  <1> HIDE DEF f
  <1>8. f[0] = {w}
    BY <1>1, <1>7
  <1>9. ASSUME NEW k \in 1 .. N, f[k - 1] \in V
        PROVE  f[k] = G[k][f[k - 1]]
    <2>1. k \in 0 .. N /\ k # 0
      BY <1>1
    <2> QED
      BY <1>7, <1>9, <2>1
  <1> HIDE DEF G
  <1>10. \A k \in 0 .. N : f[k] \in V
    <2>1. Follows(f, N, V, {w}, G)
      BY <1>8, <1>9 DEF Follows
    <2> QED
      BY <1>1, <1>4, <2>1, Closed, Zenon
  <1> QED
    BY <1>1, <1>3, <1>10 DEF V

-----------------------------------------------------------------------------
(***************************************************************************)
(* wall_check and the tick.                                                *)
(***************************************************************************)
LEMMA ClampFacts ==
    ASSUME NEW x \in Int, NEW r \in Nat, NEW size \in Nat
    PROVE  /\ Clamp(x, r, size) \in Int
           /\ 2 * r <= size => Clamp(x, r, size) - r >= 0 /\ Clamp(x, r, size) + r <= size
  BY DEF Clamp

LEMMA WalledFacts ==
    ASSUME NEW b \in Body
    PROVE  /\ Walled(b) \in Body /\ Walled(b).radius = b.radius
           /\ Lost(b) <=> Lost(Walled(b))
           /\ (~Lost(b) /\ 2 * b.radius <= weight /\ 2 * b.radius <= height)
                => Inside(Walled(b))
  <1>1. CASE Lost(b)
    BY <1>1 DEF Walled
  <1>2. CASE ~Lost(b)
    <2> DEFINE p == [x |-> Clamp(b.pos.x, b.radius, weight),
                     y |-> Clamp(b.pos.y, b.radius, height)]
    <2>1. b.pos \in Place /\ b.radius \in Nat
      BY <1>2 DEF Body, Lost
    <2>2. b.pos.x \in Int /\ b.pos.y \in Int
      BY <2>1 DEF Place
    <2>3. p \in Place /\ p.x = Clamp(b.pos.x, b.radius, weight)
          /\ p.y = Clamp(b.pos.y, b.radius, height)
      BY <2>1, <2>2, ClampFacts, PlaceFacts DEF Place
    <2>4. Walled(b) = At(b, p)
      BY <1>2, Zenon DEF Walled
    <2> HIDE DEF p
    <2>5. /\ Walled(b) \in Body /\ Walled(b).pos = p /\ Walled(b).radius = b.radius
          /\ ~Lost(Walled(b))
      BY <2>3, <2>4, AtTypes, PlaceFacts DEF Lost
    <2>6. (2 * b.radius <= weight /\ 2 * b.radius <= height) => Inside(Walled(b))
      BY <2>1, <2>2, <2>3, <2>5, ClampFacts, PlaceFacts DEF Inside
    <2> QED
      BY <1>2, <2>5, <2>6
  <1> QED
    BY <1>1, <1>2

LEMMA WallsKeep ==
    ASSUME NEW w \in Worlds
    PROVE  /\ wall_check(w) \in Eaten(w)
           /\ \A i \in 1 .. Len(w) : wall_check(w)[i] = Walled(w[i])
  <1> DEFINE N == Len(w)
             v == wall_check(w)
  <1>1. w \in [1 .. N -> Body] /\ DOMAIN w = 1 .. N
    BY SameFacts DEF Same
  <1>2. v = [i \in 1 .. N |-> Walled(w[i])]
    BY <1>1, Zenon DEF wall_check
  <1> HIDE DEF N, v
  <1>3. \A i \in 1 .. N : w[i] \in Body /\ v[i] = Walled(w[i])
    BY <1>1, <1>2
  <1>4. \A i \in 1 .. N : /\ v[i] \in Body /\ v[i].radius = w[i].radius
                          /\ Lost(w[i]) => Lost(v[i])
    BY <1>3, WalledFacts, Zenon
  <1>5. v \in Same(w)
    <2>1. v \in [1 .. N -> Body]
      BY <1>2, <1>4
    <2> QED
      BY <2>1, Zenon DEF Same, N
  <1>6. Total(v) = Total(w)
    BY <1>4, <1>5, TotalSame DEF N
  <1> QED
    BY <1>3, <1>4, <1>5, <1>6, Zenon DEF Eaten, N, v

\* A world after a tick: bodies of w moved, met and were put within the walls.
LEMMA TickFacts ==
    ASSUME entities \in Worlds, Tick
    PROVE  /\ entities' \in Eaten(entities)
           /\ \E w \in Same(entities) :
                \A i \in 1 .. Len(entities) : entities'[i] = Walled(w[i])
  <1>1. PICK u \in update_users(entities) : \E v \in update_AI(u) : \E w \in check_cond(v) :
           entities' = wall_check(w)
    BY Zenon DEF Tick
  <1>2. PICK v \in update_AI(u) : \E w \in check_cond(v) : entities' = wall_check(w)
    BY <1>1, Zenon
  <1>3. PICK w \in check_cond(v) : entities' = wall_check(w)
    BY <1>2, Zenon
  <1>4. u \in Moved(entities) /\ u \in Worlds /\ Len(u) = Len(entities)
    BY UsersMove, SameFacts, Zenon DEF Moved
  <1>5. v \in Moved(u) /\ v \in Worlds /\ Len(v) = Len(entities)
    BY <1>4, AIsMove, SameFacts, Zenon DEF Moved
  <1>6. w \in Eaten(v) /\ w \in Worlds /\ Len(w) = Len(entities)
    BY <1>5, AllMeet, SameFacts, Zenon DEF Eaten
  <1>7. /\ entities' \in Eaten(w)
        /\ \A i \in 1 .. Len(entities) : entities'[i] = Walled(w[i])
    BY <1>3, <1>6, WallsKeep, Zenon
  <1>8. w \in Same(entities) /\ entities' \in Same(entities)
    BY <1>6, <1>7, SameFacts, Zenon DEF Eaten, Same
  <1>9. Total(entities') = Total(entities)
    <2>1. Total(u) = Total(entities)
      BY <1>4, TotalSame DEF Moved
    <2>2. Total(v) = Total(u)
      BY <1>4, <1>5, TotalSame DEF Moved
    <2> QED
      BY <1>6, <1>7, <2>1, <2>2, Zenon DEF Eaten
  <1>10. ASSUME NEW i \in 1 .. Len(entities), Lost(entities[i])
        PROVE  Lost(entities'[i]) /\ entities'[i].radius = entities[i].radius
    BY <1>4, <1>5, <1>6, <1>7, <1>10, Zenon DEF Moved, Eaten
  <1> QED
    BY <1>7, <1>8, <1>9, <1>10, Zenon DEF Eaten

LEMMA LeavesFacts ==
    ASSUME entities \in Worlds, Leaves
    PROVE  entities' \in Eaten(entities)
  <1> DEFINE N == Len(entities)
  <1>1. PICK i \in 1 .. N : entities' = [entities EXCEPT ![i].user_id = AI]
    BY SameFacts, Zenon DEF Leaves
  <1>2. entities \in [1 .. N -> Body]
    BY SameFacts DEF Same
  <1> HIDE DEF N
  <1> DEFINE b == [entities[i] EXCEPT !.user_id = AI]
  <1>3. b \in Body /\ b.radius = entities[i].radius /\ b.pos = entities[i].pos
    <2>1. entities[i] \in Body
      BY <1>2
    <2> QED
      BY <2>1 DEF Body
  <1>4. /\ entities' \in [1 .. N -> Body] /\ entities'[i] = b
        /\ \A k \in 1 .. N : k # i => entities'[k] = entities[k]
    BY <1>1, <1>2, <1>3
  <1> HIDE DEF b
  <1>5. \A k \in 1 .. N : /\ entities'[k].radius = entities[k].radius
                          /\ Lost(entities[k]) => Lost(entities'[k])
    BY <1>3, <1>4, Zenon DEF Lost
  <1>6. entities' \in Same(entities)
    BY <1>4, Zenon DEF Same, N
  <1>7. Total(entities') = Total(entities)
    BY <1>5, <1>6, TotalSame DEF N
  <1> QED
    BY <1>5, <1>6, <1>7, Zenon DEF Eaten, N

LEMMA JoinsFacts ==
    ASSUME entities \in Worlds, Joins
    PROVE  /\ entities' \in Worlds
           /\ \A i \in 1 .. Len(entities) : entities'[i] = entities[i]
  <1>1. PICK p \in Field, r \in Radii :
           entities' = Append(entities, [user_id |-> User, pos |-> p, radius |-> r])
    BY DEF Joins
  <1>2. [user_id |-> User, pos |-> p, radius |-> r] \in Body
    BY PlaceFacts, WorldAssumption DEF Body
  <1> QED
    BY <1>1, <1>2 DEF Worlds

-----------------------------------------------------------------------------
(***************************************************************************)
(* The search for a target.                                                *)
(***************************************************************************)

\* One step of the search.
Seek(w, i, s, n) ==
    LET eats == n # i /\ w[i].radius > w[n].radius /\ Nearer(w[i], w[n], s.eat_dist)
        fears == n # i /\ w[i].radius < w[n].radius /\ Nearer(w[i], w[n], s.predator_dist)
    IN  [eat |-> IF eats THEN n ELSE s.eat,
         eat_dist |-> IF eats THEN dist2(w[i].pos, w[n].pos) ELSE s.eat_dist,
         predator |-> IF fears THEN n ELSE s.predator,
         predator_dist |-> IF fears THEN dist2(w[i].pos, w[n].pos) ELSE s.predator_dist]

Start(i) == [eat |-> i, eat_dist |-> Diagonal, predator |-> i, predator_dist |-> Diagonal]

\* Of the bodies 1 .. n that are in S best is the closest, dist away; it is i,
\* at the greatest distance, when there is none.
Nearest(w, i, S, n, best, dist) ==
    \/ best = i /\ dist = Diagonal /\ \A k \in 1 .. n : k \notin S
    \/ /\ best \in S /\ dist = dist2(w[i].pos, w[best].pos)
       /\ \A k \in 1 .. n : k \in S => dist <= dist2(w[i].pos, w[k].pos)

Found(w, i, n, s) ==
    /\ Nearest(w, i, Prey(w, i), n, s.eat, s.eat_dist)
    /\ Nearest(w, i, Danger(w, i), n, s.predator, s.predator_dist)

InSight(w, i, S) ==
    \A k \in S : dist2(w[i].pos, w[k].pos) \in Int /\ dist2(w[i].pos, w[k].pos) < Diagonal

LEMMA DistFacts ==
    /\ Diagonal \in Int
    /\ \A p, q \in Place : dist2(p, q) \in Int
  <1>1. \A n \in Int : Square(n) \in Int
    BY DEF Square
  <1>2. Diagonal \in Int
    BY <1>1, WorldAssumption DEF Diagonal
  <1>3. ASSUME NEW p \in Place, NEW q \in Place
        PROVE  dist2(p, q) \in Int
    <2>1. p.x - q.x \in Int /\ p.y - q.y \in Int
      BY DEF Place
    <2>2. Square(p.x - q.x) \in Int /\ Square(p.y - q.y) \in Int
      BY <1>1, <2>1
    <2> QED
      BY <2>2 DEF dist2
  <1> QED
    BY <1>2, <1>3

LEMMA SightFacts ==
    ASSUME NEW N \in Nat, NEW w \in [1 .. N -> Body], NEW i \in 1 .. N
    PROVE  /\ InSight(w, i, Prey(w, i)) /\ InSight(w, i, Danger(w, i))
           /\ \A n \in 1 .. N : ~Lost(w[i]) /\ ~Lost(w[n]) => dist2(w[i].pos, w[n].pos) \in Int
  <1>1. ASSUME NEW n \in 1 .. N, ~Lost(w[i]), ~Lost(w[n])
        PROVE  dist2(w[i].pos, w[n].pos) \in Int
    <2>1. w[i] \in Body /\ w[n] \in Body
      OBVIOUS
    <2>2. w[i].pos \in Place /\ w[n].pos \in Place
      BY <1>1, <2>1 DEF Body, Lost
    <2> QED
      BY <2>2, DistFacts
  <1>2. ASSUME NEW S, S = Prey(w, i) \/ S = Danger(w, i), NEW k \in S
        PROVE  dist2(w[i].pos, w[k].pos) \in Int /\ dist2(w[i].pos, w[k].pos) < Diagonal
    <2>1. k \in 1 .. N /\ Nearer(w[i], w[k], Diagonal)
      BY <1>2 DEF Prey, Danger
    <2> QED
      BY <1>1, <2>1, Zenon DEF Nearer
  <1> QED
    BY <1>1, <1>2, Zenon DEF InSight

\* Body n joins the search: it is taken when it is in S and closer.
LEMMA NearestStep ==
    ASSUME NEW w, NEW i, NEW S, InSight(w, i, S), NEW n \in Nat \ {0}, NEW best, NEW dist,
           Nearest(w, i, S, n - 1, best, dist), NEW takes \in BOOLEAN,
           takes <=> (n \in S /\ dist2(w[i].pos, w[n].pos) < dist)
    PROVE  Nearest(w, i, S, n, IF takes THEN n ELSE best,
                   IF takes THEN dist2(w[i].pos, w[n].pos) ELSE dist)
  <1> DEFINE d(k) == dist2(w[i].pos, w[k].pos)
  <1>1. /\ \A k \in S : d(k) \in Int /\ d(k) < Diagonal
        /\ takes <=> (n \in S /\ d(n) < dist)
        /\ \/ best = i /\ dist = Diagonal /\ \A k \in 1 .. n - 1 : k \notin S
           \/ best \in S /\ dist = d(best) /\ \A k \in 1 .. n - 1 : k \in S => dist <= d(k)
    BY Zenon DEF Nearest, InSight
  <1> HIDE DEF d
  <1>2. \A k \in 1 .. n : k = n \/ k \in 1 .. n - 1
    OBVIOUS
  <1>3. Diagonal \in Int /\ dist \in Int
    BY <1>1, DistFacts
  <1>4. CASE takes
    <2>1. n \in S /\ d(n) < dist /\ d(n) \in Int
      BY <1>1, <1>4
    <2>2. ASSUME NEW k \in 1 .. n, k \in S
          PROVE  d(n) <= d(k)
      <3>1. CASE k = n
        BY <2>1, <3>1
      <3>2. CASE k \in 1 .. n - 1
        <4>1. dist <= d(k) /\ d(k) \in Int
          BY <1>1, <2>2, <3>2
        <4> QED
          BY <1>3, <2>1, <4>1
      <3> QED
        BY <1>2, <3>1, <3>2
    <2> QED
      BY <1>4, <2>1, <2>2, Zenon DEF Nearest, d
  <1>5. CASE ~takes
    <2>1. n \notin S \/ dist <= d(n)
      BY <1>1, <1>3, <1>5
    <2>2. CASE best = i /\ dist = Diagonal /\ \A k \in 1 .. n - 1 : k \notin S
      <3>1. n \notin S
        BY <1>1, <1>3, <2>1, <2>2
      <3>2. \A k \in 1 .. n : k \notin S
        BY <1>2, <2>2, <3>1, Zenon
      <3> QED
        BY <1>5, <2>2, <3>2, Zenon DEF Nearest
    <2>3. CASE best \in S /\ dist = d(best) /\ \A k \in 1 .. n - 1 : k \in S => dist <= d(k)
      <3>1. \A k \in 1 .. n : k \in S => dist <= d(k)
        BY <1>2, <2>1, <2>3, Zenon
      <3> QED
        BY <1>5, <2>3, <3>1, Zenon DEF Nearest, d
    <2> QED
      BY <1>1, <2>2, <2>3, Zenon
  <1> QED
    BY <1>4, <1>5

\* The search up to n has found what it is for.
LEMMA SeekStep ==
    ASSUME NEW N \in Nat, NEW w \in [1 .. N -> Body], NEW i \in 1 .. N, NEW n \in 1 .. N,
           NEW s, Found(w, i, n - 1, s)
    PROVE  Found(w, i, n, Seek(w, i, s, n))
  <1> DEFINE d == dist2(w[i].pos, w[n].pos)
             P == Prey(w, i)
             D == Danger(w, i)
             eats == n # i /\ w[i].radius > w[n].radius /\ Nearer(w[i], w[n], s.eat_dist)
             fears == n # i /\ w[i].radius < w[n].radius /\ Nearer(w[i], w[n], s.predator_dist)
             new == [eat |-> IF eats THEN n ELSE s.eat,
                     eat_dist |-> IF eats THEN d ELSE s.eat_dist,
                     predator |-> IF fears THEN n ELSE s.predator,
                     predator_dist |-> IF fears THEN d ELSE s.predator_dist]
  <1>1. /\ n \in P <=> w[n].radius < w[i].radius /\ ~Lost(w[i]) /\ ~Lost(w[n]) /\ d < Diagonal
        /\ n \in D <=> w[n].radius > w[i].radius /\ ~Lost(w[i]) /\ ~Lost(w[n]) /\ d < Diagonal
    BY DEF Prey, Danger, Nearer
  <1>2. /\ w[n].radius \in Nat /\ w[i].radius \in Nat /\ Diagonal \in Int
        /\ ~Lost(w[i]) /\ ~Lost(w[n]) => d \in Int
    <2>1. w[n] \in Body /\ w[i] \in Body
      OBVIOUS
    <2> QED
      BY <2>1, SightFacts, DistFacts DEF Body
  <1>3. /\ s.eat_dist \in Int /\ s.eat_dist <= Diagonal
        /\ s.predator_dist \in Int /\ s.predator_dist <= Diagonal
    <2>1. ASSUME NEW S, InSight(w, i, S), NEW best, NEW dist, Nearest(w, i, S, n - 1, best, dist)
          PROVE  dist \in Int /\ dist <= Diagonal
      BY <1>2, <2>1 DEF Nearest, InSight
    <2> QED
      BY <2>1, SightFacts, Zenon DEF Found
  <1>4. (eats <=> n \in P /\ d < s.eat_dist) /\ eats \in BOOLEAN
    <2>1. eats <=> n # i /\ w[i].radius > w[n].radius /\ ~Lost(w[i]) /\ ~Lost(w[n]) /\ d < s.eat_dist
      BY Zenon DEF Nearer
    <2>2. w[i].radius > w[n].radius => n # i
      BY <1>2
    <2> HIDE DEF eats, d, P
    <2>3. eats <=> n \in P /\ d < s.eat_dist
      BY <1>1, <1>2, <1>3, <2>1, <2>2
    <2> QED
      BY <2>3, Zenon DEF eats
  <1>5. (fears <=> n \in D /\ d < s.predator_dist) /\ fears \in BOOLEAN
    <2>1. fears <=> n # i /\ w[i].radius < w[n].radius /\ ~Lost(w[i]) /\ ~Lost(w[n])
                     /\ d < s.predator_dist
      BY Zenon DEF Nearer
    <2>2. w[i].radius < w[n].radius => n # i
      BY <1>2
    <2> HIDE DEF fears, d, D
    <2>3. fears <=> n \in D /\ d < s.predator_dist
      BY <1>1, <1>2, <1>3, <2>1, <2>2
    <2> QED
      BY <2>3, Zenon DEF fears
  <1>6. n \in Nat \ {0}
    OBVIOUS
  <1>7. Seek(w, i, s, n) = new
    BY Zenon DEF Seek
  <1> HIDE DEF eats, fears, P, D
  <1>8. /\ new.eat = (IF eats THEN n ELSE s.eat) /\ new.eat_dist = (IF eats THEN d ELSE s.eat_dist)
        /\ new.predator = (IF fears THEN n ELSE s.predator)
        /\ new.predator_dist = (IF fears THEN d ELSE s.predator_dist)
    OBVIOUS
  <1> HIDE DEF new
  <1>9. Nearest(w, i, P, n - 1, s.eat, s.eat_dist)
        /\ Nearest(w, i, D, n - 1, s.predator, s.predator_dist)
    BY Zenon DEF Found, P, D
  <1>10. InSight(w, i, P) /\ InSight(w, i, D)
    BY SightFacts, Zenon DEF P, D
  <1>11. Nearest(w, i, P, n, new.eat, new.eat_dist)
    BY <1>4, <1>6, <1>8, <1>9, <1>10, NearestStep
  <1>12. Nearest(w, i, D, n, new.predator, new.predator_dist)
    BY <1>5, <1>6, <1>8, <1>9, <1>10, NearestStep
  <1> QED
    BY <1>7, <1>11, <1>12, Zenon DEF Found, P, D

LEMMA SearchFinds ==
    ASSUME NEW w \in Worlds, NEW i \in 1 .. Len(w)
    PROVE  Found(w, i, Len(w), Search(w, i))
  <1> DEFINE N == Len(w)
             V == [eat : 1 .. N, eat_dist : Int, predator : 1 .. N, predator_dist : Int]
             Step(s, n) == Seek(w, i, s, n)
             G == [n \in 1 .. N |-> [s \in V |-> Step(s, n)]]
             a == Start(i)
  <1>1. N \in Nat /\ w \in [1 .. N -> Body] /\ i \in 1 .. N
    BY SameFacts DEF Same
  <1> HIDE DEF N
  <1> DEFINE f == CHOOSE h : h = [n \in 0 .. N |-> IF n = 0 THEN a ELSE Step(h[n - 1], n)]
  <1>2. Search(w, i) = f[N]
    BY Zenon DEF Search, N, Seek, Start
  <1> HIDE DEF Step
  <1>3. a \in V
    BY <1>1, DistFacts DEF Start
  <1>4. ASSUME NEW n \in 1 .. N, NEW s \in V
        PROVE  Step(s, n) \in V
    <2>1. ~Lost(w[i]) /\ ~Lost(w[n]) => dist2(w[i].pos, w[n].pos) \in Int
      BY <1>1, SightFacts
    <2>2. \A x \in Int : Nearer(w[i], w[n], x) => ~Lost(w[i]) /\ ~Lost(w[n])
      BY Zenon DEF Nearer
    <2> QED
      BY <2>1, <2>2 DEF Step, Seek
  <1> HIDE DEF V, a
  <1>5. G \in [1 .. N -> [V -> V]]
    BY <1>4
  <1>6. PICK g \in [0 .. N -> V] : Runs(g, N, a, G)
    <2> HIDE DEF G
    <2> QED
      BY <1>1, <1>3, <1>5, Iteration, Zenon
  <1>7. g = [n \in 0 .. N |-> IF n = 0 THEN a ELSE Step(g[n - 1], n)]
    <2>1. \A n \in 1 .. N : g[n - 1] \in V /\ g[n] = G[n][g[n - 1]]
      BY <1>1, <1>6 DEF Runs
    <2>2. g[0] = a /\ \A n \in 1 .. N : g[n] = Step(g[n - 1], n)
      BY <1>6, <2>1 DEF Runs
    <2> QED
      BY <1>1, <2>2
  <1>8. f = [n \in 0 .. N |-> IF n = 0 THEN a ELSE Step(f[n - 1], n)]
    BY <1>7, Zenon
  <1> HIDE DEF f, G
  <1> DEFINE T == {n \in 0 .. N : Found(w, i, n, f[n])}
  <1>9. 0 \in T
    <2>1. f[0] = a
      BY <1>1, <1>8
    <2>2. Found(w, i, 0, a)
      <3>1. \A k \in 1 .. 0 : FALSE
        OBVIOUS
      <3>2. a.eat = i /\ a.eat_dist = Diagonal /\ a.predator = i /\ a.predator_dist = Diagonal
        BY DEF a, Start
      <3> QED
        BY <3>1, <3>2, Zenon DEF Found, Nearest
    <2> QED
      BY <1>1, <2>1, <2>2
  <1>10. ASSUME NEW n \in 1 .. N, n - 1 \in T
         PROVE  n \in T
    <2>1. n \in 0 .. N /\ n # 0 /\ Found(w, i, n - 1, f[n - 1])
      BY <1>1, <1>10
    <2>2. f[n] = Step(f[n - 1], n)
      BY <1>8, <2>1
    <2>3. Found(w, i, n, Seek(w, i, f[n - 1], n))
      BY <1>1, <2>1, SeekStep
    <2> QED
      BY <2>1, <2>2, <2>3 DEF Step
  <1> HIDE DEF T
  <1>11. \A n \in 0 .. N : n \in T
    BY <1>1, <1>9, <1>10, Induction, Zenon
  <1>12. Found(w, i, N, f[N])
    BY <1>1, <1>11 DEF T
  <1> QED
    BY <1>2, <1>12, Zenon DEF N

\* What is aimed at, by what is in sight.
LEMMA TargetFacts ==
    ASSUME NEW w \in Worlds, NEW i \in 1 .. Len(w)
    PROVE  LET t == Target(w, i)
               safe == \E j \in Prey(w, i) : \A k \in Danger(w, i) :
                           dist2(w[i].pos, w[j].pos) < dist2(w[i].pos, w[k].pos)
           IN  IF safe THEN t.chase /\ t.body \in Closest(w, i, Prey(w, i))
               ELSE IF Danger(w, i) # {} THEN ~t.chase /\ t.body \in Closest(w, i, Danger(w, i))
               ELSE ~t.chase /\ t.body = i
  <1> DEFINE N == Len(w)
             P == Prey(w, i)
             D == Danger(w, i)
             d(k) == dist2(w[i].pos, w[k].pos)
             s == Search(w, i)
             t == Target(w, i)
             safe == \E j \in P : \A k \in D : d(j) < d(k)
             near(S, best, dist) ==
               \/ best = i /\ dist = Diagonal /\ \A k \in S : FALSE
               \/ best \in S /\ dist = d(best) /\ \A k \in S : dist <= d(k)
  <1>1. N \in Nat /\ w \in [1 .. N -> Body] /\ i \in 1 .. N /\ DOMAIN w = 1 .. N
    BY SameFacts DEF Same
  <1>2. Found(w, i, N, s)
    BY SearchFinds, Zenon
  <1>3. P \subseteq 1 .. N /\ D \subseteq 1 .. N
    BY <1>1, Zenon DEF Prey, Danger
  <1>4. near(P, s.eat, s.eat_dist) /\ near(D, s.predator, s.predator_dist)
    <2> HIDE DEF N
    <2>1. ASSUME NEW S \in SUBSET (1 .. N), NEW best, NEW dist, Nearest(w, i, S, N, best, dist)
          PROVE  near(S, best, dist)
      BY <2>1, Zenon DEF Nearest
    <2>2. Nearest(w, i, P, N, s.eat, s.eat_dist) /\ Nearest(w, i, D, N, s.predator, s.predator_dist)
      BY <1>2, Zenon DEF Found
    <2> HIDE DEF P, D, near, s
    <2> QED
      BY <1>3, <2>1, <2>2
  <1>5. /\ \A k \in P : d(k) \in Int /\ d(k) < Diagonal
        /\ \A k \in D : d(k) \in Int /\ d(k) < Diagonal
    BY <1>1, SightFacts, Zenon DEF InSight
  <1>6. IF s.eat_dist < s.predator_dist THEN t.chase = TRUE /\ t.body = s.eat
        ELSE t.chase = FALSE /\ t.body = s.predator
    BY DEF Target
  <1>7. /\ \A j : j \in Closest(w, i, P) <=> j \in P /\ \A k \in P : d(j) <= d(k)
        /\ \A j : j \in Closest(w, i, D) <=> j \in D /\ \A k \in D : d(j) <= d(k)
    BY Zenon DEF Closest
  <1>8. safe <=> s.eat_dist < s.predator_dist
    <2> HIDE DEF P, D, d, s
    <2>1. s.eat_dist \in Int /\ s.predator_dist \in Int /\ Diagonal \in Int
      BY <1>4, <1>5, DistFacts
    <2>2. CASE s.eat_dist < s.predator_dist
      <3>1. s.eat \in P /\ s.eat_dist = d(s.eat)
        BY <1>4, <1>5, <2>1, <2>2
      <3>2. ASSUME NEW k \in D PROVE d(s.eat) < d(k)
        <4>1. s.predator_dist <= d(k) /\ d(k) \in Int
          BY <1>4, <1>5
        <4> QED
          BY <2>1, <2>2, <3>1, <4>1
      <3> QED
        BY <2>2, <3>1, <3>2
    <2>3. CASE ~(s.eat_dist < s.predator_dist)
      <3>1. ASSUME NEW j \in P, \A k \in D : d(j) < d(k)
            PROVE  FALSE
        <4>1. s.eat_dist <= d(j) /\ d(j) \in Int /\ d(j) < Diagonal
          BY <1>4, <1>5
        <4>2. s.predator \in D /\ s.predator_dist = d(s.predator)
          BY <1>4, <2>1, <2>3, <4>1
        <4>3. d(j) < s.predator_dist
          BY <3>1, <4>2
        <4> QED
          BY <2>1, <2>3, <4>1, <4>3
      <3> QED
        BY <2>3, <3>1
    <2> QED
      BY <2>2, <2>3
  <1>9. CASE safe
    <2> HIDE DEF P, D, d, s, t
    <2>1. t.chase = TRUE /\ t.body = s.eat
      BY <1>6, <1>8, <1>9
    <2>2. s.eat \in P /\ \A k \in P : d(s.eat) <= d(k)
      BY <1>4, <1>9
    <2>3. t.chase /\ t.body \in Closest(w, i, P)
      BY <1>7, <2>1, <2>2, Zenon
    <2> QED
      BY <1>9, <2>3, Zenon DEF P, D, d, t
  <1>10. CASE ~safe
    <2> HIDE DEF P, D, d, s, t, safe
    <2>1. t.chase = FALSE /\ t.body = s.predator
      BY <1>6, <1>8, <1>10
    <2>2. CASE D # {}
      <3>1. s.predator \in D /\ \A k \in D : d(s.predator) <= d(k)
        BY <1>4, <2>2
      <3>2. ~t.chase /\ t.body \in Closest(w, i, D)
        BY <1>7, <2>1, <3>1, Zenon
      <3> QED
        BY <1>10, <2>2, <3>2, Zenon DEF P, D, d, t, safe
    <2>3. CASE D = {}
      <3>1. s.predator = i
        BY <1>4, <2>3
      <3>2. ~t.chase /\ t.body = i
        BY <2>1, <3>1, Zenon
      <3> QED
        BY <1>10, <2>3, <3>2, Zenon DEF P, D, d, t, safe
    <2> QED
      BY <2>2, <2>3
  <1> QED
    BY <1>9, <1>10

-----------------------------------------------------------------------------
(***************************************************************************)
(* Theorems.                                                               *)
(***************************************************************************)
TypeOK == entities \in Worlds /\ stray \in BOOLEAN

LEMMA InitTypes == Init => TypeOK
  <1> SUFFICES ASSUME Init
               PROVE  TypeOK
    OBVIOUS
  <1>1. entities \in [1 .. Spawned -> Body]
    <2>1. [user_id : {AI}, pos : Field, radius : Radii] \subseteq Body
      BY PlaceFacts, WorldAssumption DEF Body
    <2> QED
      BY <2>1 DEF Init
  <1>2. entities \in Worlds
    BY <1>1, WorldAssumption DEF Worlds
  <1> QED
    BY <1>2 DEF Init, TypeOK

LEMMA NextTypes == TypeOK /\ [Next]_vars => TypeOK'
  <1> SUFFICES ASSUME TypeOK, [Next]_vars
               PROVE  TypeOK'
    OBVIOUS
  <1>1. CASE Tick
    <2>1. entities' \in Worlds
      BY <1>1, TickFacts, SameFacts DEF TypeOK, Eaten
    <2> QED
      BY <1>1, <2>1 DEF Tick, TypeOK
  <1>2. CASE Leaves
    <2>1. entities' \in Worlds
      BY <1>2, LeavesFacts, SameFacts DEF TypeOK, Eaten
    <2> QED
      BY <1>2, <2>1 DEF Leaves, TypeOK
  <1>3. CASE Joins
    <2>1. entities' \in Worlds
      BY <1>3, JoinsFacts DEF TypeOK
    <2> QED
      BY <1>3, <2>1 DEF Joins, TypeOK
  <1>4. CASE UNCHANGED vars
    BY <1>4 DEF TypeOK, vars
  <1> QED
    BY <1>1, <1>2, <1>3, <1>4 DEF Next

\* Every body is the AI's or a player's, is somewhere or lost, and has a size.
THEOREM TypeInv == Spec => []TypeOK
  BY InitTypes, NextTypes, PTL DEF Spec

\* Eating moves size from one body to another: as long as nobody joins, the
\* sum of the radii is what it was, however many bodies meet in one tick.
THEOREM MassIsKept == Spec => MassKept
  <1>1. ASSUME TypeOK, Next, ~Joins
        PROVE  Total(entities') = Total(entities)
    <2>1. entities' \in Eaten(entities)
      BY <1>1, TickFacts, LeavesFacts DEF Next, TypeOK
    <2> QED
      BY <2>1, Zenon DEF Eaten
  <1>2. TypeOK /\ [Next]_vars => [~Joins => Total(entities') = Total(entities)]_vars
    BY <1>1
  <1> QED
    BY <1>2, TypeInv, PTL DEF Spec, MassKept

\* After a tick every body that fits is within the walls.
THEOREM WithinWalls == Spec => Walls
  <1> DEFINE Fits(b) == ~Lost(b) /\ 2 * b.radius <= weight /\ 2 * b.radius <= height
             Good == \A i \in DOMAIN entities' : Fits(entities'[i]) => Inside(entities'[i])
  <1>1. ASSUME TypeOK, Tick
        PROVE  Good
    <2>1. entities' \in Same(entities) /\ DOMAIN entities' = 1 .. Len(entities)
      BY <1>1, TickFacts, SameFacts, Zenon DEF TypeOK, Eaten
    <2>2. PICK w \in Same(entities) :
             \A i \in 1 .. Len(entities) : entities'[i] = Walled(w[i])
      BY <1>1, TickFacts, Zenon DEF TypeOK
    <2> SUFFICES ASSUME NEW i \in 1 .. Len(entities), Fits(entities'[i])
                 PROVE  Inside(entities'[i])
      BY <2>1, Zenon
    <2>3. w[i] \in Body /\ entities'[i] = Walled(w[i])
      BY <2>2 DEF Same
    <2>4. /\ Walled(w[i]).radius = w[i].radius /\ ~Lost(w[i])
          /\ (2 * w[i].radius <= weight /\ 2 * w[i].radius <= height) => Inside(Walled(w[i]))
      BY <2>3, WalledFacts, Zenon
    <2> QED
      BY <2>3, <2>4, Zenon
  <1>2. TypeOK /\ [Next]_vars => [~Leaves /\ ~Joins => Good]_vars
    <2> HIDE DEF Good
    <2> QED
      BY <1>1 DEF Next
  <1>3. Spec => [][~Leaves /\ ~Joins => Good]_vars
    <2> HIDE DEF Good
    <2> QED
      BY <1>2, TypeInv, PTL DEF Spec
  <1>4. Walls <=> [][~Leaves /\ ~Joins => Good]_vars
    BY Zenon DEF Walls
  <1> QED
    BY <1>3, <1>4, Zenon

\* A body whose position is NaN is out of the game for ever.
THEOREM TheLostStayLost == Spec => LostForEver
  <1> DEFINE Good == \A i \in DOMAIN entities : Lost(entities[i]) =>
                        Lost(entities'[i]) /\ entities'[i].radius = entities[i].radius
  <1>1. ASSUME TypeOK, Next
        PROVE  Good
    <2>1. DOMAIN entities = 1 .. Len(entities)
      BY <1>1, SameFacts, Zenon DEF TypeOK
    <2>2. CASE Tick \/ Leaves
      <3>1. entities' \in Eaten(entities)
        BY <1>1, <2>2, TickFacts, LeavesFacts, Zenon DEF TypeOK
      <3> QED
        BY <2>1, <3>1, Zenon DEF Eaten
    <2>3. CASE Joins
      BY <1>1, <2>1, <2>3, JoinsFacts, Zenon DEF TypeOK
    <2> QED
      BY <1>1, <2>2, <2>3, Zenon DEF Next
  <1>2. TypeOK /\ [Next]_vars => [Good]_vars
    <2> HIDE DEF Good
    <2> QED
      BY <1>1
  <1>3. Spec => [][Good]_vars
    <2> HIDE DEF Good
    <2> QED
      BY <1>2, TypeInv, PTL DEF Spec
  <1> QED
    BY <1>3 DEF LostForEver

\* An AI goes for the closest smaller body if that is strictly closer than
\* every bigger one, else it flees the closest bigger one; with neither in
\* sight it turns on itself.
THEOREM TheRightTargets == Spec => []TargetsRight
  <1>1. TypeOK => TargetsRight
    BY TargetFacts, SameFacts, Zenon DEF TypeOK, TargetsRight
  <1> QED
    BY <1>1, TypeInv, PTL
=============================================================================
