------------------------------ MODULE Recursion ------------------------------
(***************************************************************************)
(* Induction and recursion over 0 .. N for the loops of World and          *)
(* EntitiesPacket.  The induction theorems of the library take a           *)
(* predicate; these take the set of the numbers that satisfy it, and come  *)
(* from the fact that < is well-founded on the naturals.                   *)
(***************************************************************************)
EXTENDS Integers, Sequences, WellFoundedInduction, TLAPS

\* A set of naturals that is not empty has a least element.
LEMMA Least ==
    ASSUME NEW T \in SUBSET Nat, T # {}
    PROVE  \E x \in T : \A y \in T : x <= y
  <1>1. PICK x \in T : \A y \in T : ~ (<<y, x>> \in OpToRel(<, Nat))
    BY WFMin, NatLessThanWellFounded, Zenon
  <1>2. ASSUME NEW y \in T
        PROVE  ~ (y < x)
    BY <1>1, Zenon DEF OpToRel
  <1> QED
    BY <1>2

\* A set that has 0, and with every number the next one, has all up to N.
LEMMA Induction ==
    ASSUME NEW N \in Nat, NEW T, 0 \in T, \A n \in 1 .. N : n - 1 \in T => n \in T
    PROVE  \A n \in 0 .. N : n \in T
  <1> SUFFICES ASSUME NEW k \in 0 .. N, k \notin T
               PROVE  FALSE
    OBVIOUS
  <1> DEFINE B == {n \in 0 .. N : n \notin T}
  <1>1. B \in SUBSET Nat /\ B # {}
    OBVIOUS
  <1>2. PICK x \in B : \A y \in B : x <= y
    BY <1>1, Least
  <1>3. x \in 1 .. N /\ x - 1 \in 0 .. N /\ x \notin T
    BY <1>2
  <1>4. x - 1 \in T
    BY <1>2, <1>3
  <1> QED
    BY <1>3, <1>4

\* g holds what the first m steps make of a, step n being the function G[n].
Runs(g, m, a, G) == g[0] = a /\ \A n \in 1 .. m : g[n] = G[n][g[n - 1]]

\* Steps through the values of V can be put together.
LEMMA Iteration ==
    ASSUME NEW N \in Nat, NEW V, NEW a \in V, NEW G \in [1 .. N -> [V -> V]]
    PROVE  \E g \in [0 .. N -> V] : Runs(g, N, a, G)
  <1> DEFINE T == {m \in 0 .. N : \E g \in [0 .. m -> V] : Runs(g, m, a, G)}
  <1>1. 0 \in T
    <2> DEFINE g == [n \in 0 .. 0 |-> a]
    <2>1. g \in [0 .. 0 -> V] /\ Runs(g, 0, a, G)
      BY DEF Runs
    <2> HIDE DEF g
    <2> QED
      BY <2>1
  <1>2. ASSUME NEW m \in 1 .. N, m - 1 \in T
        PROVE  m \in T
    <2>1. PICK g \in [0 .. m - 1 -> V] : Runs(g, m - 1, a, G)
      BY <1>2
    <2> DEFINE h == [n \in 0 .. m |-> IF n = m THEN G[m][g[m - 1]] ELSE g[n]]
    <2>2. G[m][g[m - 1]] \in V
      OBVIOUS
    <2>3. \A n \in 0 .. m - 1 : n \in 0 .. m /\ n # m /\ g[n] \in V
      OBVIOUS
    <2>4. h \in [0 .. m -> V]
      BY <2>2, <2>3
    <2>5. h[m] = G[m][g[m - 1]] /\ \A n \in 0 .. m - 1 : h[n] = g[n]
      BY <2>3
    <2> HIDE DEF h
    <2>6. Runs(h, m, a, G)
      <3>1. h[0] = a
        BY <2>1, <2>5 DEF Runs
      <3>2. ASSUME NEW n \in 1 .. m
            PROVE  h[n] = G[n][h[n - 1]]
        BY <2>1, <2>5 DEF Runs
      <3> QED
        BY <3>1, <3>2 DEF Runs
    <2> HIDE DEF T
    <2>7. \E f \in [0 .. m -> V] : Runs(f, m, a, G)
      BY <2>4, <2>6
    <2> QED
      BY <2>7 DEF T
  <1>3. N \in T
    <2> HIDE DEF T
    <2>1. \A n \in 1 .. N : n - 1 \in T => n \in T
      BY <1>2
    <2>2. \A n \in 0 .. N : n \in T
      BY <1>1, <2>1, Induction, Zenon
    <2> QED
      BY <2>2
  <1> QED
    BY <1>3

\* f takes these steps as long as its values are in V.
Follows(f, N, V, a, G) ==
    f[0] = a /\ \A n \in 1 .. N : f[n - 1] \in V => f[n] = G[n][f[n - 1]]

\* Then they are.
LEMMA Closed ==
    ASSUME NEW N \in Nat, NEW V, NEW a \in V, NEW G \in [1 .. N -> [V -> V]], NEW f,
           Follows(f, N, V, a, G)
    PROVE  \A n \in 0 .. N : f[n] \in V
  <1> DEFINE T == {n \in 0 .. N : f[n] \in V}
  <1>1. 0 \in T
    BY DEF Follows
  <1>2. ASSUME NEW n \in 1 .. N, n - 1 \in T
        PROVE  n \in T
    <2>1. n \in 0 .. N /\ f[n - 1] \in V /\ f[n] = G[n][f[n - 1]]
      BY <1>2 DEF Follows
    <2>2. G[n][f[n - 1]] \in V
      BY <2>1
    <2> QED
      BY <2>1, <2>2
  <1> HIDE DEF T
  <1>3. \A n \in 0 .. N : n \in T
    BY <1>1, <1>2, Induction, Zenon
  <1> QED
    BY <1>3 DEF T
=============================================================================
