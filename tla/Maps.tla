-------------------------------- MODULE Maps --------------------------------
(***************************************************************************)
(* std::unordered_map as a function with a finite domain: the operations   *)
(* the lobby and the game server use on their tables.                      *)
(***************************************************************************)

\* The empty table.
NoEntries == [k \in {} |-> k]

\* m[k] = v, whether or not k was there.
Put(m, k, v) == [x \in DOMAIN m \cup {k} |-> IF x = k THEN v ELSE m[x]]

\* m.erase(k): nothing happens to a table without k.
Erase(m, k) == [x \in DOMAIN m \ {k} |-> m[x]]

\* What reading m[k] gives: operator[] inserts the default when k is missing.
At(m, k, default) == IF k \in DOMAIN m THEN m[k] ELSE default

\* The tables from a subset of K to V.
Tables(K, V) == UNION {[D -> V] : D \in SUBSET K}

\* m is a table from some of K to V.
IsTable(m, K, V) ==
    /\ m = [k \in DOMAIN m |-> m[k]]
    /\ \A k \in DOMAIN m : k \in K /\ m[k] \in V
=============================================================================
