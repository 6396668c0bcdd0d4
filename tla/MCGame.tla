------------------------------- MODULE MCGame -------------------------------
(***************************************************************************)
(* Small instances of Game for TLC.                                        *)
(***************************************************************************)
EXTENDS GameProperties, TLC

CONSTANTS s1, s2, b1, b2, b3

\* Slots are interchangeable, and so are bodies: only their equality counts.
Symmetry == Permutations(Peer) \cup Permutations(Body)

\* A player may come from a game with more entities than fit in this one, all
\* of them where nothing is here.
LargerGame == {[n \in 1 .. MaxEntities + 1 |-> [user_id |-> AI, body |-> Blank.body]]}

\* Executions are cut off where a slot is used again after an acknowledgement,
\* as InSync says nothing of that slot, and where a player that brought
\* entities is no longer the only one.
FreshSlots ==
    /\ reused = {}
    /\ Cardinality(conn) > 1 => \A p \in conn : brought[p] = <<>>
=============================================================================
