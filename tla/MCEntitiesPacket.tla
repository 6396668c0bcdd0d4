-------------------------- MODULE MCEntitiesPacket --------------------------
(***************************************************************************)
(* Instances of EntitiesPacket for TLC.                                    *)
(***************************************************************************)
EXTENDS EntitiesPacket

\* The bits of an int, in two's complement.
Bits(n) == [i \in 1 .. Width |-> ((n % 2 ^ Width) \div 2 ^ (i - 1)) % 2]

Entity(id, x, y, r) ==
    [user_id |-> Bits(id), pos_x |-> Bits(x), pos_y |-> Bits(y), radius |-> Bits(r)]

\* An AI and players that differ in one field, in all, or in the sign of a
\* zero; two of them are lost.
MCEntities == {Entity(-1, 5, 127, 1), Entity(7, 5, 127, 1), Entity(7, -128, 0, 1), Entity(-1, 0, -1, 2)}
MCNaNs == {Bits(127)}
MCZeros == {Bits(0), Bits(-128)}

MCHeader == Bits(14)
MCEpochs == {Bits(201)}

\* No key, every bit, and a pattern that is the same in no two bytes.
MCKey ==
    {[i \in 1 .. 32 |-> 0], [i \in 1 .. 32 |-> 1],
     [i \in 1 .. 32 |-> IF i % 9 \in {2, 3, 6} THEN 1 ELSE 0]}

MCBehind == {[n \in 1 .. 3 |-> [i \in 1 .. 8 |-> IF i % 3 = n % 3 THEN 1 ELSE 0]]}
=============================================================================
