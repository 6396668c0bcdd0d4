----------------------------- MODULE MCEnetChat -----------------------------
(***************************************************************************)
(* Instances of EnetChat for TLC: the clients are interchangeable.         *)
(***************************************************************************)
EXTENDS EnetChat, TLC

CONSTANTS p1, p2, p3

Symmetry == Permutations(Client)
=============================================================================
