---------------------------- MODULE MCSessions ------------------------------
(* Bounds for TLC: the clients are interchangeable when all of them, or    *)
(* none, share an address.                                                 *)
EXTENDS Sessions, TLC
Symmetry == Permutations(Client)
=============================================================================
