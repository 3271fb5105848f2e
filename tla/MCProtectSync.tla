--------------------------- MODULE MCProtectSync ----------------------------
(* Bounds for TLC: interchangeable clients and keys.                       *)
EXTENDS ProtectSync, TLC
Symmetry == Permutations(Client) \cup Permutations(Key)
=============================================================================
