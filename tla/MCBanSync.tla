----------------------------- MODULE MCBanSync ------------------------------
(* Bounds for TLC.  The clients are interchangeable.                       *)
EXTENDS BanSync, TLC
Symmetry == Permutations(Client)
=============================================================================
