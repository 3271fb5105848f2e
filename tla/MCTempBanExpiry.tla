-------------------------- MODULE MCTempBanExpiry ---------------------------
(* Bounds for TLC: interchangeable clients and addresses.                  *)
EXTENDS TempBanExpiry, TLC
Symmetry == Permutations(Client) \cup Permutations(Key)
=============================================================================
