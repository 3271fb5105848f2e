----------------------------- MODULE MCBanStore -----------------------------
(* Bounds for TLC: two keys are enough for an entry that is handled while  *)
(* another one must not be disturbed.                                      *)
EXTENDS BanStore, TLC
Keys == Permutations(Key)
=============================================================================
