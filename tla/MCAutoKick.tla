----------------------------- MODULE MCAutoKick -----------------------------
(* Bounds for TLC: the players differ in what the lists say of them.       *)
EXTENDS AutoKick
=============================================================================
