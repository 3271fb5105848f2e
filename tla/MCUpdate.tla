------------------------------ MODULE MCUpdate -------------------------------
(* Four places: two programs that the user has started, and the process    *)
(* that each of them hands over to.                                        *)
EXTENDS Update
=============================================================================
