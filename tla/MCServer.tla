------------------------------ MODULE MCServer ------------------------------
(* Server.tla for TLC: the bare connections are interchangeable. *)
EXTENDS Server, TLC

BareSymmetry == Permutations(Bare)
=============================================================================
