------------------------------ MODULE MCDuplex ------------------------------
(* Duplex.tla for TLC: the calls of the two ends. *)
EXTENDS Duplex

TwoAndOne == {<<A, 1>>, <<A, 2>>, <<B, 1>>}

TwoEach == {<<A, 1>>, <<A, 2>>, <<B, 1>>, <<B, 2>>}
=============================================================================
