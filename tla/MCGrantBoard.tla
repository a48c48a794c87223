---------------------------- MODULE MCGrantBoard ----------------------------
(* GrantBoard on a small board: constants for TLC only. *)
EXTENDS GrantBoard, TLC

CONSTANTS ann, bob, cat

AnnBobCat == {ann, bob, cat}
TwoTranches == {<<1, 2>>, <<2, 0>>}

Symmetry == Permutations(AnnBobCat)
=============================================================================
