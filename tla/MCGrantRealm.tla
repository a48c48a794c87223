---------------------------- MODULE MCGrantRealm ----------------------------
(* GrantRealm on a small board: constants for TLC only. *)
EXTENDS GrantRealm, TLC

CONSTANTS ann, bob, cat

AnnBob       == {ann, bob}
AnnBobCat    == {ann, bob, cat}
WithTreasury == {ann, bob, cat, Treasury}
Symmetry     == Permutations(AnnBob)

TwoTranches   == {<<1, 2>>, <<2, 0>>}
\* Amounts at the top of a 4-bit integer: their sum does not fit.
WideTranches  == {<<7, 7>>}
=============================================================================
