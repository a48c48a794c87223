-------------------------------- MODULE MCAmm --------------------------------
(* Amm on two pools that share a token: constants for TLC only. *)
EXTENDS Amm, TLC

CONSTANTS ann, gno, foo, bar

OneAddress  == {ann}
ThreeTokens == {gno, foo, bar}
TwoPools    == {<<gno, foo>>, <<gno, bar>>}
\* The pools differ in their second token alone.
EitherPool  == Permutations({foo, bar})
=============================================================================
