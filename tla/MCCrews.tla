------------------------------ MODULE MCCrews ------------------------------
(* Crews on a few members and small amounts: constants for TLC only. *)
EXTENDS Crews, TLC

CONSTANTS ann, bob, cy, crew, prop

AnnBobCy == {ann, bob, cy}
OneCrew  == {crew}
OneProp  == {prop}
AnyName  == Permutations(AnnBobCy)
=============================================================================
