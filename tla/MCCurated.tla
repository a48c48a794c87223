----------------------------- MODULE MCCurated -----------------------------
(* Curated on a small list: constants for TLC only. *)
EXTENDS Curated

CONSTANTS ann, bob, k1, k2

AnnBob  == {ann, bob}
TwoKeys == {k1, k2}
=============================================================================
