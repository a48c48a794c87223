------------------------------- MODULE MCPair -------------------------------
(* Pair with one or two providers: constants for TLC only. *)
EXTENDS Pair

CONSTANTS ann, bob

AnnBob == {ann, bob}
=============================================================================
