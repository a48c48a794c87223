------------------------------- MODULE MCGns -------------------------------
(* Gns on a few names and short leases: constants for TLC only. *)
EXTENDS Gns

CONSTANTS ann, bob

AnnBob == {ann, bob}

\* A name, its subname, and a subname of that.
OneName    == {<<"co">>}
TwoNames   == {<<"co">>, <<"api", "co">>}
ThreeNames == TwoNames \cup {<<"prod", "api", "co">>}

\* Leases: each of two addresses may take the name for one second.
Lease(a)    == [name |-> <<"co">>, owner |-> a, duration |-> 1, revision |-> 1]
TwoLeases   == {Lease(ann), Lease(bob)}
OneLease    == {Lease(ann)}
OneOrEver   == {0, 1}
Ever        == {0}
OnlyAnn     == {ann}
Unset       == {NoAddress}
Reserving   == {"reserve"}
Ruling      == Reserving \cup {"pause", "open", "handover"}
Pausing     == {"pause"}

\* Rights: what an owner may give away, and what its parent may take.
Subject     == [flags |-> {"ownerTransfer", "parentReclaim", "parentDelete",
                           "parentPolicy"}, permanent |-> FALSE]
Bound       == [Subject EXCEPT !.permanent = TRUE]
OneControl  == {Bound}
ToAnyone    == {[mode |-> "open", allowlist |-> {}, default |-> Subject]}
ToTheOwner  == {[mode |-> "owner", allowlist |-> {}, default |-> Subject]}
Helper      == {[perms |-> {"subnames", "transfer"}, until |-> 1]}
Nothing     == {}
=============================================================================
