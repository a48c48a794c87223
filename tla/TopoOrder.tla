----------------------------- MODULE TopoOrder -----------------------------
(***************************************************************************)
(* topoOrder (src/tools/gnocontracts/chainprobe.go): Kahn's algorithm over *)
(* the contracts of the repository, one pop of the ready list at a time,   *)
(* whatever the contracts import, outsiders and themselves included.       *)
(***************************************************************************)
EXTENDS Naturals, FiniteSets, Sequences, SequencesExt

CONSTANTS Contracts,    \* the contracts to order
          Outsiders     \* what else they import

ASSUME TopoAssumption == /\ IsFiniteSet(Contracts) /\ Contracts \cap Outsiders = {}

VARIABLES
    imports,    \* [Contracts -> SUBSET (Contracts \cup Outsiders)]
    indeg,      \* [Contracts -> Nat]: imports that are not in the order yet
    ready,      \* contracts whose imports all are
    order,      \* the order so far
    sorted      \* "running", "ordered" or "cycle"

topoVars == <<imports, indeg, ready, order, sorted>>

\* Plausible bug: outsiders and a contract's own path count too.
EveryDep(c) == imports[c]
\* What a contract waits for: outsiders are on chain already, and it never waits for
\* itself.
deps(c) == (imports[c] \cap Contracts) \ {c}

TopoInit ==
    /\ imports \in [Contracts -> SUBSET (Contracts \cup Outsiders)]
    /\ indeg = [c \in Contracts |-> Cardinality(deps(c))]
    /\ ready = {c \in Contracts : indeg[c] = 0}
    /\ order = <<>> /\ sorted = "running"

dependents(p) == {c \in Contracts : p \in deps(c)}

\* The first of the ready list; names order it.
Pop(p) ==
    /\ sorted = "running" /\ p \in ready
    /\ order' = Append(order, p)
    /\ indeg' = [c \in Contracts |-> IF c \in dependents(p) THEN indeg[c] - 1 ELSE indeg[c]]
    /\ ready' = (ready \ {p}) \cup {c \in dependents(p) : indeg'[c] = 0}
    /\ UNCHANGED <<imports, sorted>>

Finish ==
    /\ sorted = "running" /\ ready = {}
    /\ sorted' = IF Len(order) = Cardinality(Contracts) THEN "ordered" ELSE "cycle"
    /\ UNCHANGED <<imports, indeg, ready, order>>

TopoNext == Finish \/ \E p \in Contracts : Pop(p)
TopoSpec == TopoInit /\ [][TopoNext]_topoVars
-----------------------------------------------------------------------------
TopoTypeOK ==
    /\ imports \in [Contracts -> SUBSET (Contracts \cup Outsiders)]
    /\ indeg \in [Contracts -> 0 .. Cardinality(Contracts)]
    /\ ready \in SUBSET Contracts
    /\ order \in Seq(Contracts)
    /\ sorted \in {"running", "ordered", "cycle"}

\* Nothing comes before what it imports and nothing comes twice; "cycle" is said of
\* the graphs that have one and of no other.
OrderIsSound ==
    /\ \A i \in DOMAIN order : (imports[order[i]] \cap Contracts) \ {order[i]}
                                  \subseteq {order[j] : j \in 1 .. i - 1}
    /\ IsInjective(order)
    /\ sorted = "ordered" => ToSet(order) = Contracts
    /\ sorted = "cycle" => \E S \in SUBSET Contracts \ {{}} :
                              \A c \in S : (imports[c] \cap S) \ {c} # {}
=============================================================================
