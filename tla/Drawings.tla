------------------------------ MODULE Drawings ------------------------------
(***************************************************************************)
(* `gnocontracts graph` (src/tools/gnocontracts/graph.go): a .dot per      *)
(* figure, rewritten when the dependencies it shows have changed, and two  *)
(* images of it, rendered only then or when one is missing.  graphviz may  *)
(* be absent from one run and fail in another.                             *)
(***************************************************************************)
EXTENDS Naturals, FiniteSets

CONSTANTS Figures,      \* one per package, the whole graph and the latest one
          MaxChanges    \* bound on the changes of what a figure shows

ASSUME DrawingsAssumption == MaxChanges \in Nat

VARIABLES
    shown,      \* [Figures -> Nat]: what contracts.json says, numbered by its changes
    dot,        \* [Figures -> Nat]: what the .dot holds, 0 for no file
    svg, png,   \* [Figures -> Nat]: what the images show, 0 for no file
    missed,     \* history: figures whose .dot was rewritten and not rendered in that run
    drawing     \* the run in progress: figures left, graphviz, failures

drawVars == <<shown, dot, svg, png, missed, drawing>>

Resting == [todo |-> {}, dot |-> FALSE, failed |-> 0, ended |-> FALSE]

DrawingsInit ==
    /\ shown = [f \in Figures |-> 1]
    /\ dot = [f \in Figures |-> 0] /\ svg = dot /\ png = dot
    /\ missed = {} /\ drawing = Resting
-----------------------------------------------------------------------------
Change(f) ==
    /\ drawing.todo = {} /\ shown[f] <= MaxChanges
    /\ shown' = [shown EXCEPT ![f] = @ + 1]
    /\ drawing' = Resting
    /\ UNCHANGED <<dot, svg, png, missed>>

cmdGraph(haveDot) ==
    /\ drawing.todo = {}
    /\ drawing' = [todo |-> Figures, dot |-> haveDot, failed |-> 0, ended |-> FALSE]
    /\ UNCHANGED <<shown, dot, svg, png, missed>>

Missing(f) == svg[f] = 0 \/ png[f] = 0
\* Plausible bug: an image is rendered when its .dot is rewritten, and then only.
OnlyChanged(f) == dot[f] # shown[f]
\* The .dot has just been rewritten, or an image of it is not there.
Needed(f) == dot[f] # shown[f] \/ Missing(f)

\* writeIfChanged and, with graphviz, both images: the second is not tried when the
\* first fails.  A render that fails leaves what was there, and the run goes on.
Draw(f, how) ==
    /\ f \in drawing.todo
    /\ dot' = [dot EXCEPT ![f] = shown[f]]
    /\ IF drawing.dot /\ Needed(f)
       THEN /\ svg' = IF how \in {"both", "svg"} THEN [svg EXCEPT ![f] = shown[f]] ELSE svg
            /\ png' = IF how = "both" THEN [png EXCEPT ![f] = shown[f]] ELSE png
            /\ drawing' = [drawing EXCEPT !.todo = @ \ {f}, !.ended = drawing.todo = {f},
                              !.failed = @ + (IF how = "both" THEN 0 ELSE 1)]
       ELSE /\ UNCHANGED <<svg, png>>
            /\ drawing' = [drawing EXCEPT !.todo = @ \ {f}, !.ended = drawing.todo = {f}]
    /\ missed' = CASE drawing.dot /\ Needed(f) /\ how = "both" -> missed \ {f}
                   [] ~(drawing.dot /\ Needed(f) /\ how = "both") /\ dot[f] # shown[f] ->
                         missed \cup {f}
                   [] OTHER -> missed
    /\ UNCHANGED shown

DrawingsNext ==
    \/ \E f \in Figures : Change(f) \/ \E how \in {"both", "svg", "neither"} : Draw(f, how)
    \/ \E haveDot \in BOOLEAN : cmdGraph(haveDot)

DrawingsSpec == DrawingsInit /\ [][DrawingsNext]_drawVars
-----------------------------------------------------------------------------
DrawingsTypeOK ==
    /\ shown \in [Figures -> 1 .. MaxChanges + 1]
    /\ {dot, svg, png} \subseteq [Figures -> 0 .. MaxChanges + 1]
    /\ missed \in SUBSET Figures /\ drawing.todo \in SUBSET Figures /\ drawing.failed \in 0 .. Cardinality(Figures)

\* Once a run with graphviz reports no failure, every image shows its .dot, but for
\* those whose .dot was rewritten by a run that did not render it: these are never
\* tried again as long as both of their old images are there.
ImagesCatchUp ==
    (drawing.ended /\ drawing.dot /\ drawing.failed = 0) =>
        /\ \A f \in Figures \ missed : svg[f] = dot[f] /\ png[f] = dot[f]
        /\ \A f \in missed : svg[f] # 0 /\ png[f] # 0
=============================================================================
