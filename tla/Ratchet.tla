------------------------------ MODULE Ratchet ------------------------------
(***************************************************************************)
(* The guards that compare the tree with a recorded baseline: gnovet       *)
(* (src/tools/gnocontracts/gnovet.go, src/tools/gnovet/gnovet.go),         *)
(* audit-patterns (audit_patterns.go) and guard-tables (guard_tables.go).  *)
(* Pull requests write lines and record baselines; each is judged once, on *)
(* the merge with the main branch of the moment, and lands later.          *)
(***************************************************************************)
EXTENDS Naturals, FiniteSets, FiniteSetsExt

CONSTANTS
    GuardRules,     \* rules of gnovet or of the harness; guard-tables has one
    GuardFiles,     \* files for gnovet, packages for the other two
    OldDebts,       \* rows that were there before the rules
    LinesOf,        \* [GuardRules \X GuardFiles -> Nat]: lines of each that may be hit
    Changes,        \* pull requests
    MaxPatch        \* bound on the edits of one, for model checking

ASSUME RatchetAssumption ==
    /\ LinesOf \in [GuardRules \X GuardFiles -> Nat \ {0}] /\ MaxPatch \in Nat
    /\ OldDebts \subseteq GuardRules \X GuardFiles

Guards == {"gnovet", "audit", "tables"}
Debts == GuardRules \X GuardFiles           \* gnovetKey, auditKey
\* A line is clean, a hit, or a hit beside a comment with a reason under the floor or
\* above it.
Marks == {"clean", "hit", "thin", "reasoned"}
\* The mirrored rules read no comment.
MarksOf(g) == IF g = "audit" THEN {"clean", "hit"} ELSE Marks
Lines(k) == 1 .. LinesOf[k]

VARIABLES
    guard,          \* which of the three this is
    mainline,       \* the lines and the baseline of main
    patch,          \* [Changes -> pull request]
    raced           \* history: rows two pull requests changed, neither judged with the other

ratchetVars == <<guard, mainline, patch, raced>>

Commented(sheet, k) == {l \in Lines(k) : sheet[k][l] \in {"thin", "reasoned"}}
HitLines(sheet, k) == {l \in Lines(k) : sheet[k][l] # "clean"}

\* ignored: a reason of MinIgnoreReason characters or more.
ignored(mark) == mark = "reasoned"

\* What a row counts: lines not ignored; every line, for the mirrored rules; and for a
\* package that builds a table, once, unless it opts out.
counted(sheet, k) ==
    CASE guard = "gnovet" -> Cardinality({l \in HitLines(sheet, k) : ~ignored(sheet[k][l])})
      [] guard = "audit" -> Cardinality(HitLines(sheet, k))
      [] guard = "tables" ->
            IF HitLines(sheet, k) # {} /\ Commented(sheet, k) = {} THEN 1 ELSE 0
counts(sheet) == [k \in {k \in Debts : counted(sheet, k) > 0} |-> counted(sheet, k)]

\* The opt-out that is kept is the last one read.
thin(sheet) == {k \in Debts : Commented(sheet, k) # {}
                                /\ sheet[k][Max(Commented(sheet, k))] = "thin"}

appeared(found, baseline) == DOMAIN found \ DOMAIN baseline
grew(found, baseline) == {k \in DOMAIN found \cap DOMAIN baseline : found[k] > baseline[k]}
\* Plausible bug: only the rows that are still hit are compared.
shrankOfFound(found, baseline) ==
    {k \in DOMAIN found \cap DOMAIN baseline : found[k] < baseline[k]}
shrank(found, baseline) ==
    {k \in DOMAIN baseline : k \notin DOMAIN found \/ found[k] < baseline[k]}

\* compareGnovet, auditCompare, cmdGuardTables: no row new, none grown, none shrunk.
passes(sheet, baseline) ==
    /\ appeared(counts(sheet), baseline) = {} /\ grew(counts(sheet), baseline) = {}
    /\ shrank(counts(sheet), baseline) = {}
    /\ guard = "tables" => thin(sheet) = {}

\* since (history): the rows of main that changed since it was judged.
NoPatch == [pc |-> "none", onto |-> <<>>, tip |-> <<>>, edits |-> 0, since |-> {}]

\* A tree at its baseline, with a line in each row that was there before the rules.
RatchetInit ==
    /\ guard \in Guards
    /\ LET sheet == [k \in Debts |-> [l \in Lines(k) |->
                       IF k \in OldDebts /\ l = 1 THEN "hit" ELSE "clean"]]
       IN  mainline = [sheet |-> sheet, baseline |-> counts(sheet)]
    /\ patch = [p \in Changes |-> NoPatch] /\ raced = {}
-----------------------------------------------------------------------------
StartPatch(p) ==
    /\ patch[p].pc = "none" /\ p = CHOOSE q \in Changes : patch[q].pc = "none"
    /\ patch' = [patch EXCEPT ![p] = [NoPatch EXCEPT !.pc = "open", !.onto = mainline,
                                                     !.tip = mainline]]
    /\ UNCHANGED <<guard, mainline, raced>>

Commit(p, tip) ==
    /\ patch[p].edits < MaxPatch
    /\ patch' = [patch EXCEPT ![p].pc = "open", ![p].tip = tip, ![p].edits = @ + 1,
                               ![p].since = {}]
    /\ UNCHANGED <<guard, mainline, raced>>

MarkLine(p, k, l, mark) ==
    /\ patch[p].tip.sheet[k][l] # mark
    /\ Commit(p, [patch[p].tip EXCEPT !.sheet[k][l] = mark])

\* -update, alone or with -rule or -pkg: what this run visited becomes the baseline.
Visits == {Debts} \cup (IF guard = "tables" THEN {}
                        ELSE {{r} \X GuardFiles : r \in GuardRules})
                  \cup (IF guard = "audit" THEN {GuardRules \X {f} : f \in GuardFiles} ELSE {})
Record(p, visited) ==
    LET found == counts(patch[p].tip.sheet)
    IN  Commit(p, [patch[p].tip EXCEPT
                     !.baseline = [k \in DOMAIN found \cap visited |-> found[k]]])

\* A row of the baseline file, 0 when it is not there.
RowOf(b, k) == IF k \in DOMAIN b THEN b[k] ELSE 0
\* A squash merge takes from each side what the other left alone: lines, and rows of the
\* baseline; a change both made the same is no conflict.
TakeFrom(old, ours, theirs) == IF ours = old THEN theirs ELSE ours
NoConflict(old, ours, theirs) == old \in {ours, theirs} \/ ours = theirs
Merges(p) ==
    LET o == patch[p].onto
        t == patch[p].tip
    IN  \A k \in Debts :
          /\ NoConflict(RowOf(o.baseline, k), RowOf(t.baseline, k), RowOf(mainline.baseline, k))
          /\ \A l \in Lines(k) :
                NoConflict(o.sheet[k][l], t.sheet[k][l], mainline.sheet[k][l])
MergeOf(p) ==
    LET o == patch[p].onto
        t == patch[p].tip
        row(k) == TakeFrom(RowOf(o.baseline, k), RowOf(t.baseline, k), RowOf(mainline.baseline, k))
    IN  [sheet |-> [k \in Debts |-> [l \in Lines(k) |->
                      TakeFrom(o.sheet[k][l], t.sheet[k][l], mainline.sheet[k][l])]],
         baseline |-> [k \in {k \in Debts : row(k) > 0} |-> row(k)]]

\* The rows that differ between two trees.
TouchedRows(old, new) == {k \in Debts : \/ old.sheet[k] # new.sheet[k]
                                        \/ RowOf(old.baseline, k) # RowOf(new.baseline, k)}

Judge(p) ==
    /\ patch[p].pc = "open" /\ patch[p].edits > 0 /\ Merges(p)
    /\ passes(MergeOf(p).sheet, MergeOf(p).baseline)
    /\ patch' = [patch EXCEPT ![p].pc = "green", ![p].since = {}]
    /\ UNCHANGED <<guard, mainline, raced>>

LandPatch(p) ==
    /\ patch[p].pc = "green" /\ Merges(p)
    /\ mainline' = MergeOf(p)
    /\ patch' = [q \in Changes |->
                   CASE q = p -> [NoPatch EXCEPT !.pc = "landed"]
                     [] q # p /\ patch[q].pc = "green" ->
                           [patch[q] EXCEPT !.since = @ \cup TouchedRows(mainline, MergeOf(p))]
                     [] OTHER -> patch[q]]
    /\ raced' = raced \cup (TouchedRows(patch[p].onto, patch[p].tip) \cap patch[p].since)
    /\ UNCHANGED guard

RatchetNext ==
    \E p \in Changes :
       \/ StartPatch(p) \/ Judge(p) \/ LandPatch(p)
       \/ /\ patch[p].pc \in {"open", "green"}
          /\ \/ \E k \in Debts, mark \in MarksOf(guard) :
                   \E l \in Lines(k) : MarkLine(p, k, l, mark)
             \/ \E visited \in Visits : Record(p, visited)

RatchetSpec == RatchetInit /\ [][RatchetNext]_ratchetVars
-----------------------------------------------------------------------------
RatchetTypeOK ==
    /\ guard \in Guards /\ raced \subseteq Debts
    /\ \A k \in Debts : mainline.sheet[k] \in [Lines(k) -> Marks]
    /\ DOMAIN mainline.baseline \subseteq Debts
    /\ \A p \in Changes : /\ patch[p].pc \in {"none", "open", "green", "landed"}
                          /\ patch[p].edits \in 0 .. MaxPatch

\* A row of main is at its baseline, no more and no less, whatever pull requests wrote,
\* recorded in part and landed in whatever order; and what is left out of the baseline
\* gives its reason.  Only a row that two of them changed, each judged without the
\* other, may be off.
DebtIsRecorded ==
    \A k \in Debts \ raced :
       /\ RowOf(mainline.baseline, k) = counted(mainline.sheet, k)
       /\ HitLines(mainline.sheet, k) # {} /\ k \notin DOMAIN mainline.baseline =>
             \E l \in Lines(k) : mainline.sheet[k][l] = "reasoned"
=============================================================================
