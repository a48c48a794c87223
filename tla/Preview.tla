------------------------------ MODULE Preview ------------------------------
(***************************************************************************)
(* `gnocontracts preview` (src/tools/gnocontracts/preview*.go): a plan of  *)
(* what a pull request affects, a gnodev booted on the workspace, a crawl  *)
(* of the gnoweb it serves, the same again from the merge base, and        *)
(* pictures of both.  The two gnodevs are processes of their own: they may *)
(* come up, answer badly or exit at any moment.                            *)
(***************************************************************************)
EXTENDS Naturals, FiniteSets

CONSTANTS
    Pkgs,           \* the packages of the workspace
    Realms,         \* those that render
    Archived,       \* `ignore = true`
    Superseded,     \* pinned to a commit, materialized under .gnopm/
    Deps,           \* [Pkgs -> SUBSET Pkgs]: non-test imports
    InBase,         \* packages the merge base has too
    Pulls,          \* [Pkgs -> SUBSET Files \cup {...}]: what pull requests touch
    MaxPkgs,        \* -max-pkgs
    Pages,          \* gnoweb pages
    PkgOf,          \* [Pages -> Pkgs \cup {NoPkg}]
    View,           \* [Pages -> Views]
    FileName,       \* [Pages -> file]: of the pages that show one file
    Links,          \* [Pages -> SUBSET Pages]
    MaxPages,       \* -max-pages
    ArgBudget,      \* -max-args
    GetAttempts,    \* attempts at a page that is rate limited
    MaxPairs,       \* maxPairs
    NoPkg, NoPage

\* What a page shows.  "other" is what is never followed: the state explorer,
\* raw files, a call form per function, a tab of an argument, the listing view.
Views == {"render", "source", "help", "dir", "args", "file", "other"}

ASSUME PreviewAssumption ==
    /\ IsFiniteSet(Pages)
    /\ Realms \cup Archived \cup Superseded \cup InBase \subseteq Pkgs
    /\ Deps \in [Pkgs -> SUBSET Pkgs]
    /\ PkgOf \in [Pages -> Pkgs \cup {NoPkg}] /\ NoPkg \notin Pkgs /\ NoPage \notin Pages
    /\ View \in [Pages -> Views] /\ Links \in [Pages -> SUBSET Pages]
    /\ {MaxPkgs, MaxPages, ArgBudget, GetAttempts, MaxPairs} \subseteq Nat \ {0}

VARIABLES
    pc,             \* what the command is doing
    pass,           \* "head" or "base": whose gnodev it is doing it with
    plan,           \* previewPlan
    node,           \* [Passes -> NodeStates]: the gnodev processes
    died, waited,   \* [Passes -> ...]: the two channels of the goroutine that waits
    crawl,          \* [Passes -> Crawler]
    scan,           \* how reading the merge base went
    outcome         \* what the command returns

previewVars == <<pc, pass, plan, node, died, waited, crawl, scan, outcome>>

Passes == {"head", "base"}
NodeStates == {"off", "starting", "serving", "terminating", "exited"}

NoPlan == [site |-> FALSE, changed |-> {}, dependents |-> {}, paths |-> {}, dropped |-> 0,
           files |-> [p \in Pkgs |-> {}], new |-> {}, pairs |-> {}]
NoCrawl == [paths |-> {}, seeds |-> {}, queue |-> {}, visited |-> {}, pages |-> {},
            args |-> [p \in Pkgs |-> 0], at |-> NoPage, tries |-> 0]

PreviewInit ==
    /\ pc = "plan" /\ pass = "head" /\ plan = NoPlan
    /\ node = [w \in Passes |-> "off"]
    /\ died = [w \in Passes |-> "empty"] /\ waited = [w \in Passes |-> FALSE]
    /\ crawl = [w \in Passes |-> NoCrawl]
    /\ scan = "none" /\ outcome = "none"
-----------------------------------------------------------------------------
\* What is planned on: archived packages do not build, superseded ones are history.
live == Pkgs \ (Archived \cup Superseded)

\* Who in `among` imports something of S.
ImportersOf(among, S) == {q \in among : Deps[q] \cap S # {}}

\* Breadth-first backwards over the imports, |among| levels at most.
Reaching(among, S) ==
    LET level[n \in Nat] == IF n = 0 THEN S
                            ELSE level[n - 1] \cup ImportersOf(among, level[n - 1])
    IN  level[Cardinality(among)]

reverseDeps(changed) == (live \ changed) \cap Reaching(live, changed)

\* Changed before dependents, in each group what renders first; names order the rest.
Rank(changed, p) == (IF p \in changed THEN 0 ELSE 2) + (IF p \in Realms THEN 0 ELSE 1)
Capped(changed, all) ==
    IF Cardinality(all) <= MaxPkgs THEN {all}
    ELSE {P \in SUBSET all : /\ Cardinality(P) = MaxPkgs
                             /\ \A p \in P, q \in all \ P : Rank(changed, p) <= Rank(changed, q)}

\* The packages a pull request touches by anything but a test, and in each the
\* sources touched.
changedPackages(pull) == {p \in live : pull[p] # {}}

buildPreviewPlan ==
    \/ \E pull \in Pulls, selected \in {{}, live} :
          LET changed == changedPackages(pull) \cup selected
              dependents == reverseDeps(changed)
              all == changed \cup dependents
          IN  \E P \in Capped(changed, all) :
                 plan' = [NoPlan EXCEPT !.changed = changed, !.dependents = dependents,
                            !.paths = P, !.dropped = Cardinality(all) - Cardinality(P),
                            !.files = [p \in Pkgs |-> IF p \in live THEN pull[p] ELSE {}]]
    \/ plan' = [NoPlan EXCEPT !.site = TRUE, !.paths = live]

\* Nothing to preview, or -plan-only: preview.json is written and that is all.
Plan ==
    /\ pc = "plan"
    /\ buildPreviewPlan
    /\ \/ plan'.paths # {} /\ pc' = "boot" /\ UNCHANGED outcome
       \/ pc' = "returned" /\ outcome' = "ok"
    /\ UNCHANGED <<pass, node, died, waited, crawl, scan>>

-----------------------------------------------------------------------------
\* The process, and the goroutine that waits for it: its result goes to a channel
\* of one slot, which waitServing may have emptied, then a second channel is closed.
Serve(w) == /\ node[w] = "starting" /\ node' = [node EXCEPT ![w] = "serving"]
            /\ UNCHANGED <<pc, pass, plan, died, waited, crawl, scan, outcome>>

NodeExits(w) == /\ node[w] \in {"starting", "serving", "terminating"}
           /\ node' = [node EXCEPT ![w] = "exited"]
           /\ UNCHANGED <<pc, pass, plan, died, waited, crawl, scan, outcome>>

Report(w) == /\ node[w] = "exited" /\ died[w] = "empty"
             /\ died' = [died EXCEPT ![w] = "full"]
             /\ UNCHANGED <<pc, pass, plan, node, waited, crawl, scan, outcome>>

Close(w) == /\ died[w] # "empty" /\ ~waited[w]
            /\ waited' = [waited EXCEPT ![w] = TRUE]
            /\ UNCHANGED <<pc, pass, plan, node, died, crawl, scan, outcome>>

\* startGnodev on every package that builds, the superseded ones included.
Boot ==
    /\ pc = "boot"
    /\ \/ /\ node' = [node EXCEPT ![pass] = "starting"]
          /\ pc' = "wait" /\ UNCHANGED <<pass, outcome>>
       \/ /\ UNCHANGED node   \* no such binary, no log, no workspace
          /\ pass' = "head"   \* nothing of the base to stop: on with the pictures
          /\ IF pass = "head" THEN pc' = "returned" /\ outcome' = "failed"
                              ELSE pc' = "shots" /\ UNCHANGED outcome
    /\ UNCHANGED <<plan, died, waited, crawl, scan>>

\* A pass fails: the head's error is the command's, a missing "before" costs a
\* picture.  Either way the deferred stop runs.
Fail == /\ pc' = "stop"
        /\ outcome' = IF pass = "head" THEN "failed" ELSE outcome

SeedsOf(w, paths) ==
    {u \in Pages : /\ PkgOf[u] \in paths \/ View[u] = "dir"
                   /\ View[u] \in (IF w = "base" THEN {"render"}
                                   ELSE {"render", "source", "help", "dir"})}

PathsOf(w) == IF w = "head" THEN plan.paths ELSE plan.changed \ plan.new

\* Plausible bug: a gnodev that neither serves nor exits is waited for.
NoDeadline == FALSE
\* The deadline may pass, whatever the gnodev does.
Deadline == TRUE
waitServing ==
    /\ pc = "wait"
    /\ \/ /\ node[pass] = "serving"   \* and the first page answers 200
          /\ LET seeds == SeedsOf(pass, PathsOf(pass))
             IN  crawl' = [crawl EXCEPT ![pass] = [NoCrawl EXCEPT
                             !.paths = PathsOf(pass), !.seeds = seeds, !.queue = seeds]]
          /\ pc' = "crawl" /\ UNCHANGED <<died, outcome>>
       \/ /\ died[pass] = "full" /\ died' = [died EXCEPT ![pass] = "taken"]
          /\ Fail /\ UNCHANGED crawl
       \/ Deadline /\ Fail /\ UNCHANGED <<died, crawl>>
    /\ UNCHANGED <<pass, plan, node, waited, scan>>

-----------------------------------------------------------------------------
\* A file of a package that has touched ones is kept when it is one of them; the
\* budget of the others is none in a pull request and unlimited for the site.
wantFile(p, f) == plan.site \/ f \in plan.files[p]

ArgsLeft(c, p) == c.args[p] < ArgBudget

inScope(w, c, u) ==
    /\ w = "head" /\ PkgOf[u] \in c.paths
    /\ View[u] # "other"
    /\ View[u] = "args" => ArgsLeft(c, PkgOf[u])
    /\ View[u] = "file" => wantFile(PkgOf[u], FileName[u])

\* Plausible bug: the check at discovery is thought to be enough.
AlwaysChargeable(c, u) == TRUE
\* The check at discovery is advisory, this one is not: several links may have
\* been queued on the last slot.
Chargeable(c, u) == View[u] = "args" => ArgsLeft(c, PkgOf[u])

Spend(c, u) == IF View[u] = "args" THEN [c EXCEPT !.args[PkgOf[u]] = @ + 1] ELSE c
\* A link that is fetched spends nothing yet.
Fetching(c, u) == [c EXCEPT !.queue = @ \ {u}, !.visited = @ \cup {u},
                            !.at = u, !.tries = GetAttempts]

\* The base pass never has more pages than packages.
PageCap(w) == IF w = "head" THEN MaxPages ELSE Cardinality(crawl[w].paths)

\* The head of the queue; pages order it by discovery and nothing depends on it.
Next(u) ==
    /\ pc = "crawl" /\ crawl[pass].at = NoPage /\ u \in crawl[pass].queue
    /\ IF Cardinality(crawl[pass].pages) >= PageCap(pass)
       THEN Fail /\ UNCHANGED crawl
       ELSE /\ crawl' = [crawl EXCEPT ![pass] = Fetching(@, u)]
            /\ UNCHANGED <<pc, outcome>>
    /\ UNCHANGED <<pass, plan, node, died, waited, scan>>

Captured(w, c, u) ==
    [Spend(c, u) EXCEPT !.pages = @ \cup {u}, !.at = NoPage,
        !.queue = @ \cup {l \in Links[u] \ c.visited :
                             l \in c.seeds \/ inScope(w, Spend(c, u), l)}]

\* 200, 429, or anything else; a gnodev that is gone answers nothing.
Answer(how) ==
    /\ pc = "crawl" /\ crawl[pass].at # NoPage
    /\ how \in {"ok", "limited"} => node[pass] \in {"serving", "terminating"}
    /\ crawl' = [crawl EXCEPT ![pass] =
                   CASE how = "ok" /\ Chargeable(@, @.at) -> Captured(pass, @, @.at)
                     [] how = "limited" /\ @.tries > 1 -> [@ EXCEPT !.tries = @ - 1]
                     [] OTHER -> [@ EXCEPT !.at = NoPage]]
    /\ UNCHANGED <<pc, pass, plan, node, died, waited, scan, outcome>>

CrawlEnds ==
    /\ pc = "crawl" /\ crawl[pass].at = NoPage /\ crawl[pass].queue = {}
    /\ pc' = "write"
    /\ UNCHANGED <<pass, plan, node, died, waited, crawl, scan, outcome>>

-----------------------------------------------------------------------------
\* Pages and assets are written; then the merge base is looked at.
Write ==
    /\ pc = "write"
    /\ \/ Fail
       \/ /\ UNCHANGED outcome
          /\ pc' = CASE pass = "base" -> "stop"
                     [] pass = "head" /\ plan.changed # {} -> "scan"
                     [] OTHER -> "json"
    /\ UNCHANGED <<pass, plan, node, died, waited, crawl, scan>>

\* A package whose path is not in the base is new, and so is every package of a
\* base that cannot be read.
NewIn(how) == CASE how = "read" -> plan.changed \ InBase
                [] how = "broken" -> plan.changed
                [] how = "absent" -> {}

renderBase(how) ==
    /\ pc = "scan"
    /\ scan' = how
    /\ plan' = [plan EXCEPT !.new = NewIn(how)]
    /\ IF how = "absent" \/ plan.changed \subseteq NewIn(how)
       THEN pc' = "shots" /\ UNCHANGED pass
       ELSE pc' = "boot" /\ pass' = "base"
    /\ UNCHANGED <<node, died, waited, crawl, outcome>>

\* SIGTERM to the process group...
Stop ==
    /\ pc = "stop"
    /\ node' = [node EXCEPT ![pass] = IF @ = "exited" THEN @ ELSE "terminating"]
    /\ pc' = "reap"
    /\ UNCHANGED <<pass, plan, died, waited, crawl, scan, outcome>>

\* The process is known to be gone.
Reaped(w) == waited[w]

\* ... and stop returns once it is gone.
Reap ==
    /\ pc = "reap" /\ Reaped(pass)
    /\ pass' = "head"
    /\ pc' = IF pass = "base" THEN "shots" ELSE "returned"
    /\ UNCHANGED <<plan, node, died, waited, crawl, scan, outcome>>

HasPage(w, p) == \E u \in crawl[w].pages : PkgOf[u] = p /\ View[u] = "render"

\* What may be photographed twice: a base that failed halfway is no base.
BaseRendered(p) == /\ scan = "read" /\ HasPage("base", p)
                   /\ crawl["base"].queue = {} /\ crawl["base"].at = NoPage

\* "New" comes from the tree of the merge base...
NewTag(p) == p \in plan.new

\* Any picture may fail, and without a browser there is none.
screenshotPairs ==
    /\ pc = "shots"
    /\ \E shot \in SUBSET {p \in plan.changed : HasPage("head", p)} :
          /\ Cardinality(shot) <= MaxPairs
          /\ \E before \in SUBSET {p \in shot : BaseRendered(p)} :
                plan' = [plan EXCEPT !.pairs = {[pkg |-> p, before |-> p \in before,
                                                 new |-> NewTag(p)] : p \in shot}]
    /\ pc' = "json"
    /\ UNCHANGED <<pass, node, died, waited, crawl, scan, outcome>>

\* preview.json and the fragment of the comment.
WriteJSON ==
    /\ pc = "json" /\ pc' = "stop"
    /\ outcome' \in {"ok", "failed"}
    /\ UNCHANGED <<pass, plan, node, died, waited, crawl, scan>>

Command == \/ Plan \/ Boot \/ waitServing \/ CrawlEnds \/ Write \/ Stop \/ Reap
           \/ screenshotPairs \/ WriteJSON
           \/ \E u \in Pages : Next(u)
           \/ \E how \in {"ok", "limited", "bad"} : Answer(how)
           \/ \E how \in {"read", "broken", "absent"} : renderBase(how)

PreviewNext == Command \/ \E w \in Passes : Serve(w) \/ NodeExits(w) \/ Report(w) \/ Close(w)

\* The command runs, a page that is fetched times out, the goroutine is scheduled
\* and a gnodev that is asked to terminate does.
PreviewFairness ==
    /\ WF_previewVars(Command)
    /\ WF_previewVars(\E w \in Passes : \/ Report(w) \/ Close(w)
                                        \/ node[w] = "terminating" /\ NodeExits(w))

PreviewSpec == PreviewInit /\ [][PreviewNext]_previewVars /\ PreviewFairness
-----------------------------------------------------------------------------
PreviewTypeOK ==
    /\ pc \in {"plan", "boot", "wait", "crawl", "write", "scan", "stop", "reap", "shots",
               "json", "returned"}
    /\ pass \in Passes /\ node \in [Passes -> NodeStates]
    /\ died \in [Passes -> {"empty", "full", "taken"}] /\ waited \in [Passes -> BOOLEAN]
    /\ \A w \in Passes : /\ crawl[w].pages \subseteq crawl[w].visited
                         /\ crawl[w].visited \subseteq Pages
                         /\ crawl[w].at \in Pages \cup {NoPage}
    /\ plan.paths \subseteq live
    /\ scan \in {"none", "read", "broken", "absent"}
    /\ outcome \in {"none", "ok", "failed"}

ArgPages(w, p) == {u \in crawl[w].pages : PkgOf[u] = p /\ View[u] = "args"}

\* The argument pages of a realm take no more than its budget, and a page that is
\* linked, wanted and never asked for was left out for pages that were captured:
\* nothing that answers badly costs a slot.
BudgetsAreForPages ==
    \A w \in Passes :
        /\ \A p \in Pkgs : Cardinality(ArgPages(w, p)) <= ArgBudget
        /\ (w = "head" /\ pc = "write" /\ pass = "head") =>
              \A u \in crawl[w].pages : \A l \in Links[u] \ crawl[w].visited :
                 \/ PkgOf[l] \notin plan.paths \/ View[l] = "other"
                 \/ View[l] = "file" /\ ~wantFile(PkgOf[l], FileName[l])
                 \/ View[l] = "args" /\ Cardinality(ArgPages(w, PkgOf[l])) = ArgBudget

\* A package is called new in the comment only when the merge base, read, does not
\* have it, or could not be read; a base pass that failed, or a page of it, is not
\* enough.
NewIsAsserted ==
    \A pair \in plan.pairs : pair.new => (pair.pkg \notin InBase \/ scan = "broken")

\* The comment shows what was asked for and says only what was seen.
PreviewIsHonest == BudgetsAreForPages /\ NewIsAsserted

\* However the gnodevs behave, the command returns and leaves none running.
PreviewEnds == <>[](pc = "returned" /\ \A w \in Passes : node[w] \in {"off", "exited"})
=============================================================================
