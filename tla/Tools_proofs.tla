---------------------------- MODULE Tools_proofs ----------------------------
(***************************************************************************)
(* What holds of the tools that ask a chain or push to one, for any        *)
(* packages, any answers and any interruption: one part per command, then  *)
(* the same of the program that dispatches to all of them.                 *)
(***************************************************************************)
EXTENDS Tools, Workspace_proofs

-----------------------------------------------------------------------------
(* gnocontracts preview: the crawl spends no more than it has, and "new" comes from the
   merge base. *)

Crawler == [paths : SUBSET Pkgs, seeds : SUBSET Pages, queue : SUBSET Pages,
            visited : SUBSET Pages, pages : SUBSET Pages, args : [Pkgs -> Nat],
            at : Pages \cup {NoPage}, tries : Nat]

SpentOn(c, p) == {u \in c.pages : PkgOf[u] = p /\ View[u] = "args"}

CrawlSound(c) ==
    /\ c \in Crawler
    /\ c.queue \cap c.visited = {} /\ c.pages \subseteq c.visited
    /\ c.at # NoPage => c.at \in c.visited /\ c.at \notin c.pages
    /\ \A u \in c.seeds : View[u] # "args"
    /\ \A u \in c.queue \cup {c.at} : u \in Pages /\ View[u] = "args" => PkgOf[u] \in Pkgs
    /\ \A p \in Pkgs : c.args[p] = Cardinality(SpentOn(c, p)) /\ c.args[p] <= ArgBudget

\* Why a page that is linked is left out for good.
LeftOut(c, l) ==
    \/ PkgOf[l] \notin plan.paths \/ View[l] = "other"
    \/ View[l] = "file" /\ ~wantFile(PkgOf[l], FileName[l])
    \/ View[l] = "args" /\ c.args[PkgOf[l]] = ArgBudget

\* What the plan and the two crawls are, whatever the command is doing.
PreviewData ==
    /\ DOMAIN crawl = Passes
    /\ \A q \in Passes : CrawlSound(crawl[q])
    /\ plan = [site |-> plan.site, changed |-> plan.changed, dependents |-> plan.dependents,
               paths |-> plan.paths, dropped |-> plan.dropped, files |-> plan.files,
               new |-> plan.new, pairs |-> plan.pairs]
    /\ plan.paths \subseteq Pkgs /\ plan.changed \subseteq Pkgs
    /\ \A p \in plan.new : p \notin InBase \/ scan = "broken"
    /\ \A pair \in plan.pairs : pair.new => pair.pkg \in plan.new

\* A page that is linked from one that was captured is captured, queued or left out.
NothingForgotten ==
    /\ crawl["head"].paths = plan.paths
    /\ \A u \in crawl["head"].pages : \A l \in Links[u] :
          \/ l \in crawl["head"].visited \cup crawl["head"].queue
          \/ LeftOut(crawl["head"], l)

PreviewInv ==
    /\ pass \in Passes /\ PreviewData
    /\ pass = "head" /\ pc \in {"crawl", "write"} => NothingForgotten
    /\ pc = "write" => crawl[pass].queue = {}
    /\ pc \in {"plan", "scan", "shots", "json"} => pass = "head"
    /\ plan.pairs # {} => pass = "head" /\ pc \in {"json", "stop", "reap", "returned"}

LEMMA PreviewFacts ==
    /\ IsFiniteSet(Pages) /\ NoPage \notin Pages /\ ArgBudget \in Nat \ {0}
    /\ GetAttempts \in Nat
    /\ \A u \in Pages : Links[u] \subseteq Pages
BY PreviewAssumption

\* A crawl that starts.
LEMMA FreshCrawlIsSound ==
    ASSUME NEW ps \in SUBSET Pkgs, NEW seeds \in SUBSET Pages,
           \A u \in seeds : View[u] # "args",
           NEW c, c = [paths |-> ps, seeds |-> seeds, queue |-> seeds, visited |-> {},
                       pages |-> {}, args |-> [p \in Pkgs |-> 0], at |-> NoPage, tries |-> 0]
    PROVE  CrawlSound(c) /\ c.pages = {} /\ c.paths = ps
<1> DEFINE none == [p \in Pkgs |-> 0]
<1>1. c = [paths |-> ps, seeds |-> seeds, queue |-> seeds, visited |-> {}, pages |-> {},
           args |-> none, at |-> NoPage, tries |-> 0]
  OBVIOUS
<1>0. none \in [Pkgs -> Nat] /\ \A p \in Pkgs : none[p] = 0
  OBVIOUS
<1> HIDE DEF none
<1>2. /\ c.paths = ps /\ c.seeds = seeds /\ c.queue = seeds /\ c.visited = {} /\ c.pages = {}
      /\ c.args = none /\ c.at = NoPage
  BY ONLY <1>1
<1>3. c \in Crawler
  BY <1>0, <1>1 DEF Crawler
<1>4. \A p \in Pkgs : SpentOn(c, p) = {}
  BY <1>2 DEF SpentOn
<1>5. \A p \in Pkgs : c.args[p] = Cardinality(SpentOn(c, p)) /\ c.args[p] <= ArgBudget
  <2>1. \A p \in Pkgs : Cardinality(SpentOn(c, p)) = 0 /\ c.args[p] = 0
    <3>1. \A p \in Pkgs : c.args[p] = 0
      BY ONLY <1>0, <1>2
    <3>2. \A p \in Pkgs : Cardinality(SpentOn(c, p)) = 0
      BY ONLY <1>4, FS_EmptySet
    <3> QED BY <3>1, <3>2
  <2>2. 0 <= ArgBudget
    BY PreviewFacts
  <2> QED BY ONLY <2>1, <2>2
<1> QED BY <1>2, <1>3, <1>5, PreviewFacts DEF CrawlSound

\* A link that is fetched.
LEMMA FetchKeepsCrawl ==
    ASSUME NEW c, CrawlSound(c), c.at = NoPage, NEW u \in c.queue, NEW d, d = Fetching(c, u)
    PROVE  /\ CrawlSound(d) /\ d.paths = c.paths /\ d.pages = c.pages /\ d.args = c.args
           /\ c.visited \cup c.queue \subseteq d.visited \cup d.queue
<1>1. c \in Crawler
  BY DEF CrawlSound
<1>2. /\ d \in Crawler
      /\ d.paths = c.paths /\ d.seeds = c.seeds /\ d.pages = c.pages /\ d.args = c.args
      /\ d.queue = c.queue \ {u} /\ d.visited = c.visited \cup {u} /\ d.at = u
  BY <1>1, PreviewFacts DEF Fetching, Crawler
<1>3. \A p \in Pkgs : SpentOn(d, p) = SpentOn(c, p)
  BY <1>2 DEF SpentOn
<1>4. \A p \in Pkgs : d.args[p] = Cardinality(SpentOn(d, p)) /\ d.args[p] <= ArgBudget
  BY <1>2, <1>3 DEF CrawlSound
<1>5. d.queue \cap d.visited = {} /\ d.pages \subseteq d.visited
      /\ (d.at # NoPage => d.at \in d.visited /\ d.at \notin d.pages)
  BY <1>2 DEF CrawlSound
<1>6. /\ \A v \in d.seeds : View[v] # "args"
      /\ \A v \in d.queue \cup {d.at} : v \in Pages /\ View[v] = "args" => PkgOf[v] \in Pkgs
  BY <1>2 DEF CrawlSound
<1> QED BY <1>2, <1>4, <1>5, <1>6 DEF CrawlSound

\* A page that is given up, or asked for again.
LEMMA LettingGoKeepsCrawl ==
    ASSUME NEW c, CrawlSound(c), NEW d,
           \/ d = [c EXCEPT !.at = NoPage]
           \/ d = [c EXCEPT !.tries = c.tries - 1] /\ c.tries > 1
    PROVE  /\ CrawlSound(d) /\ d.paths = c.paths /\ d.pages = c.pages /\ d.args = c.args
           /\ d.visited = c.visited /\ d.queue = c.queue
<1>1. c \in Crawler
  BY DEF CrawlSound
<1>2. /\ d \in Crawler
      /\ d.paths = c.paths /\ d.seeds = c.seeds /\ d.pages = c.pages /\ d.args = c.args
      /\ d.queue = c.queue /\ d.visited = c.visited /\ d.at \in {c.at, NoPage}
  <2>1. CASE d = [c EXCEPT !.at = NoPage]
    BY <1>1, <2>1 DEF Crawler
  <2>2. CASE d = [c EXCEPT !.tries = c.tries - 1] /\ c.tries > 1
    <3>1. c.tries - 1 \in Nat
      BY <1>1, <2>2 DEF Crawler
    <3> QED BY <1>1, <2>2, <3>1 DEF Crawler
  <2> QED BY <2>1, <2>2
<1>3. \A p \in Pkgs : SpentOn(d, p) = SpentOn(c, p)
  BY <1>2 DEF SpentOn
<1>4. \A p \in Pkgs : d.args[p] = Cardinality(SpentOn(d, p)) /\ d.args[p] <= ArgBudget
  BY <1>2, <1>3 DEF CrawlSound
<1>5. d.queue \cap d.visited = {} /\ d.pages \subseteq d.visited
      /\ (d.at # NoPage => d.at \in d.visited /\ d.at \notin d.pages)
  BY <1>2 DEF CrawlSound
<1>6. /\ \A v \in d.seeds : View[v] # "args"
      /\ \A v \in d.queue \cup {d.at} : v \in Pages /\ View[v] = "args" => PkgOf[v] \in Pkgs
  BY <1>2, PreviewFacts DEF CrawlSound
<1> QED BY <1>2, <1>4, <1>5, <1>6 DEF CrawlSound

\* A page that is captured: what its argument cost, and what it links.
LEMMA CaptureKeepsCrawl ==
    ASSUME NEW w, NEW c, CrawlSound(c), c.at # NoPage, Chargeable(c, c.at),
           NEW d, d = Captured(w, c, c.at)
    PROVE  /\ CrawlSound(d) /\ d.paths = c.paths /\ d.pages = c.pages \cup {c.at}
           /\ d.visited = c.visited /\ c.queue \subseteq d.queue
           /\ \A p \in Pkgs : c.args[p] = ArgBudget => d.args[p] = ArgBudget
           /\ \A l \in Links[c.at] : l \in d.visited \cup d.queue \/ ~inScope(w, d, l)
<1> DEFINE u == c.at
           p0 == PkgOf[u]
           costs == View[u] = "args"
           s == Spend(c, u)
           found == {l \in Links[u] \ c.visited : l \in c.seeds \/ inScope(w, s, l)}
<1>1. c \in Crawler /\ u \in Pages /\ u \in c.visited /\ u \notin c.pages
  BY DEF CrawlSound, Crawler
<1>2. costs => p0 \in Pkgs /\ c.args[p0] < ArgBudget
  <2>1. costs => p0 \in Pkgs
    BY <1>1 DEF CrawlSound
  <2> QED BY <2>1 DEF Chargeable, ArgsLeft
<1>3. /\ s.paths = c.paths
      /\ \A p \in Pkgs : s.args[p] = IF costs /\ p = p0 THEN c.args[p] + 1 ELSE c.args[p]
      /\ s \in Crawler /\ s.seeds = c.seeds /\ s.pages = c.pages /\ s.queue = c.queue
      /\ s.visited = c.visited
  <2>1. CASE costs
    <3> DEFINE a == [c.args EXCEPT ![p0] = c.args[p0] + 1]
    <3>1. s = [c EXCEPT !.args = a]
      BY <2>1 DEF Spend
    <3>2. c.args \in [Pkgs -> Nat] /\ p0 \in Pkgs
      BY <1>1, <1>2, <2>1 DEF Crawler
    <3> HIDE DEF p0
    <3>3. a \in [Pkgs -> Nat] /\ \A p \in Pkgs : a[p] = IF p = p0 THEN c.args[p] + 1 ELSE c.args[p]
      BY <3>2
    <3> HIDE DEF s, a, u
    <3>4. s.paths = c.paths /\ s.args = a /\ s \in Crawler /\ s.seeds = c.seeds
          /\ s.pages = c.pages /\ s.queue = c.queue /\ s.visited = c.visited
      BY <1>1, <3>1, <3>3 DEF Crawler
    <3> QED BY <2>1, <3>3, <3>4
  <2>2. CASE ~costs
    <3>1. s = c
      BY <2>2 DEF Spend
    <3> HIDE DEF s, u, costs
    <3> QED BY <1>1, <2>2, <3>1
  <2> QED BY <2>1, <2>2
<1>4. d = [s EXCEPT !.pages = c.pages \cup {u}, !.at = NoPage, !.queue = c.queue \cup found]
  <2>1. d = [s EXCEPT !.pages = s.pages \cup {u}, !.at = NoPage, !.queue = s.queue \cup found]
    BY DEF Captured
  <2> HIDE DEF s, found
  <2> QED BY <1>3, <2>1
<1> HIDE DEF s
<1>5. found \subseteq Pages /\ found \cap c.visited = {}
      /\ \A l \in found : View[l] = "args" => PkgOf[l] \in Pkgs
  <2>1. found \subseteq Pages
    BY <1>1, PreviewFacts
  <2>2. ASSUME NEW l \in found, View[l] = "args" PROVE PkgOf[l] \in Pkgs
    <3>1. l \notin c.seeds
      BY <2>2 DEF CrawlSound
    <3>2. PkgOf[l] \in s.paths
      BY <2>2, <3>1 DEF inScope, found
    <3> QED BY <1>3, <3>2 DEF Crawler
  <2> QED BY <2>1, <2>2
<1> HIDE DEF found
<1>6. /\ d \in Crawler /\ d.paths = c.paths /\ d.seeds = c.seeds /\ d.visited = c.visited
      /\ d.pages = c.pages \cup {u} /\ d.queue = c.queue \cup found /\ d.at = NoPage
      /\ d.args = s.args
  <2>1. d.args = s.args /\ d.paths = s.paths /\ d.seeds = s.seeds /\ d.visited = s.visited
        /\ d.pages = c.pages \cup {u} /\ d.queue = c.queue \cup found /\ d.at = NoPage
    <3> HIDE DEF u
    <3> QED BY <1>3, <1>4 DEF Crawler
  <2>2. c.pages \cup {u} \subseteq Pages /\ c.queue \cup found \subseteq Pages
    BY <1>1, <1>5 DEF Crawler
  <2>3. d \in Crawler
    <3>1. /\ s = [paths |-> s.paths, seeds |-> s.seeds, queue |-> s.queue, visited |-> s.visited,
                  pages |-> s.pages, args |-> s.args, at |-> s.at, tries |-> s.tries]
          /\ s.paths \subseteq Pkgs /\ s.seeds \subseteq Pages /\ s.visited \subseteq Pages
          /\ s.args \in [Pkgs -> Nat] /\ s.tries \in Nat
      BY <1>3 DEF Crawler
    <3>2. PICK pages, queue : pages = c.pages \cup {u} /\ queue = c.queue \cup found
      OBVIOUS
    <3>3. d = [s EXCEPT !.pages = pages, !.at = NoPage, !.queue = queue]
      BY <1>4, <3>2
    <3>4. d = [paths |-> s.paths, seeds |-> s.seeds, queue |-> queue, visited |-> s.visited,
               pages |-> pages, args |-> s.args, at |-> NoPage, tries |-> s.tries]
      BY ONLY <3>1, <3>3
    <3>5. pages \subseteq Pages /\ queue \subseteq Pages
      BY <2>2, <3>2
    <3> QED BY ONLY <3>1, <3>4, <3>5 DEF Crawler
  <2> QED BY <1>3, <2>1, <2>3
<1>7. ASSUME NEW p \in Pkgs
      PROVE  d.args[p] = Cardinality(SpentOn(d, p)) /\ d.args[p] <= ArgBudget
  <2>1. IsFiniteSet(SpentOn(c, p)) /\ Cardinality(SpentOn(c, p)) \in Nat
    <3>1. SpentOn(c, p) \subseteq Pages
      BY <1>1 DEF SpentOn, Crawler
    <3> QED BY <3>1, PreviewFacts, FS_Subset, FS_CardinalityType
  <2>2. c.args[p] = Cardinality(SpentOn(c, p)) /\ c.args[p] <= ArgBudget
    BY DEF CrawlSound
  <2>3. CASE costs /\ p = p0
    <3>1. SpentOn(d, p) = SpentOn(c, p) \cup {u} /\ u \notin SpentOn(c, p)
      BY <1>1, <1>6, <2>3 DEF SpentOn
    <3>2. Cardinality(SpentOn(d, p)) = Cardinality(SpentOn(c, p)) + 1
      BY <2>1, <3>1, FS_AddElement
    <3> QED BY <1>2, <1>3, <1>6, <2>1, <2>2, <2>3, <3>2, PreviewFacts
  <2>4. CASE ~(costs /\ p = p0)
    <3>1. SpentOn(d, p) = SpentOn(c, p)
      BY <1>6, <2>4 DEF SpentOn
    <3>2. d.args[p] = c.args[p]
      <4> HIDE DEF costs, p0
      <4> QED BY <1>3, <1>6, <2>4
    <3> QED BY <2>2, <3>1, <3>2
  <2> QED BY <2>3, <2>4
<1>8. CrawlSound(d)
  <2>1. d.queue \cap d.visited = {} /\ d.pages \subseteq d.visited
    BY <1>1, <1>5, <1>6 DEF CrawlSound
  <2>2. /\ \A v \in d.seeds : View[v] # "args"
        /\ \A v \in d.queue \cup {d.at} : v \in Pages /\ View[v] = "args" => PkgOf[v] \in Pkgs
    BY <1>5, <1>6, PreviewFacts DEF CrawlSound
  <2> QED BY <1>6, <1>7, <2>1, <2>2 DEF CrawlSound
<1>9. \A p \in Pkgs : c.args[p] = ArgBudget => d.args[p] = ArgBudget
  <2> SUFFICES ASSUME NEW p \in Pkgs, c.args[p] = ArgBudget PROVE d.args[p] = ArgBudget
    OBVIOUS
  <2>1. ~(costs /\ p = p0)
    BY <1>2, PreviewFacts
  <2> HIDE DEF costs, p0
  <2> QED BY <1>3, <1>6, <2>1
<1>10. \A l \in Links[u] : l \in d.visited \cup d.queue \/ ~inScope(w, d, l)
  <2>1. \A l : inScope(w, d, l) => inScope(w, s, l)
    BY <1>3, <1>6 DEF inScope, ArgsLeft
  <2> QED BY <1>6, <2>1 DEF found
<1> QED BY <1>6, <1>8, <1>9, <1>10

LEMMA PreviewStarts == PreviewInit => PreviewInv
<1> SUFFICES ASSUME PreviewInit PROVE PreviewInv
  OBVIOUS
<1>1. /\ pc = "plan" /\ pass = "head" /\ plan = NoPlan /\ DOMAIN crawl = Passes
      /\ \A q \in Passes : crawl[q] = NoCrawl
      /\ "head" \in Passes
  BY DEF PreviewInit, Passes
<1>3. CrawlSound(NoCrawl)
  BY FreshCrawlIsSound DEF NoCrawl
<1>4. /\ NoPlan = [site |-> NoPlan.site, changed |-> NoPlan.changed,
                   dependents |-> NoPlan.dependents, paths |-> NoPlan.paths,
                   dropped |-> NoPlan.dropped, files |-> NoPlan.files,
                   new |-> NoPlan.new, pairs |-> NoPlan.pairs]
      /\ NoPlan.paths = {} /\ NoPlan.changed = {} /\ NoPlan.new = {} /\ NoPlan.pairs = {}
  <2> DEFINE none == [p \in Pkgs |-> {}]
  <2>1. NoPlan = [site |-> FALSE, changed |-> {}, dependents |-> {}, paths |-> {},
                  dropped |-> 0, files |-> none, new |-> {}, pairs |-> {}]
    BY DEF NoPlan
  <2> HIDE DEF none
  <2> QED BY <2>1
<1>5. PreviewData
  BY <1>1, <1>3, <1>4 DEF PreviewData
<1> QED BY <1>1, <1>4, <1>5 DEF PreviewInv

\* The plan that is made.
LEMMA PlanIsSound ==
    ASSUME buildPreviewPlan
    PROVE  /\ plan' = [site |-> plan'.site, changed |-> plan'.changed,
                       dependents |-> plan'.dependents, paths |-> plan'.paths,
                       dropped |-> plan'.dropped, files |-> plan'.files,
                       new |-> plan'.new, pairs |-> plan'.pairs]
           /\ plan'.paths \subseteq Pkgs /\ plan'.changed \subseteq Pkgs
           /\ plan'.new = {} /\ plan'.pairs = {}
<1> DEFINE none == [p \in Pkgs |-> {}]
<1>1. NoPlan = [site |-> FALSE, changed |-> {}, dependents |-> {}, paths |-> {},
                dropped |-> 0, files |-> none, new |-> {}, pairs |-> {}]
  BY DEF NoPlan
<1> HIDE DEF none
<1>2. live \subseteq Pkgs
  BY DEF live
<1>3. CASE plan' = [NoPlan EXCEPT !.site = TRUE, !.paths = live]
  <2>1. plan' = [site |-> TRUE, changed |-> {}, dependents |-> {}, paths |-> live,
                 dropped |-> 0, files |-> none, new |-> {}, pairs |-> {}]
    BY <1>1, <1>3
  <2> QED BY <1>2, <2>1
<1>4. CASE \E pull \in Pulls, selected \in {{}, live} :
             LET changed == changedPackages(pull) \cup selected
                 affected == reverseDeps(changed)
                 all == changed \cup affected
             IN  \E P \in Capped(changed, all) :
                    plan' = [NoPlan EXCEPT !.changed = changed, !.dependents = affected,
                               !.paths = P, !.dropped = Cardinality(all) - Cardinality(P),
                               !.files = [p \in Pkgs |-> IF p \in live THEN pull[p] ELSE {}]]
  <2>1. PICK pull \in Pulls, selected \in {{}, live} :
             LET changed == changedPackages(pull) \cup selected
                 affected == reverseDeps(changed)
                 all == changed \cup affected
             IN  \E P \in Capped(changed, all) :
                    plan' = [NoPlan EXCEPT !.changed = changed, !.dependents = affected,
                               !.paths = P, !.dropped = Cardinality(all) - Cardinality(P),
                               !.files = [p \in Pkgs |-> IF p \in live THEN pull[p] ELSE {}]]
    BY <1>4
  <2> DEFINE changed == changedPackages(pull) \cup selected
             affected == reverseDeps(changed)
             all == changed \cup affected
             files == [p \in Pkgs |-> IF p \in live THEN pull[p] ELSE {}]
  <2>2. changed \subseteq Pkgs /\ affected \subseteq Pkgs
    <3>1. changed \subseteq live
      BY DEF changedPackages
    <3>2. affected \subseteq live
      BY DEF reverseDeps
    <3> QED BY <1>2, <3>1, <3>2
  <2>3. PICK P \in Capped(changed, all) :
             plan' = [NoPlan EXCEPT !.changed = changed, !.dependents = affected,
                        !.paths = P, !.dropped = Cardinality(all) - Cardinality(P),
                        !.files = files]
    BY <2>1
  <2>4. P \subseteq all
    <3> HIDE DEF changed, all
    <3> QED BY DEF Capped
  <2> DEFINE dropped == Cardinality(all) - Cardinality(P)
  <2>5. P \subseteq Pkgs
    BY <2>2, <2>4
  <2> HIDE DEF changed, affected, files, dropped
  <2>6. plan' = [NoPlan EXCEPT !.changed = changed, !.dependents = affected,
                        !.paths = P, !.dropped = dropped, !.files = files]
    BY <2>3 DEF dropped
  <2> HIDE DEF all
  <2>7. plan' = [site |-> FALSE, changed |-> changed, dependents |-> affected, paths |-> P,
                 dropped |-> dropped, files |-> files, new |-> {}, pairs |-> {}]
    BY <1>1, <2>6
  <2> QED BY <2>2, <2>5, <2>7
<1> QED BY <1>3, <1>4 DEF buildPreviewPlan

LEMMA DataStands ==
    ASSUME PreviewData, UNCHANGED <<plan, crawl, scan>>
    PROVE  PreviewData' /\ (NothingForgotten => NothingForgotten')
<1>1. \A q \in Passes : CrawlSound(crawl'[q])
  BY DEF PreviewData
<1>2. PreviewData'
  BY <1>1 DEF PreviewData, CrawlSound, SpentOn
<1> QED BY <1>2 DEF NothingForgotten, LeftOut, wantFile

LEMMA PreviewIsKept == PreviewInv /\ [PreviewNext]_previewVars => PreviewInv'
<1> SUFFICES ASSUME PreviewInv, [PreviewNext]_previewVars PROVE PreviewInv'
  OBVIOUS
<1>0. PreviewData /\ pass \in Passes /\ "head" \in Passes
  BY DEF PreviewInv, Passes
<1>1. CASE Plan
  <2>1. /\ buildPreviewPlan /\ UNCHANGED <<pass, crawl, scan>>
        /\ pc = "plan" /\ pc' \in {"boot", "returned"}
    BY <1>1 DEF Plan
  <2>2. PreviewData'
    <3>1. \A q \in Passes : CrawlSound(crawl'[q])
      BY <1>0, <2>1 DEF PreviewData
    <3> QED BY <1>0, <2>1, <3>1, PlanIsSound DEF PreviewData, CrawlSound, SpentOn
  <2>3. plan'.pairs = {}
    BY <2>1, PlanIsSound
  <2> QED BY <1>0, <2>1, <2>2, <2>3 DEF PreviewInv
<1>2. CASE Boot \/ CrawlEnds \/ Write \/ Stop \/ Reap \/ WriteJSON
  <2>1. UNCHANGED <<plan, crawl, scan>>
    BY <1>2 DEF Boot, CrawlEnds, Write, Stop, Reap, WriteJSON
  <2>2. PreviewData' /\ (NothingForgotten => NothingForgotten')
    BY <1>0, <2>1, DataStands
  <2>3. CASE Boot
    BY <1>0, <2>1, <2>2, <2>3 DEF PreviewInv, Boot, Passes
  <2>4. CASE CrawlEnds
    BY <1>0, <2>1, <2>2, <2>4 DEF PreviewInv, CrawlEnds
  <2>5. CASE Write
    <3>1. pc = "write" /\ plan.pairs = {} /\ pass \in {"head", "base"}
      BY <2>5 DEF Write, PreviewInv, Passes
    <3>2. pc' \in {"stop", "scan", "json"} /\ (pass = "base" => pc' = "stop") /\ pass' = pass
      <4>1. \/ Fail
            \/ pc' = CASE pass = "base" -> "stop"
                       [] pass = "head" /\ plan.changed # {} -> "scan"
                       [] OTHER -> "json"
        BY <2>5 DEF Write
      <4>2. UNCHANGED pass
        BY <2>5 DEF Write
      <4>3. Fail => pc' = "stop"
        BY DEF Fail
      <4>4. CASE pass = "base"
        BY <4>1, <4>2, <4>3, <4>4
      <4>5. CASE pass = "head"
        <5>1. CASE plan.changed # {}
          BY <4>1, <4>2, <4>3, <4>5, <5>1
        <5>2. CASE plan.changed = {}
          BY <4>1, <4>2, <4>3, <4>5, <5>2
        <5> QED BY <5>1, <5>2
      <4> QED BY <3>1, <4>4, <4>5
    <3> QED BY <1>0, <2>1, <2>2, <3>1, <3>2 DEF PreviewInv
  <2>6. CASE Stop
    BY <1>0, <2>1, <2>2, <2>6 DEF PreviewInv, Stop
  <2>7. CASE Reap
    BY <1>0, <2>1, <2>2, <2>7 DEF PreviewInv, Reap, Passes
  <2>8. CASE WriteJSON
    BY <1>0, <2>1, <2>2, <2>8 DEF PreviewInv, WriteJSON
  <2> QED BY <1>2, <2>3, <2>4, <2>5, <2>6, <2>7, <2>8
<1>3. ASSUME NEW w \in Passes, Serve(w) \/ NodeExits(w) \/ Report(w) \/ Close(w)
      PROVE  PreviewInv'
  <2>1. UNCHANGED <<plan, crawl, scan, pc, pass>>
    BY <1>3 DEF Serve, NodeExits, Report, Close
  <2>2. PreviewData' /\ (NothingForgotten => NothingForgotten')
    BY <1>0, <2>1, DataStands
  <2> QED BY <1>0, <2>1, <2>2 DEF PreviewInv
<1>4. CASE waitServing
  <2>1. pc = "wait" /\ UNCHANGED <<plan, scan, pass>>
    BY <1>4 DEF waitServing
  <2>2. CASE Fail /\ UNCHANGED crawl
    <3>1. PreviewData'
      BY <1>0, <2>1, <2>2, DataStands
    <3> QED BY <1>0, <2>1, <2>2, <3>1 DEF PreviewInv, Fail
  <2> DEFINE seeds == SeedsOf(pass, PathsOf(pass))
             ps == PathsOf(pass)
  <2>3. CASE /\ pc' = "crawl"
             /\ crawl' = [crawl EXCEPT ![pass] = [NoCrawl EXCEPT !.paths = ps,
                                                    !.seeds = seeds, !.queue = seeds]]
    <3>1. PICK c : c = [NoCrawl EXCEPT !.paths = ps, !.seeds = seeds, !.queue = seeds]
      OBVIOUS
    <3>2. ps \subseteq Pkgs /\ (pass = "head" => ps = plan.paths)
      BY <1>0 DEF PathsOf, PreviewData
    <3>3. seeds \subseteq Pages /\ \A u \in seeds : View[u] # "args"
      BY DEF SeedsOf
    <3> HIDE DEF seeds, ps
    <3>4. c = [paths |-> ps, seeds |-> seeds, queue |-> seeds, visited |-> {},
               pages |-> {}, args |-> [p \in Pkgs |-> 0], at |-> NoPage, tries |-> 0]
      BY <3>1 DEF NoCrawl
    <3>5. CrawlSound(c) /\ c.pages = {} /\ c.paths = ps
      BY <3>2, <3>3, <3>4, FreshCrawlIsSound
    <3>6. /\ DOMAIN crawl' = Passes /\ crawl'[pass] = c
          /\ \A q \in Passes : q # pass => crawl'[q] = crawl[q]
      BY <1>0, <2>3, <3>1 DEF PreviewData
    <3>7. \A q \in Passes : CrawlSound(crawl'[q])
      BY <1>0, <3>5, <3>6 DEF PreviewData
    <3>8. PreviewData'
      BY <1>0, <2>1, <3>6, <3>7 DEF PreviewData, CrawlSound, SpentOn
    <3>9. pass = "head" => NothingForgotten'
      BY <2>1, <3>2, <3>5, <3>6 DEF NothingForgotten
    <3> QED BY <1>0, <2>1, <2>3, <3>8, <3>9 DEF PreviewInv
  <2> QED BY <1>4, <2>2, <2>3 DEF waitServing
<1>5. ASSUME NEW u \in Pages, Next(u) PROVE PreviewInv'
  <2>1. /\ pc = "crawl" /\ crawl[pass].at = NoPage /\ u \in crawl[pass].queue
        /\ UNCHANGED <<plan, scan, pass>>
    BY <1>5 DEF Next
  <2>2. CASE Fail /\ UNCHANGED crawl
    <3>1. PreviewData'
      BY <1>0, <2>1, <2>2, DataStands
    <3> QED BY <1>0, <2>1, <2>2, <3>1 DEF PreviewInv, Fail
  <2>3. CASE crawl' = [crawl EXCEPT ![pass] = Fetching(@, u)] /\ UNCHANGED pc
    <3> DEFINE c == crawl[pass]
    <3>1. PICK d : d = Fetching(c, u)
      OBVIOUS
    <3>2. CrawlSound(c)
      BY <1>0 DEF PreviewData
    <3>3. /\ DOMAIN crawl' = Passes /\ crawl'[pass] = d
          /\ \A q \in Passes : q # pass => crawl'[q] = crawl[q]
      BY <1>0, <2>3, <3>1 DEF PreviewData
    <3> HIDE DEF c
    <3>4. /\ CrawlSound(d) /\ d.paths = c.paths /\ d.pages = c.pages /\ d.args = c.args
          /\ c.visited \cup c.queue \subseteq d.visited \cup d.queue
      BY <2>1, <3>1, <3>2, FetchKeepsCrawl DEF c
    <3>5. \A q \in Passes : CrawlSound(crawl'[q])
      BY <1>0, <3>3, <3>4 DEF PreviewData
    <3>6. PreviewData'
      BY <1>0, <2>1, <3>3, <3>5 DEF PreviewData, CrawlSound, SpentOn
    <3>7. pass = "head" => NothingForgotten'
      <4> SUFFICES ASSUME pass = "head" PROVE NothingForgotten'
        OBVIOUS
      <4>1. NothingForgotten /\ crawl["head"] = c /\ crawl'["head"] = d
        BY <2>1, <3>3 DEF PreviewInv, c
      <4> QED BY <2>1, <3>4, <4>1 DEF NothingForgotten, LeftOut, wantFile
    <3> QED BY <1>0, <2>1, <2>3, <3>6, <3>7 DEF PreviewInv
  <2> QED BY <1>5, <2>2, <2>3 DEF Next
<1>6. ASSUME NEW how \in {"ok", "limited", "bad"}, Answer(how) PROVE PreviewInv'
  <2> DEFINE c == crawl[pass]
  <2>1. pc = "crawl" /\ c.at # NoPage /\ UNCHANGED <<pc, plan, scan, pass>>
    BY <1>6 DEF Answer
  <2>2. PICK d : d = CASE how = "ok" /\ Chargeable(c, c.at) -> Captured(pass, c, c.at)
                       [] how = "limited" /\ c.tries > 1 -> [c EXCEPT !.tries = c.tries - 1]
                       [] OTHER -> [c EXCEPT !.at = NoPage]
    OBVIOUS
  <2>3. CrawlSound(c)
    BY <1>0 DEF PreviewData
  <2>4. /\ DOMAIN crawl' = Passes /\ crawl'[pass] = d
        /\ \A q \in Passes : q # pass => crawl'[q] = crawl[q]
    <3>1. crawl' = [crawl EXCEPT ![pass] =
                      CASE how = "ok" /\ Chargeable(c, c.at) -> Captured(pass, c, c.at)
                        [] how = "limited" /\ c.tries > 1 -> [c EXCEPT !.tries = c.tries - 1]
                        [] OTHER -> [c EXCEPT !.at = NoPage]]
      BY <1>6 DEF Answer
    <3>2. crawl' = [crawl EXCEPT ![pass] = d]
      BY <2>2, <3>1
    <3> QED BY <1>0, <3>2 DEF PreviewData
  <2>5. CASE how = "ok" /\ Chargeable(c, c.at)
    <3>1. d = Captured(pass, c, c.at)
      BY <2>2, <2>5
    <3> HIDE DEF c
    <3>2. /\ CrawlSound(d) /\ d.paths = c.paths /\ d.pages = c.pages \cup {c.at}
          /\ d.visited = c.visited /\ c.queue \subseteq d.queue
          /\ \A p \in Pkgs : c.args[p] = ArgBudget => d.args[p] = ArgBudget
          /\ \A l \in Links[c.at] : l \in d.visited \cup d.queue \/ ~inScope(pass, d, l)
      BY <2>1, <2>3, <2>5, <3>1, CaptureKeepsCrawl
    <3>3. \A q \in Passes : CrawlSound(crawl'[q])
      BY <1>0, <2>4, <3>2 DEF PreviewData
    <3>4. PreviewData'
      BY <1>0, <2>1, <2>4, <3>3 DEF PreviewData, CrawlSound, SpentOn
    <3>5. pass = "head" => NothingForgotten'
      <4> SUFFICES ASSUME pass = "head" PROVE NothingForgotten'
        OBVIOUS
      <4>1. NothingForgotten /\ crawl["head"] = c /\ crawl'["head"] = d
        BY <2>1, <2>4 DEF PreviewInv, c
      <4>2. c.paths = plan.paths /\ plan.paths \subseteq Pkgs
        BY <1>0, <4>1 DEF NothingForgotten, PreviewData
      <4>3. ASSUME NEW v \in c.pages, NEW l \in Links[v]
            PROVE  l \in d.visited \cup d.queue \/ LeftOut(d, l)
        <5>1. l \in c.visited \cup c.queue \/ LeftOut(c, l)
          BY <4>1 DEF NothingForgotten
        <5>2. LeftOut(c, l) => LeftOut(d, l)
          BY <3>2, <4>2 DEF LeftOut
        <5> QED BY <3>2, <5>1, <5>2
      <4>4. ASSUME NEW l \in Links[c.at]
            PROVE  l \in d.visited \cup d.queue \/ LeftOut(d, l)
        <5>1. CASE l \in d.visited \cup d.queue
          BY <5>1
        <5>2. CASE ~inScope(pass, d, l)
          <6>1. \/ PkgOf[l] \notin d.paths \/ View[l] = "other"
                \/ View[l] = "args" /\ ~ArgsLeft(d, PkgOf[l])
                \/ View[l] = "file" /\ ~wantFile(PkgOf[l], FileName[l])
            BY <5>2 DEF inScope
          <6>2. PkgOf[l] \in plan.paths /\ ~ArgsLeft(d, PkgOf[l]) => d.args[PkgOf[l]] = ArgBudget
            <7>1. \A p \in Pkgs : d.args[p] <= ArgBudget /\ d.args[p] \in Nat
              BY <3>2 DEF CrawlSound, Crawler
            <7> QED BY <4>2, <7>1, PreviewFacts DEF ArgsLeft
          <6> QED BY <3>2, <4>2, <6>1, <6>2 DEF LeftOut
        <5> QED BY <3>2, <5>1, <5>2
      <4>5. \A v \in d.pages : \A l \in Links[v] : l \in d.visited \cup d.queue \/ LeftOut(d, l)
        BY <3>2, <4>3, <4>4
      <4> QED BY <2>1, <3>2, <4>1, <4>2, <4>5 DEF NothingForgotten, LeftOut, wantFile
    <3> QED BY <1>0, <2>1, <3>4, <3>5 DEF PreviewInv
  <2>6. CASE ~(how = "ok" /\ Chargeable(c, c.at))
    <3>1. \/ d = [c EXCEPT !.at = NoPage]
          \/ d = [c EXCEPT !.tries = c.tries - 1] /\ c.tries > 1
      BY <2>2, <2>6
    <3> HIDE DEF c
    <3>2. /\ CrawlSound(d) /\ d.paths = c.paths /\ d.pages = c.pages /\ d.args = c.args
          /\ d.visited = c.visited /\ d.queue = c.queue
      BY <2>3, <3>1, LettingGoKeepsCrawl
    <3>3. \A q \in Passes : CrawlSound(crawl'[q])
      BY <1>0, <2>4, <3>2 DEF PreviewData
    <3>4. PreviewData'
      BY <1>0, <2>1, <2>4, <3>3 DEF PreviewData, CrawlSound, SpentOn
    <3>5. pass = "head" => NothingForgotten'
      <4> SUFFICES ASSUME pass = "head" PROVE NothingForgotten'
        OBVIOUS
      <4>1. NothingForgotten /\ crawl["head"] = c /\ crawl'["head"] = d
        BY <2>1, <2>4 DEF PreviewInv, c
      <4> QED BY <2>1, <3>2, <4>1 DEF NothingForgotten, LeftOut, wantFile
    <3> QED BY <1>0, <2>1, <3>4, <3>5 DEF PreviewInv
  <2> QED BY <2>5, <2>6
<1>7. ASSUME NEW how \in {"read", "broken", "absent"}, renderBase(how) PROVE PreviewInv'
  <2>1. /\ pc = "scan" /\ scan' = how /\ UNCHANGED crawl /\ pass = "head"
        /\ pass' \in Passes /\ pc' \in {"shots", "boot"} /\ (pc' = "shots" => pass' = "head")
        /\ plan' = [plan EXCEPT !.new = NewIn(how)] /\ plan.pairs = {}
    BY <1>7 DEF renderBase, PreviewInv, Passes
  <2>2. /\ plan' = [site |-> plan'.site, changed |-> plan'.changed,
                    dependents |-> plan'.dependents, paths |-> plan'.paths,
                    dropped |-> plan'.dropped, files |-> plan'.files,
                    new |-> plan'.new, pairs |-> plan'.pairs]
        /\ plan'.paths = plan.paths /\ plan'.changed = plan.changed
        /\ plan'.new = NewIn(how) /\ plan'.pairs = {}
    BY <1>0, <2>1 DEF PreviewData
  <2>3. \A p \in NewIn(how) : p \notin InBase \/ how = "broken"
    BY DEF NewIn
  <2>4. \A q \in Passes : CrawlSound(crawl'[q])
    BY <1>0, <2>1 DEF PreviewData
  <2>5. PreviewData'
    BY <1>0, <2>1, <2>2, <2>3, <2>4 DEF PreviewData, CrawlSound, SpentOn
  <2> QED BY <2>1, <2>2, <2>5 DEF PreviewInv
<1>8. CASE screenshotPairs
  <2>0. PICK shot \in SUBSET {p \in plan.changed : HasPage("head", p)} :
          \E before \in SUBSET {p \in shot : BaseRendered(p)} :
             plan' = [plan EXCEPT !.pairs = {[pkg |-> p, before |-> p \in before,
                                              new |-> NewTag(p)] : p \in shot}]
    BY <1>8 DEF screenshotPairs
  <2>1. PICK before \in SUBSET {p \in shot : BaseRendered(p)} :
          plan' = [plan EXCEPT !.pairs = {[pkg |-> p, before |-> p \in before,
                                           new |-> NewTag(p)] : p \in shot}]
    BY <2>0
  <2>2. pc = "shots" /\ pc' = "json" /\ UNCHANGED <<crawl, scan, pass>> /\ pass = "head"
    BY <1>8 DEF screenshotPairs, PreviewInv
  <2> DEFINE ps == {[pkg |-> p, before |-> p \in before, new |-> NewTag(p)] : p \in shot}
  <2>3. \A pair \in ps : pair.new => pair.pkg \in plan.new
    <3> SUFFICES ASSUME NEW pair \in ps, pair.new PROVE pair.pkg \in plan.new
      OBVIOUS
    <3>1. PICK p \in shot : pair = [pkg |-> p, before |-> p \in before, new |-> NewTag(p)]
      OBVIOUS
    <3>2. pair.pkg = p /\ (pair.new <=> NewTag(p))
      BY ONLY <3>1, Zenon
    <3> QED BY <3>2, Zenon DEF NewTag
  <2> HIDE DEF ps
  <2>4. /\ plan' = [site |-> plan'.site, changed |-> plan'.changed,
                    dependents |-> plan'.dependents, paths |-> plan'.paths,
                    dropped |-> plan'.dropped, files |-> plan'.files,
                    new |-> plan'.new, pairs |-> plan'.pairs]
        /\ plan'.paths = plan.paths /\ plan'.changed = plan.changed
        /\ plan'.new = plan.new /\ plan'.pairs = ps
    <3>1. plan' = [plan EXCEPT !.pairs = ps]
      BY <2>1 DEF ps
    <3> QED BY <1>0, <3>1 DEF PreviewData
  <2>5. \A q \in Passes : CrawlSound(crawl'[q])
    BY <1>0, <2>2 DEF PreviewData
  <2>6. PreviewData'
    BY <1>0, <2>2, <2>3, <2>4, <2>5 DEF PreviewData, CrawlSound, SpentOn
  <2> QED BY <1>0, <2>2, <2>6 DEF PreviewInv
<1>9. CASE UNCHANGED previewVars
  <2>1. UNCHANGED <<plan, crawl, scan, pc, pass>>
    BY <1>9 DEF previewVars
  <2>2. PreviewData' /\ (NothingForgotten => NothingForgotten')
    BY <1>0, <2>1, DataStands
  <2> QED BY <1>0, <2>1, <2>2 DEF PreviewInv
<1> QED BY <1>1, <1>2, <1>3, <1>4, <1>5, <1>6, <1>7, <1>8, <1>9 DEF PreviewNext, Command

LEMMA PreviewSaysIt == PreviewInv => PreviewIsHonest
<1> SUFFICES ASSUME PreviewInv PROVE PreviewIsHonest
  OBVIOUS
<1>1. ASSUME NEW w \in Passes, NEW p \in Pkgs
      PROVE  Cardinality(ArgPages(w, p)) <= ArgBudget
  <2>1. CrawlSound(crawl[w])
    BY DEF PreviewInv, PreviewData
  <2>2. ArgPages(w, p) = SpentOn(crawl[w], p)
    BY DEF ArgPages, SpentOn
  <2> QED BY <2>1, <2>2 DEF CrawlSound
<1>2. ASSUME pc = "write", pass = "head", NEW u \in crawl["head"].pages,
             NEW l \in Links[u] \ crawl["head"].visited
      PROVE  \/ PkgOf[l] \notin plan.paths \/ View[l] = "other"
             \/ View[l] = "file" /\ ~wantFile(PkgOf[l], FileName[l])
             \/ View[l] = "args" /\ Cardinality(ArgPages("head", PkgOf[l])) = ArgBudget
  <2>1. NothingForgotten /\ crawl["head"].queue = {}
    BY <1>2 DEF PreviewInv
  <2>2. LeftOut(crawl["head"], l)
    BY <1>2, <2>1 DEF NothingForgotten
  <2>3. PkgOf[l] \in plan.paths =>
           crawl["head"].args[PkgOf[l]] = Cardinality(ArgPages("head", PkgOf[l]))
    <3>1. \A p \in Pkgs : crawl["head"].args[p] = Cardinality(SpentOn(crawl["head"], p))
      BY DEF PreviewInv, PreviewData, CrawlSound, Passes
    <3>2. plan.paths \subseteq Pkgs
      BY DEF PreviewInv, PreviewData
    <3> QED BY <3>1, <3>2 DEF ArgPages, SpentOn
  <2> QED BY <2>2, <2>3 DEF LeftOut
<1>3. BudgetsAreForPages
  BY <1>1, <1>2 DEF BudgetsAreForPages
<1>4. NewIsAsserted
  BY DEF NewIsAsserted, PreviewInv, PreviewData
<1> QED BY <1>3, <1>4 DEF PreviewIsHonest

\* For any workspace, pull request and gnodevs: no realm spends more argument pages than
\* its budget, none that is linked and wanted is left out while there is budget, and a
\* package is called new only on the word of the merge base.  Of Crawler.Run, Crawler.want,
\* renderBase and screenshotPairs.
THEOREM PreviewStaysHonest == PreviewSpec => []PreviewIsHonest
<1>1. PreviewInit => PreviewInv
  BY PreviewStarts
<1>2. PreviewInv /\ [PreviewNext]_previewVars => PreviewInv'
  BY PreviewIsKept
<1>3. PreviewInv => PreviewIsHonest
  BY PreviewSaysIt
<1> QED BY <1>1, <1>2, <1>3, PTL DEF PreviewSpec
-----------------------------------------------------------------------------
(* gnobench: a comparison that passes hides no regression, and a push of results touches
   what was measured. *)

BenchRow == [gas : Int, dgas : Int, went : {"ok", "skip", "err"}, of : Sources]

\* A row that went well reads the cost of its phase, or nothing for want of a baseline.
ReadsTrue(k, r) == r.went = "ok" => r.dgas \in {TrueDelta(k, r.of), 0}
FileSound(file) == /\ DOMAIN file \subseteq Keys
                   /\ \A k \in DOMAIN file : file[k] \in BenchRow /\ ReadsTrue(k, file[k])

\* A checkout: its README is the one of its results.
IsCheckout(s) == /\ s = [src |-> s.src, results |-> s.results, readme |-> s.readme, rev |-> s.rev]
                 /\ s.src \in Sources /\ s.rev \in Nat
                 /\ s.results = [m \in Machines |-> s.results[m]]
CheckoutSound(s) == /\ IsCheckout(s) /\ s.readme = s.results
                    /\ \A m \in Machines : FileSound(s.results[m])

IsBench(j) == j = [pc |-> j.pc, kind |-> j.kind, machine |-> j.machine, base |-> j.base,
                   tree |-> j.tree, filter |-> j.filter, measured |-> j.measured,
                   tries |-> j.tries, passed |-> j.passed]

\* Its file has every row it had before, and those not measured as they were.
KeepsUnmeasured(j) ==
    LET was == j.base.results[j.machine]
        is == j.tree.results[j.machine]
    IN  /\ DOMAIN was \subseteq DOMAIN is
        /\ \A k \in DOMAIN was \ j.measured : is[k] = was[k]

\* What a comparison has measured, on the checkout it started from.
ComparesItsOwn(j) ==
    /\ j.kind # "refresh"
    /\ j.tree.results = [j.base.results EXCEPT ![j.machine] = j.tree.results[j.machine]]
    /\ \A k \in DOMAIN j.tree.results[j.machine] \cap j.measured :
          j.tree.results[j.machine][k].of = j.tree.src
    /\ j.kind = "delta" => Affected(Changed(j)) \subseteq j.measured

\* What a comparison that passed has looked at.
PassedOn(j) ==
    LET before == j.base.results[j.machine]
        moves(bytes) == Moves(before, j.tree.results[j.machine], bytes)
    IN  \/ DOMAIN before = {} \/ FailOver = 0
        \/ \E bytes \in SUBSET DOMAIN before :
             \E table \in SUBSET DOMAIN moves(bytes) :
                /\ Printable(moves(bytes), table)
                /\ \A k \in table : moves(bytes)[k] <= FailOver

\* What is about to be pushed, if nothing was merged since the fetch.
OnTop(j, s) ==
    /\ j.tree.rev <= s.rev
    /\ j.tree.rev = s.rev =>
          /\ j.tree.src = s.src
          /\ \A m \in Machines \ {j.machine} : j.tree.results[m] = s.results[m]

BenchSound(j, s) ==
    /\ IsBench(j) /\ j.filter \subseteq Keys
    /\ j.pc \in {"idle", "scope", "measure", "compare", "land", "hold", "push"}
    /\ j.pc # "idle" => j.machine \in Machines /\ CheckoutSound(j.base) /\ IsCheckout(j.tree)
                        /\ j.kind \in {"delta", "laptop", "refresh"}
    /\ j.pc \in {"scope", "measure"} => j.tree.results = j.base.results
    /\ j.pc = "measure" /\ j.kind = "delta" => j.filter = Affected(Changed(j))
    /\ j.pc \in {"compare", "land", "hold", "push"} => CheckoutSound(j.tree) /\ KeepsUnmeasured(j)
    /\ j.pc \in {"compare", "land"} => ComparesItsOwn(j)
    /\ j.pc = "land" /\ j.passed => PassedOn(j)
    /\ j.pc = "push" => OnTop(j, s)

BenchInv == /\ CheckoutSound(trunk)
            /\ bench = [t \in Benches |-> bench[t]]
            /\ \A t \in Benches : BenchSound(bench[t], trunk)

\* What packages cost is counted.
LEMMA CostsAreCounted ==
  ASSUME NEW k \in Keys, NEW src \in Sources
  PROVE  /\ k[1] \in Candidates /\ k[2] \in Workloads /\ k = <<k[1], k[2]>>
         /\ BuildCost(k[1], src) \in Nat \ {0} /\ PhaseCost(k[1], src) \in Nat \ {0}
         /\ TrueDelta(k, src) \in Nat \ {0}
<1>1. k[1] \in Candidates /\ k[2] \in Workloads /\ k = <<k[1], k[2]>>
  BY DEF Keys
<1>2. Heavy(k[1], src) \in Nat
  <2>1. IsFiniteSet({p \in Runs[k[1]] : src[p] = "heavy"})
    BY <1>1, BenchAssumption, FS_Subset
  <2> QED BY <2>1, FS_CardinalityType DEF Heavy
<1>3. BuildCost(k[1], src) \in Nat \ {0} /\ PhaseCost(k[1], src) \in Nat \ {0}
  BY <1>2 DEF BuildCost, PhaseCost
<1> QED BY <1>1, <1>3 DEF TrueDelta

\* What a run records of a key before the baselines are taken out.
LEMMA RawRow ==
  ASSUME NEW k \in Keys, NEW src \in Sources, NEW failing, NEW r,
         r = CASE k \in Skips -> NoGas("skip", src)
               [] k \in failing \ Skips -> NoGas("err", src)
               [] OTHER -> Row(k, src)
  PROVE  /\ r \in BenchRow /\ r.dgas = 0 /\ r.of = src
         /\ k \in Skips <=> r.went = "skip"
         /\ r.went = "ok" => r.gas = BuildCost(k[1], src) + Phases[k[2]] * PhaseCost(k[1], src)
<1>1. BuildCost(k[1], src) + Phases[k[2]] * PhaseCost(k[1], src) \in Int
  <2>1. Phases[k[2]] \in Nat
    BY CostsAreCounted, BenchAssumption
  <2>2. Phases[k[2]] * PhaseCost(k[1], src) \in Int
    BY <2>1, CostsAreCounted
  <2> QED BY <2>2, CostsAreCounted
<1>2. CASE k \in Skips
  BY <1>2 DEF NoGas, BenchRow
<1>3. CASE k \in failing \ Skips
  BY <1>3 DEF NoGas, BenchRow
<1>4. CASE k \notin Skips /\ k \notin failing
  <2>1. r = [gas |-> BuildCost(k[1], src) + Phases[k[2]] * PhaseCost(k[1], src),
             dgas |-> 0, went |-> "ok", of |-> src]
    BY <1>4 DEF Row
  <2> QED BY <2>1, <1>1, <1>4 DEF BenchRow
<1> QED BY <1>2, <1>3, <1>4

\* One phase more than its baseline costs one phase more.
LEMMA OnePhaseMore ==
  ASSUME NEW b \in Int, NEW n \in Nat, NEW p \in Int
  PROVE  (b + (n + 1) * p) - (b + n * p) = p
OBVIOUS

\* What a run measures is on the sources it ran, and reads true.
LEMMA RunReadsTrue ==
  ASSUME NEW src \in Sources, NEW filter, NEW failing, filter \subseteq Keys
  PROVE  /\ FileSound(Run(src, filter, failing))
         /\ \A k \in DOMAIN Run(src, filter, failing) : Run(src, filter, failing)[k].of = src
         /\ filter \subseteq DOMAIN Run(src, filter, failing)
<1> DEFINE raw == [k \in filter \cup Skips |-> CASE k \in Skips -> NoGas("skip", src)
                                          [] k \in failing \ Skips -> NoGas("err", src)
                                          [] OTHER -> Row(k, src)]
           rows == Deltas(raw)
<1>1. Run(src, filter, failing) = rows /\ filter \cup Skips \subseteq Keys
  BY BenchAssumption DEF Run
<1>2. DOMAIN raw = filter \cup Skips /\ DOMAIN rows = filter \cup Skips
  BY DEF Deltas
<1>3. ASSUME NEW k \in filter \cup Skips
      PROVE  /\ raw[k] \in BenchRow /\ raw[k].dgas = 0 /\ raw[k].of = src
             /\ k \in Skips <=> raw[k].went = "skip"
             /\ raw[k].went = "ok" =>
                   raw[k].gas = BuildCost(k[1], src) + Phases[k[2]] * PhaseCost(k[1], src)
  <2>1. k \in Keys
    BY <1>1
  <2>2. raw[k] = CASE k \in Skips -> NoGas("skip", src)
                   [] k \in failing \ Skips -> NoGas("err", src)
                   [] OTHER -> Row(k, src)
    OBVIOUS
  <2> HIDE DEF raw
  <2> QED BY <2>1, <2>2, RawRow
<1> HIDE DEF raw
<1>4. ASSUME NEW k \in filter \cup Skips
      PROVE  rows[k] \in BenchRow /\ ReadsTrue(k, rows[k]) /\ rows[k].of = src
  <2> DEFINE r == raw[k]
             b == <<k[1], BaselineOf[k[2]]>>
  <2>0. k \in Keys /\ k[1] \in Candidates /\ k[2] \in Workloads /\ k = <<k[1], k[2]>>
        /\ BuildCost(k[1], src) \in Int /\ PhaseCost(k[1], src) \in Int
    BY <1>1, CostsAreCounted
  <2>1. rows[k] = CASE BaselineOf[k[2]] = NoWorkload \/ r.went # "ok" -> [r EXCEPT !.dgas = r.gas]
                    [] BaselineOf[k[2]] # NoWorkload /\ r.went = "ok" /\ Measured(raw, b) ->
                          [r EXCEPT !.dgas = r.gas - raw[b].gas]
                    [] OTHER -> r
    BY <1>2 DEF Deltas
  <2>2. /\ r \in BenchRow /\ r.dgas = 0 /\ r.of = src
        /\ k \in Skips <=> r.went = "skip"
        /\ r.went = "ok" => r.gas = BuildCost(k[1], src) + Phases[k[2]] * PhaseCost(k[1], src)
    BY <1>3
  <2> HIDE DEF rows
  <2>3. CASE BaselineOf[k[2]] = NoWorkload \/ r.went # "ok"
    <3>1. rows[k] = [r EXCEPT !.dgas = r.gas]
      BY <2>1, <2>3
    <3>2. rows[k] \in BenchRow /\ rows[k].of = src /\ rows[k].went = r.went /\ rows[k].dgas = r.gas
      BY <3>1, <2>2 DEF BenchRow
    <3>3. ReadsTrue(k, rows[k])
      <4>1. SUFFICES ASSUME r.went = "ok" PROVE rows[k].dgas = TrueDelta(k, src)
        BY <3>2 DEF ReadsTrue
      <4>2. BaselineOf[k[2]] = NoWorkload /\ Phases[k[2]] = 0
        BY <2>3, <4>1, <2>0, BenchAssumption
      <4>3. r.gas = BuildCost(k[1], src)
        BY <4>1, <4>2, <2>2, <2>0
      <4> QED BY <4>2, <4>3, <3>2 DEF TrueDelta
    <3> QED BY <3>2, <3>3
  <2>4. CASE BaselineOf[k[2]] # NoWorkload /\ r.went = "ok" /\ Measured(raw, b)
    <3>1. rows[k] = [r EXCEPT !.dgas = r.gas - raw[b].gas]
      BY <2>1, <2>4
    <3>2. b \in filter \cup Skips /\ raw[b].went # "err"
      BY <2>4, <1>2 DEF Measured
    <3>3. /\ raw[b] \in BenchRow
          /\ b \in Skips <=> raw[b].went = "skip"
          /\ raw[b].went = "ok" =>
                raw[b].gas = BuildCost(b[1], src) + Phases[b[2]] * PhaseCost(b[1], src)
      BY <3>2, <1>3
    <3>4. BaselineOf[k[2]] \in Workloads /\ Phases[k[2]] = Phases[BaselineOf[k[2]]] + 1
          /\ Phases[BaselineOf[k[2]]] \in Nat
      BY <2>4, <2>0, BenchAssumption
    <3>5. b \notin Skips
      BY <2>4, <2>2, <2>0, BenchAssumption
    <3>6. raw[b].went = "ok"
      BY <3>2, <3>3, <3>5 DEF BenchRow
    <3>7. raw[b].gas = BuildCost(k[1], src) + Phases[BaselineOf[k[2]]] * PhaseCost(k[1], src)
      BY <3>3, <3>6
    <3>8. r.gas = BuildCost(k[1], src) + (Phases[BaselineOf[k[2]]] + 1) * PhaseCost(k[1], src)
      BY <2>2, <2>4, <3>4
    <3>9. r.gas - raw[b].gas = PhaseCost(k[1], src)
      BY <3>7, <3>8, <3>4, <2>0, OnePhaseMore
    <3>10. rows[k] = [r EXCEPT !.dgas = PhaseCost(k[1], src)]
      BY <3>1, <3>9
    <3>11. rows[k] \in BenchRow /\ rows[k].of = src /\ rows[k].dgas = PhaseCost(k[1], src)
      BY <3>10, <2>2, <2>0 DEF BenchRow
    <3>12. TrueDelta(k, src) = PhaseCost(k[1], src)
      BY <2>4 DEF TrueDelta
    <3> QED BY <3>11, <3>12 DEF ReadsTrue
  <2>5. CASE ~(BaselineOf[k[2]] = NoWorkload \/ r.went # "ok") /\ ~Measured(raw, b)
    <3>1. rows[k] = r
      BY <2>1, <2>5
    <3> QED BY <3>1, <2>2 DEF ReadsTrue
  <2> QED BY <2>3, <2>4, <2>5
<1> HIDE DEF rows
<1> QED BY <1>1, <1>2, <1>4 DEF FileSound

\* What a file is after it was folded.
LEMMA FoldIsSound ==
  ASSUME NEW file, NEW rows, FileSound(file), FileSound(rows)
  PROVE  /\ FileSound(Fold(file, rows))
         /\ DOMAIN Fold(file, rows) = DOMAIN file \cup DOMAIN rows
         /\ \A k \in DOMAIN rows : Fold(file, rows)[k] = rows[k]
         /\ \A k \in DOMAIN file \ DOMAIN rows : Fold(file, rows)[k] = file[k]
<1>1. /\ DOMAIN Fold(file, rows) = DOMAIN file \cup DOMAIN rows
      /\ \A k \in DOMAIN rows : Fold(file, rows)[k] = rows[k]
      /\ \A k \in DOMAIN file \ DOMAIN rows : Fold(file, rows)[k] = file[k]
  BY DEF Fold
<1> QED BY <1>1 DEF FileSound

\* What GateIsHonest says of one job.
GateHonest(work) ==
    (work.pc = "land" /\ work.passed /\ FailOver # 0) =>
       LET before == work.base.results[work.machine]
           after == work.tree.results[work.machine]
           moves == Moves(before, after, {})
       IN  \A k \in Usable(before) \cap Usable(after) :
             pct(TrueDelta(k, before[k].of), TrueDelta(k, work.tree.src)) > FailOver =>
                \/ k \in DOMAIN moves /\ Cardinality({j \in DOMAIN moves \ {k} :
                                            Size(moves[j]) >= Size(moves[k])}) >= MaxShown
                \/ k \notin work.measured
                   /\ (work.kind = "delta" => Changed(work) \cap Imports[k[1]] = {})
                \/ after[k].dgas = 0

LEMMA GateOfJob ==
  ASSUME NEW work, NEW s, BenchSound(work, s), Threshold <= FailOver, FailOver < 100
  PROVE  GateHonest(work)
<1> DEFINE before == work.base.results[work.machine]
           after == work.tree.results[work.machine]
           moves == Moves(before, after, {})
<1> SUFFICES ASSUME work.pc = "land", work.passed, FailOver # 0,
                    NEW k \in Usable(before) \cap Usable(after),
                    pct(TrueDelta(k, before[k].of), TrueDelta(k, work.tree.src)) > FailOver
             PROVE  \/ k \in DOMAIN moves /\ Cardinality({j \in DOMAIN moves \ {k} :
                                            Size(moves[j]) >= Size(moves[k])}) >= MaxShown
                    \/ k \notin work.measured
                       /\ (work.kind = "delta" => Changed(work) \cap Imports[k[1]] = {})
                    \/ after[k].dgas = 0
  BY DEF GateHonest
<1>0. Threshold \in Nat /\ FailOver \in Nat /\ MaxShown \in Nat /\ IsFiniteSet(Keys)
  BY BenchAssumption
<1>1. /\ FileSound(before) /\ FileSound(after) /\ work.tree.src \in Sources
      /\ ComparesItsOwn(work) /\ PassedOn(work)
  BY DEF BenchSound, CheckoutSound, IsCheckout
<1> HIDE DEF before, after, moves
<1>2. /\ k \in Keys /\ k \in DOMAIN before /\ k \in DOMAIN after
      /\ before[k].went = "ok" /\ after[k].went = "ok"
  BY <1>1 DEF Usable, FileSound
<1>3. CASE k \notin work.measured
  <2>1. SUFFICES ASSUME work.kind = "delta" PROVE Changed(work) \cap Imports[k[1]] = {}
    BY <1>3
  <2>2. Affected(Changed(work)) \subseteq work.measured
    BY <1>1, <2>1 DEF ComparesItsOwn
  <2> QED BY <2>2, <1>2, <1>3 DEF Affected
<1>4. CASE k \in work.measured /\ after[k].dgas # 0
  <2>1. after[k].of = work.tree.src
    BY <1>1, <1>2, <1>4 DEF ComparesItsOwn, after
  <2>2. after[k].dgas = TrueDelta(k, work.tree.src) /\ after[k].dgas \in Nat \ {0}
    <3>1. after[k].dgas \in {TrueDelta(k, after[k].of), 0}
      BY <1>1, <1>2 DEF FileSound, ReadsTrue
    <3> QED BY <3>1, <2>1, <1>4, <1>2, <1>1, CostsAreCounted
  <2>3. before[k].of \in Sources /\ before[k].dgas \in {TrueDelta(k, before[k].of), 0}
    BY <1>1, <1>2 DEF FileSound, ReadsTrue, BenchRow
  <2>4. pct(before[k].dgas, after[k].dgas) > FailOver /\ pct(before[k].dgas, after[k].dgas) \in Int
    <3>1. CASE before[k].dgas = 0
      BY <3>1, <2>2, <1>0 DEF pct
    <3>2. CASE before[k].dgas = TrueDelta(k, before[k].of)
      <4>1. before[k].dgas \in Nat \ {0}
        BY <3>2, <2>3, <1>2, CostsAreCounted
      <4>2. pct(before[k].dgas, after[k].dgas) > FailOver
        BY <3>2, <2>2
      <4>3. pct(before[k].dgas, after[k].dgas) \in Int
        BY <4>1, <2>2 DEF pct
      <4> QED BY <4>2, <4>3
    <3> QED BY <3>1, <3>2, <2>3
  <2>5. k \in DOMAIN moves /\ moves[k] > FailOver
    <3>1. Size(pct(before[k].dgas, after[k].dgas)) >= Threshold
      BY <2>4, <1>0 DEF Size
    <3> DEFINE both == Usable(before) \cap Usable(after)
               move(i) == IF i \in both THEN pct(before[i].dgas, after[i].dgas) ELSE 0
    <3>2. moves = [i \in {i \in Usable(before) \cup Usable(after) :
                            i \notin both \/ Size(move(i)) >= Threshold \/ i \in {}} |-> move(i)]
      BY DEF Moves, moves
    <3>3. move(k) = pct(before[k].dgas, after[k].dgas)
      OBVIOUS
    <3> HIDE DEF move
    <3>4. k \in DOMAIN moves
      BY <3>1, <3>2, <3>3
    <3>5. moves[k] = move(k)
      BY <3>2, <3>4
    <3> QED BY <3>3, <3>4, <3>5, <2>4
  <2>6. DOMAIN before # {}
    BY <1>2
  <2>7. PICK bytes \in SUBSET DOMAIN before :
           \E table \in SUBSET DOMAIN Moves(before, after, bytes) :
              /\ Printable(Moves(before, after, bytes), table)
              /\ \A i \in table : Moves(before, after, bytes)[i] <= FailOver
    BY <1>1, <2>6 DEF PassedOn, before, after
  <2> DEFINE listed == Moves(before, after, bytes)
  <2>71. PICK table \in SUBSET DOMAIN listed :
            Printable(listed, table) /\ \A i \in table : listed[i] <= FailOver
    BY <2>7
  \* What is listed for its gas is listed, and so is what moved as much, for its gas.
  <2>72. /\ \A i \in DOMAIN moves : i \in DOMAIN listed /\ listed[i] = moves[i]
         /\ \A i \in DOMAIN listed :
               Size(listed[i]) >= Size(moves[k]) => i \in DOMAIN moves /\ moves[i] = listed[i]
    <3> DEFINE both == Usable(before) \cap Usable(after)
               move(i) == IF i \in both THEN pct(before[i].dgas, after[i].dgas) ELSE 0
    <3>1. /\ moves = [i \in {i \in Usable(before) \cup Usable(after) :
                            i \notin both \/ Size(move(i)) >= Threshold \/ i \in {}} |-> move(i)]
          /\ listed = [i \in {i \in Usable(before) \cup Usable(after) :
                            i \notin both \/ Size(move(i)) >= Threshold \/ i \in bytes} |-> move(i)]
      BY DEF Moves, moves
    <3>2. Size(moves[k]) >= Threshold /\ Size(moves[k]) \in Int
      <4>1. moves[k] = pct(before[k].dgas, after[k].dgas)
        BY <3>1, <2>5, <1>2 DEF Usable
      <4> QED BY <4>1, <2>4, <2>5, <1>0 DEF Size
    <3>3. \A i \in both : move(i) \in Int
      <4>1. \A i \in both : before[i].dgas \in Nat /\ after[i].dgas \in Nat
        BY <1>1, CostsAreCounted DEF Usable, FileSound, ReadsTrue, BenchRow
      <4> QED BY <4>1 DEF pct
    <3> HIDE DEF both, move, listed
    <3>4. \A i \in DOMAIN listed : Size(listed[i]) >= Size(moves[k]) => i \in DOMAIN moves
      <4> SUFFICES ASSUME NEW i \in DOMAIN listed, Size(listed[i]) >= Size(moves[k])
                   PROVE  i \in DOMAIN moves
        OBVIOUS
      <4>1. CASE i \notin both
        BY <4>1, <3>1
      <4>2. CASE i \in both
        <5>1. listed[i] = move(i) /\ Size(move(i)) \in Int
          BY <4>2, <3>1, <3>3 DEF Size
        <5>2. Size(move(i)) >= Threshold
          BY <5>1, <3>2, <1>0
        <5> QED BY <5>2, <3>1
      <4> QED BY <4>1, <4>2
    <3> QED BY <3>1, <3>4
  <2> HIDE DEF listed
  <2>8. k \notin table
    <3>1. SUFFICES ASSUME k \in table PROVE FALSE
      OBVIOUS
    <3>2. moves[k] <= FailOver /\ moves[k] \in Int
      BY <3>1, <2>71, <2>72, <2>5, <2>4, <1>2 DEF Moves, moves
    <3> QED BY <3>2, <2>5, <1>0
  <2>9. Cardinality(table) = MaxShown
    BY <2>71, <2>72, <2>8, <2>5 DEF Printable
  <2> DEFINE larger == {j \in DOMAIN moves \ {k} : Size(moves[j]) >= Size(moves[k])}
  <2>10. table \subseteq larger
    BY <2>71, <2>72, <2>8, <2>5 DEF Printable
  <2>11. IsFiniteSet(larger)
    <3>1. larger \subseteq Keys
      BY <1>1 DEF Moves, moves, Usable, FileSound
    <3> QED BY <3>1, <1>0, FS_Subset
  <2>12. Cardinality(table) <= Cardinality(larger)
    BY <2>10, <2>11, FS_Subset
  <2> QED BY <2>12, <2>9, <2>5
<1> QED BY <1>3, <1>4

\* A job that is not running is sound, whatever is on main.
LEMMA NoBenchSound ==
  ASSUME NEW s
  PROVE  BenchSound(NoBench, s) /\ NoBench.pc = "idle"
BY DEF BenchSound, NoBench, IsBench

\* What main becomes leaves a job that is not about to push as it was.
LEMMA SoundElsewhere ==
  ASSUME NEW j, NEW s, NEW n, BenchSound(j, s), s.rev \in Nat, n.rev = s.rev + 1
  PROVE  BenchSound(j, n)
<1>1. ASSUME j.pc = "push" PROVE OnTop(j, n)
  <2>1. OnTop(j, s) /\ j.tree.rev \in Nat
    BY <1>1 DEF BenchSound, IsCheckout
  <2> QED BY <2>1 DEF OnTop
<1> QED BY <1>1 DEF BenchSound

\* One job moved, and main did not.
LEMMA OneJobMoved ==
  ASSUME BenchInv, NEW t \in Benches, NEW work, BenchSound(work, trunk),
         Advance(t, work), trunk' = trunk
  PROVE  BenchInv'
<1>1. bench' = [u \in Benches |-> IF u = t THEN work ELSE bench[u]]
  BY DEF Advance, BenchInv
<1>2. ASSUME NEW u \in Benches PROVE BenchSound(bench'[u], trunk)
  BY <1>1 DEF BenchInv
<1>3. CheckoutSound(trunk)
  BY DEF BenchInv
<1> QED BY <1>1, <1>2, <1>3 DEF BenchInv

\* One job ended, and main moved on.
LEMMA OneJobLanded ==
  ASSUME BenchInv, NEW t \in Benches, NEW next, CheckoutSound(next),
         Advance(t, NoBench), trunk' = next, next.rev = trunk.rev + 1
  PROVE  BenchInv'
<1>1. bench' = [u \in Benches |-> IF u = t THEN NoBench ELSE bench[u]]
  BY DEF Advance, BenchInv
<1>2. trunk.rev \in Nat
  BY DEF BenchInv, CheckoutSound, IsCheckout
<1>3. ASSUME NEW u \in Benches PROVE BenchSound(bench'[u], next)
  BY <1>1, <1>2, NoBenchSound, SoundElsewhere DEF BenchInv
<1> QED BY <1>1, <1>3 DEF BenchInv

LEMMA BenchInitSound == BenchInit => BenchInv
<1> SUFFICES ASSUME BenchInit PROVE BenchInv
  OBVIOUS
<1> DEFINE src == [p \in Packages |-> "lean"]
           results == [m \in Machines |-> IF m = Runner THEN Run(src, Keys, {}) ELSE NoFile]
<1>1. trunk = [src |-> src, results |-> results, readme |-> Region(results), rev |-> 0]
  BY DEF BenchInit
<1>2. src \in Sources
  BY DEF Sources
<1> HIDE DEF src
<1>3. FileSound(Run(src, Keys, {}))
  BY <1>2, RunReadsTrue
<1>4. FileSound(NoFile)
  BY DEF FileSound, NoFile
<1>5. \A m \in Machines : FileSound(results[m])
  BY <1>3, <1>4
<1>6. CheckoutSound(trunk)
  <2>1. results = [m \in Machines |-> results[m]]
    OBVIOUS
  <2> HIDE DEF results
  <2> QED BY <1>1, <1>2, <1>5, <2>1 DEF CheckoutSound, IsCheckout, Region
<1>7. \A t \in Benches : bench[t] = NoBench
  BY DEF BenchInit
<1>8. bench = [t \in Benches |-> bench[t]]
  BY DEF BenchInit
<1> QED BY <1>6, <1>7, <1>8, NoBenchSound DEF BenchInv

LEMMA StartBenchSound ==
  ASSUME BenchInv, NEW t \in Benches, NEW kind \in {"delta", "laptop", "refresh"},
         NEW src \in Sources, StartBench(t, kind, src)
  PROVE  BenchInv'
<1>1. PICK work : /\ work = [NoBench EXCEPT !.pc = IF kind = "delta" THEN "scope" ELSE "measure",
                      !.kind = kind, !.machine = IF kind = "laptop" THEN Laptop ELSE Runner,
                      !.base = trunk, !.tree = [trunk EXCEPT !.src = src],
                      !.filter = Keys, !.tries = PushTries]
                 /\ Advance(t, work) /\ trunk' = trunk
  BY DEF StartBench
<1>2. CheckoutSound(trunk)
  BY DEF BenchInv
<1>3. PICK copy : copy = [trunk EXCEPT !.src = src]
  OBVIOUS
<1>4. IsCheckout(copy) /\ copy.results = trunk.results
  BY <1>2, <1>3 DEF CheckoutSound, IsCheckout
<1>5. work = [pc |-> IF kind = "delta" THEN "scope" ELSE "measure", kind |-> kind,
             machine |-> IF kind = "laptop" THEN Laptop ELSE Runner, base |-> trunk,
             tree |-> copy, filter |-> Keys, measured |-> {}, tries |-> PushTries,
             passed |-> FALSE]
  BY <1>1, <1>3 DEF NoBench
<1>6. BenchSound(work, trunk)
  BY <1>5, <1>4, <1>2 DEF BenchSound, IsBench, Machines
<1> QED BY <1>1, <1>6, OneJobMoved

LEMMA ScopeSound ==
  ASSUME BenchInv, NEW t \in Benches, Scope(t)
  PROVE  BenchInv'
<1> DEFINE work == bench[t]
<1>1. BenchSound(work, trunk) /\ work.pc = "scope" /\ trunk' = trunk
  BY DEF BenchInv, Scope
<1>2. CASE Advance(t, NoBench)
  BY <1>1, <1>2, NoBenchSound, OneJobMoved
<1>3. CASE Advance(t, [work EXCEPT !.pc = "measure", !.filter = Affected(Changed(work))])
  <2>1. PICK d : d = [work EXCEPT !.pc = "measure", !.filter = Affected(Changed(work))]
    OBVIOUS
  <2> HIDE DEF work
  <2>2. /\ d.pc = "measure" /\ d.filter = Affected(Changed(work)) /\ IsBench(d)
        /\ d.kind = work.kind /\ d.machine = work.machine /\ d.base = work.base /\ d.tree = work.tree
    BY <2>1, <1>1 DEF BenchSound, IsBench
  <2>3. d.filter = Affected(Changed(d)) /\ d.filter \subseteq Keys
    BY <2>2 DEF Changed, Affected
  <2>4. BenchSound(d, trunk)
    BY <2>2, <2>3, <1>1 DEF BenchSound
  <2> QED BY <2>1, <2>4, <1>1, <1>3, OneJobMoved
<1> QED BY <1>2, <1>3 DEF Scope

LEMMA NarrowSound ==
  ASSUME BenchInv, NEW t \in Benches, NEW ws \in SUBSET Workloads, Narrow(t, ws)
  PROVE  BenchInv'
<1> DEFINE work == bench[t]
<1>1. /\ BenchSound(work, trunk) /\ work.pc = "measure" /\ work.kind = "laptop" /\ trunk' = trunk
      /\ Advance(t, [work EXCEPT !.filter = Candidates \X ws])
  BY DEF BenchInv, Narrow
<1>2. PICK d : d = [work EXCEPT !.filter = Candidates \X ws]
  OBVIOUS
<1>3. Advance(t, d)
  BY <1>1, <1>2
<1> HIDE DEF work
<1>4. /\ d.pc = work.pc /\ d.filter = Candidates \X ws /\ IsBench(d)
      /\ d.kind = work.kind /\ d.machine = work.machine /\ d.base = work.base /\ d.tree = work.tree
  BY <1>2, <1>1 DEF BenchSound, IsBench
<1>5. d.filter \subseteq Keys
  BY <1>4 DEF Keys
<1>6. BenchSound(d, trunk)
  BY <1>4, <1>5, <1>1 DEF BenchSound
<1> QED BY <1>1, <1>3, <1>6, OneJobMoved

LEMMA MeasureSound ==
  ASSUME BenchInv, NEW t \in Benches, NEW failing, Measure(t, failing)
  PROVE  BenchInv'
<1> DEFINE work == bench[t]
           m == work.machine
           rows == Run(work.tree.src, work.filter, failing)
<1>1. /\ BenchSound(work, trunk) /\ work.pc = "measure" /\ trunk' = trunk
      /\ m \in Machines /\ CheckoutSound(work.base) /\ IsCheckout(work.tree)
      /\ work.tree.results = work.base.results /\ work.filter \subseteq Keys
      /\ work.kind \in {"delta", "laptop", "refresh"}
      /\ work.kind = "delta" => work.filter = Affected(Changed(work))
  BY DEF BenchInv, BenchSound, Measure
<1>2. PICK copy : copy = [work.tree EXCEPT !.results[m] = Fold(@, rows)]
  OBVIOUS
<1>3. PICK end : end = [copy EXCEPT !.readme = Region(copy.results)]
  OBVIOUS
<1>4. PICK d : /\ d = [work EXCEPT !.pc = IF work.kind = "refresh" THEN "hold" ELSE "compare",
                          !.tree = end, !.measured = DOMAIN rows]
               /\ Advance(t, d)
  BY <1>2, <1>3 DEF Measure
<1>5. work.tree.src \in Sources
  BY <1>1 DEF IsCheckout
<1>6. /\ FileSound(rows) /\ work.filter \subseteq DOMAIN rows
      /\ \A k \in DOMAIN rows : rows[k].of = work.tree.src
  BY <1>1, <1>5, RunReadsTrue
<1>7. FileSound(work.base.results[m])
  BY <1>1 DEF CheckoutSound
<1>8. IsBench(work)
  BY <1>1 DEF BenchSound
<1> HIDE DEF work, m, rows
<1> DEFINE was == work.base.results[m]
           is == Fold(was, rows)
<1>9. /\ FileSound(is) /\ DOMAIN is = DOMAIN was \cup DOMAIN rows
      /\ \A k \in DOMAIN rows : is[k] = rows[k]
      /\ \A k \in DOMAIN was \ DOMAIN rows : is[k] = was[k]
  <2>1. FileSound(was) /\ FileSound(rows)
    BY <1>6, <1>7
  <2> HIDE DEF was
  <2> QED BY ONLY <2>1, FoldIsSound
<1>10. /\ copy = [src |-> work.tree.src, results |-> [work.base.results EXCEPT ![m] = is],
                  readme |-> work.tree.readme, rev |-> work.tree.rev]
  <2>1. work.tree = [src |-> work.tree.src, results |-> work.tree.results,
                    readme |-> work.tree.readme, rev |-> work.tree.rev]
    BY <1>1 DEF IsCheckout
  <2>2. copy = [work.tree EXCEPT !.results = [work.tree.results EXCEPT ![m] =
                                                Fold(work.tree.results[m], rows)]]
    BY <1>2, <2>1
  <2>3. copy = [src |-> work.tree.src, readme |-> work.tree.readme, rev |-> work.tree.rev,
                results |-> [work.tree.results EXCEPT ![m] = Fold(work.tree.results[m], rows)]]
    BY <2>1, <2>2
  <2> QED BY <2>3, <1>1
<1> HIDE DEF was, is
<1>11. end = [src |-> work.tree.src, results |-> [work.base.results EXCEPT ![m] = is],
              readme |-> [work.base.results EXCEPT ![m] = is], rev |-> work.tree.rev]
  BY <1>3, <1>10 DEF Region
<1>12. work.base.results = [n \in Machines |-> work.base.results[n]]
       /\ \A n \in Machines : FileSound(work.base.results[n])
  BY <1>1 DEF CheckoutSound, IsCheckout
<1>13. end.results = [n \in Machines |-> IF n = m THEN is ELSE work.base.results[n]]
  BY <1>11, <1>12
<1>14. CheckoutSound(end)
  <2>1. \A n \in Machines : FileSound(end.results[n])
    BY <1>13, <1>12, <1>9
  <2>2. end.results = [n \in Machines |-> end.results[n]]
    BY <1>13
  <2>3. work.tree.rev \in Nat
    BY <1>1 DEF IsCheckout
  <2> QED BY <2>1, <2>2, <2>3, <1>5, <1>11 DEF CheckoutSound, IsCheckout
<1>15. /\ d.pc = IF work.kind = "refresh" THEN "hold" ELSE "compare"
       /\ d.kind = work.kind /\ d.machine = m /\ d.base = work.base /\ d.tree = end
       /\ d.filter = work.filter /\ d.measured = DOMAIN rows /\ IsBench(d)
  BY <1>4, <1>8 DEF IsBench, m
<1>16. end.results[m] = is /\ end.src = work.tree.src
  BY <1>11, <1>13, <1>1
<1>17. KeepsUnmeasured(d)
  BY <1>15, <1>16, <1>9 DEF KeepsUnmeasured, was
<1>18. ASSUME work.kind # "refresh" PROVE ComparesItsOwn(d)
  <2>1. end.results = [work.base.results EXCEPT ![m] = end.results[m]]
    BY <1>11, <1>16
  <2>2. \A k \in DOMAIN end.results[m] \cap DOMAIN rows : end.results[m][k].of = end.src
    BY <1>16, <1>9, <1>6
  <2>3. work.kind = "delta" => Affected(Changed(d)) \subseteq DOMAIN rows
    BY <1>1, <1>6, <1>15, <1>16 DEF Changed
  <2> QED BY <2>1, <2>2, <2>3, <1>15, <1>18 DEF ComparesItsOwn
<1>19. IsCheckout(end)
  BY <1>14 DEF CheckoutSound
<1>20. BenchSound(d, trunk)
  <2>1. d.pc \in {"compare", "hold"} /\ (d.pc = "compare" => work.kind # "refresh")
    BY <1>15
  <2> QED BY <2>1, <1>1, <1>14, <1>15, <1>17, <1>18, <1>19 DEF BenchSound
<1> QED BY <1>1, <1>4, <1>20, OneJobMoved

LEMMA CompareSound ==
  ASSUME BenchInv, NEW t \in Benches, Compare(t)
  PROVE  BenchInv'
<1> DEFINE work == bench[t]
           before == work.base.results[work.machine]
           listed(bytes) == Moves(before, work.tree.results[work.machine], bytes)
<1>0. PICK bytes \in SUBSET Usable(before) : \E table \in SUBSET DOMAIN listed(bytes) :
         /\ Printable(listed(bytes), table)
         /\ Advance(t, [work EXCEPT !.pc = "land",
                           !.passed = \/ DOMAIN before = {} \/ FailOver = 0
                                      \/ \A k \in table : listed(bytes)[k] <= FailOver])
  BY DEF Compare
<1> DEFINE moves == listed(bytes)
<1>01. PICK table \in SUBSET DOMAIN moves :
         /\ Printable(moves, table)
         /\ Advance(t, [work EXCEPT !.pc = "land",
                           !.passed = \/ DOMAIN before = {} \/ FailOver = 0
                                      \/ \A k \in table : moves[k] <= FailOver])
  BY <1>0
<1>02. bytes \in SUBSET DOMAIN before
  BY DEF Usable
<1> DEFINE passed == \/ DOMAIN before = {} \/ FailOver = 0
                     \/ \A k \in table : moves[k] <= FailOver
<1>1. /\ BenchSound(work, trunk) /\ work.pc = "compare" /\ trunk' = trunk
      /\ Printable(moves, table)
      /\ Advance(t, [work EXCEPT !.pc = "land", !.passed = passed])
  BY <1>01 DEF BenchInv, Compare
<1>2. PICK d : d = [work EXCEPT !.pc = "land", !.passed = passed]
  OBVIOUS
<1>3. Advance(t, d)
  BY <1>1, <1>2
<1>4. IsBench(work)
  BY <1>1 DEF BenchSound
<1>5. PassedOn(work) \/ ~passed
  BY <1>1, <1>02 DEF PassedOn
<1> HIDE DEF work, before, moves, listed, passed
<1>6. /\ d.pc = "land" /\ d.filter = work.filter /\ IsBench(d) /\ d.measured = work.measured
      /\ d.kind = work.kind /\ d.machine = work.machine /\ d.base = work.base /\ d.tree = work.tree
      /\ d.passed = passed
  BY <1>2, <1>4 DEF IsBench
<1>7. d.passed => PassedOn(d)
  BY <1>5, <1>6 DEF PassedOn
<1>8. KeepsUnmeasured(d) /\ ComparesItsOwn(d)
  BY <1>1, <1>6 DEF BenchSound, KeepsUnmeasured, ComparesItsOwn, Changed
<1>9. BenchSound(d, trunk)
  BY <1>1, <1>6, <1>7, <1>8 DEF BenchSound
<1> QED BY <1>1, <1>3, <1>9, OneJobMoved

\* What landing a laptop's results makes of main.
LEMMA LaptopLands ==
  ASSUME BenchInv, NEW t \in Benches, bench[t].pc = "land", bench[t].kind = "laptop",
         trunk.readme = bench[t].base.readme,
         NEW next, next = [trunk EXCEPT !.rev = @ + 1, !.readme = bench[t].tree.readme,
                             !.results[bench[t].machine] = bench[t].tree.results[bench[t].machine]]
  PROVE  /\ CheckoutSound(next) /\ next.rev = trunk.rev + 1 /\ next.src = trunk.src
         /\ next.results = bench[t].tree.results /\ trunk.results = bench[t].base.results
<1> DEFINE work == bench[t]
           m == work.machine
<1>1. /\ BenchSound(work, trunk) /\ CheckoutSound(trunk)
  BY DEF BenchInv
<1>2. /\ m \in Machines /\ CheckoutSound(work.base) /\ CheckoutSound(work.tree)
      /\ work.tree.results = [work.base.results EXCEPT ![m] = work.tree.results[m]]
  BY <1>1 DEF BenchSound, ComparesItsOwn
<1>3. trunk.results = work.base.results
  BY <1>1, <1>2 DEF CheckoutSound
<1>4. trunk = [src |-> trunk.src, results |-> trunk.results, readme |-> trunk.readme,
               rev |-> trunk.rev] /\ trunk.rev \in Nat /\ trunk.src \in Sources
  BY <1>1 DEF CheckoutSound, IsCheckout
<1> HIDE DEF work, m
<1>5. next = [trunk EXCEPT !.rev = @ + 1, !.readme = work.tree.readme,
                           !.results[m] = work.tree.results[m]]
  BY DEF work, m
<1>6. next = [src |-> trunk.src, results |-> [trunk.results EXCEPT ![m] = work.tree.results[m]],
              readme |-> work.tree.readme, rev |-> trunk.rev + 1]
  BY <1>4, <1>5
<1>7. next = [src |-> trunk.src, results |-> work.tree.results,
              readme |-> work.tree.readme, rev |-> trunk.rev + 1]
  BY <1>6, <1>3, <1>2
<1>8. CheckoutSound(next)
  <2>1. /\ work.tree.results = [n \in Machines |-> work.tree.results[n]]
        /\ \A n \in Machines : FileSound(work.tree.results[n])
        /\ work.tree.readme = work.tree.results
    BY <1>2 DEF CheckoutSound, IsCheckout
  <2>2. /\ next.src = trunk.src /\ next.results = work.tree.results
        /\ next.readme = work.tree.readme /\ next.rev = trunk.rev + 1
        /\ next = [src |-> next.src, results |-> next.results, readme |-> next.readme,
                   rev |-> next.rev]
    BY ONLY <1>7
  <2>3. next.rev \in Nat /\ next.src \in Sources
    BY <2>2, <1>4
  <2> QED BY ONLY <2>1, <2>2, <2>3 DEF CheckoutSound, IsCheckout
<1>9. next.src = trunk.src /\ next.results = work.tree.results /\ next.rev = trunk.rev + 1
  BY ONLY <1>7
<1> QED BY ONLY <1>9, <1>8, <1>3 DEF work

LEMMA LandSound ==
  ASSUME BenchInv, NEW t \in Benches, NEW merged \in BOOLEAN, Land(t, merged)
  PROVE  BenchInv'
<1> DEFINE work == bench[t]
<1>1. /\ BenchSound(work, trunk) /\ CheckoutSound(trunk) /\ work.pc = "land"
      /\ Advance(t, NoBench)
      /\ merged => work.kind = "delta" \/ trunk.readme = work.base.readme
  BY DEF BenchInv, Land
<1>2. work.kind \in {"delta", "laptop"} /\ IsCheckout(work.tree)
  BY <1>1 DEF BenchSound, ComparesItsOwn
<1>3. CASE ~merged
  <2>1. trunk' = trunk
    BY <1>3 DEF Land
  <2> QED BY <2>1, <1>1, NoBenchSound, OneJobMoved
<1>4. CASE merged /\ work.kind = "delta"
  <2> DEFINE src == [p \in Packages |-> IF p \in Changed(work) THEN work.tree.src[p] ELSE trunk.src[p]]
  <2>1. PICK next : next = [trunk EXCEPT !.rev = @ + 1,
                             !.src = [p \in Packages |-> IF p \in Changed(work)
                                                         THEN work.tree.src[p] ELSE @[p]]]
                    /\ trunk' = next
    BY <1>4 DEF Land
  <2>2. trunk = [src |-> trunk.src, results |-> trunk.results, readme |-> trunk.readme,
                 rev |-> trunk.rev] /\ trunk.rev \in Nat /\ trunk.src \in Sources
    BY <1>1 DEF CheckoutSound, IsCheckout
  <2>3. src \in Sources
    BY <1>2, <2>2 DEF Sources, IsCheckout
  <2>4. next = [trunk EXCEPT !.rev = @ + 1, !.src = src]
    BY <2>1, <2>2
  <2> HIDE DEF src, work
  <2>5. next = [src |-> src, results |-> trunk.results, readme |-> trunk.readme,
                rev |-> trunk.rev + 1]
    BY <2>2, <2>4
  <2>6. CheckoutSound(next)
    BY <2>5, <2>3, <2>2, <1>1 DEF CheckoutSound, IsCheckout
  <2> QED BY <2>1, <2>5, <2>6, <1>1, OneJobLanded
<1>5. CASE merged /\ work.kind = "laptop"
  <2>1. PICK next : next = [trunk EXCEPT !.rev = @ + 1, !.readme = work.tree.readme,
                              !.results[work.machine] = work.tree.results[work.machine]]
                    /\ trunk' = next
    BY <1>5 DEF Land
  <2>2. CheckoutSound(next) /\ next.rev = trunk.rev + 1
    BY <2>1, <1>1, <1>5, LaptopLands
  <2> QED BY <2>1, <2>2, <1>1, OneJobLanded
<1> QED BY <1>2, <1>3, <1>4, <1>5

LEMMA CheckoutWith ==
  ASSUME NEW s, NEW r,
         s = [src |-> s.src, results |-> s.results, readme |-> s.readme, rev |-> s.rev],
         NEW n, n = [s EXCEPT !.results = r, !.readme = r]
  PROVE  n = [src |-> s.src, results |-> r, readme |-> r, rev |-> s.rev]
OBVIOUS

LEMMA RebuildSound ==
  ASSUME BenchInv, NEW t \in Benches, Rebuild(t)
  PROVE  BenchInv'
<1> DEFINE work == bench[t]
           m == work.machine
           results == PutBack(work, trunk.results)
           copy == [trunk EXCEPT !.results = results, !.readme = Region(results)]
<1>1. /\ BenchSound(work, trunk) /\ CheckoutSound(trunk) /\ work.pc = "hold" /\ trunk' = trunk
      /\ Advance(t, [work EXCEPT !.pc = "push", !.tree = copy])
  BY DEF BenchInv, Rebuild
<1>2. /\ m \in Machines /\ CheckoutSound(work.tree) /\ KeepsUnmeasured(work) /\ IsBench(work)
  BY <1>1 DEF BenchSound
<1>3. /\ trunk = [src |-> trunk.src, results |-> trunk.results, readme |-> trunk.readme,
                  rev |-> trunk.rev]
      /\ trunk.rev \in Nat /\ trunk.src \in Sources
      /\ trunk.results = [n \in Machines |-> trunk.results[n]]
      /\ \A n \in Machines : FileSound(trunk.results[n])
  BY <1>1 DEF CheckoutSound, IsCheckout
<1>4. PICK d : d = [work EXCEPT !.pc = "push", !.tree = copy]
  OBVIOUS
<1>5. Advance(t, d)
  BY <1>1, <1>4
<1> HIDE DEF work, m
<1>6. results = [n \in Machines |-> IF n = m THEN work.tree.results[m] ELSE trunk.results[n]]
  BY <1>3 DEF PutBack, m
<1> HIDE DEF results
<1>7. copy = [src |-> trunk.src, results |-> results, readme |-> results, rev |-> trunk.rev]
  <2>1. trunk = [src |-> trunk.src, results |-> trunk.results, readme |-> trunk.readme,
                 rev |-> trunk.rev]
    BY <1>3
  <2> QED BY <2>1, CheckoutWith DEF Region
<1> HIDE DEF copy
<1>8. FileSound(work.tree.results[m])
  BY <1>2 DEF CheckoutSound
<1>9. CheckoutSound(copy)
  <2>1. /\ copy.results = [n \in Machines |-> copy.results[n]]
        /\ \A n \in Machines : FileSound(copy.results[n])
    BY <1>3, <1>6, <1>7, <1>8
  <2>2. /\ copy.src = trunk.src /\ copy.readme = copy.results /\ copy.rev = trunk.rev
        /\ copy = [src |-> copy.src, results |-> copy.results, readme |-> copy.readme,
                   rev |-> copy.rev]
    BY ONLY <1>7
  <2> QED BY ONLY <2>1, <2>2, <1>3 DEF CheckoutSound, IsCheckout
<1>10. /\ d.pc = "push" /\ d.filter = work.filter /\ IsBench(d) /\ d.measured = work.measured
       /\ d.kind = work.kind /\ d.machine = m /\ d.base = work.base /\ d.tree = copy
  BY <1>4, <1>2 DEF IsBench, m
<1>11. KeepsUnmeasured(d)
  <2>1. copy.results[m] = work.tree.results[m]
    BY <1>2, <1>6, <1>7
  <2> QED BY <2>1, <1>2, <1>10 DEF KeepsUnmeasured, m
<1>12. OnTop(d, trunk)
  <2>1. copy.src = trunk.src /\ copy.rev = trunk.rev /\ copy.results = results
    BY ONLY <1>7
  <2>2. \A n \in Machines \ {m} : results[n] = trunk.results[n]
    BY <1>6
  <2> QED BY <2>1, <2>2, <1>3, <1>10 DEF OnTop
<1>13. IsCheckout(copy)
  BY <1>9 DEF CheckoutSound
<1>14. /\ work.filter \subseteq Keys /\ m \in Machines /\ CheckoutSound(work.base)
       /\ work.kind \in {"delta", "laptop", "refresh"}
  BY <1>1 DEF BenchSound, m
<1>15. BenchSound(d, trunk)
  BY ONLY <1>9, <1>10, <1>11, <1>12, <1>13, <1>14 DEF BenchSound
<1> QED BY <1>1, <1>5, <1>15, OneJobMoved

LEMMA PushResultsSound ==
  ASSUME BenchInv, NEW t \in Benches, PushResults(t)
  PROVE  BenchInv'
<1> DEFINE work == bench[t]
<1>1. BenchSound(work, trunk) /\ work.pc = "push"
  BY DEF BenchInv, PushResults
<1>2. CheckoutSound(work.tree)
  BY <1>1 DEF BenchSound
<1>3. CASE work.tree.rev = trunk.rev
  <2>1. PICK next : next = [work.tree EXCEPT !.rev = @ + 1] /\ trunk' = next /\ Advance(t, NoBench)
    BY <1>3 DEF PushResults
  <2> HIDE DEF work
  <2>2. /\ next = [src |-> work.tree.src, results |-> work.tree.results,
                   readme |-> work.tree.readme, rev |-> work.tree.rev + 1]
    BY <2>1, <1>2 DEF CheckoutSound, IsCheckout
  <2>3. CheckoutSound(next) /\ next.rev = trunk.rev + 1
    BY <2>2, <1>2, <1>3 DEF CheckoutSound, IsCheckout
  <2> QED BY <2>1, <2>3, OneJobLanded
<1>4. CASE work.tree.rev # trunk.rev
  <2>1. trunk' = trunk /\ Advance(t, IF work.tries = 1 THEN NoBench
                              ELSE [work EXCEPT !.pc = "hold", !.tries = @ - 1])
    BY <1>4 DEF PushResults
  <2>2. CASE work.tries = 1
    BY <2>1, <2>2, NoBenchSound, OneJobMoved
  <2>3. CASE work.tries # 1
    <3>1. PICK d : d = [work EXCEPT !.pc = "hold", !.tries = @ - 1]
      OBVIOUS
    <3>2. Advance(t, d)
      BY <2>1, <2>3, <3>1
    <3>3. IsBench(work)
      BY <1>1 DEF BenchSound
    <3> HIDE DEF work
    <3>4. /\ d.pc = "hold" /\ d.filter = work.filter /\ IsBench(d) /\ d.measured = work.measured
          /\ d.kind = work.kind /\ d.machine = work.machine /\ d.base = work.base
          /\ d.tree = work.tree
      BY <3>1, <3>3 DEF IsBench
    <3>5. BenchSound(d, trunk)
      BY <3>4, <1>1, <1>2 DEF BenchSound, KeepsUnmeasured
    <3> QED BY <2>1, <3>2, <3>5, OneJobMoved
  <2> QED BY <2>2, <2>3
<1> QED BY <1>3, <1>4

LEMMA BenchInvKept == BenchInv /\ [BenchNext]_benchVars => BenchInv'
<1> SUFFICES ASSUME BenchInv, [BenchNext]_benchVars PROVE BenchInv'
  OBVIOUS
<1>1. CASE UNCHANGED benchVars
  BY <1>1 DEF benchVars, BenchInv
<1>2. CASE BenchNext
  <2>1. PICK t \in Benches :
           \/ \E kind \in {"delta", "laptop", "refresh"}, src \in Sources : StartBench(t, kind, src)
           \/ Scope(t) \/ Rebuild(t) \/ PushResults(t)
           \/ \E ws \in SUBSET Workloads \ {{}} : Narrow(t, ws)
           \/ \E failing \in {{}} \cup {{k} : k \in Keys} : Measure(t, failing)
           \/ Compare(t)
           \/ \E merged \in BOOLEAN : Land(t, merged)
    BY <1>2 DEF BenchNext
  <2> QED BY ONLY BenchInv, t \in Benches, <2>1, StartBenchSound, ScopeSound, NarrowSound,
             MeasureSound, CompareSound, LandSound, RebuildSound, PushResultsSound
<1> QED BY <1>1, <1>2

LEMMA BenchInvHolds == BenchSpec => []BenchInv
<1> QED BY BenchInitSound, BenchInvKept, PTL DEF BenchSpec

\* With a limit that is not below what is listed, and below the 100 that stands for "out of
\* nothing", a comparison that passes (compare.go, -fail-over) hides no regression of a row
\* that was measured with its baseline and that the table has room for: for any suite, any
\* failures, any filter and whatever is merged meanwhile.
THEOREM GateStaysHonest ==
  ASSUME Threshold <= FailOver, FailOver < 100
  PROVE  BenchSpec => []GateIsHonest
<1>1. BenchInv => GateIsHonest
  <2>1. (\A t \in Benches : GateHonest(bench[t])) => GateIsHonest
    BY DEF GateHonest, GateIsHonest
  <2> QED BY <2>1, GateOfJob DEF BenchInv
<1> QED BY <1>1, BenchInvHolds, PTL

\* What RefreshIsLocal says of a step.
StaysLocal ==
    trunk'.results # trunk.results =>
         /\ trunk'.readme = trunk'.results /\ trunk'.src = trunk.src
         /\ \E t \in Benches :
               LET m == bench[t].machine
               IN  /\ bench[t].pc \in {"push", "land"} /\ bench'[t].pc = "idle"
                   /\ \A other \in Machines \ {m} : trunk'.results[other] = trunk.results[other]
                   /\ \/ bench[t].base.results[m] # trunk.results[m]
                      \/ /\ DOMAIN trunk.results[m] \subseteq DOMAIN trunk'.results[m]
                         /\ \A k \in DOMAIN trunk.results[m] \ bench[t].measured :
                               trunk'.results[m][k] = trunk.results[m][k]

LEMMA RefreshStepsStayLocal == BenchInv /\ [BenchNext]_benchVars => [StaysLocal]_benchVars
<1>1. ASSUME BenchInv, NEW t \in Benches, trunk'.results # trunk.results, Advance(t, NoBench),
             bench[t].pc \in {"push", "land"}, trunk'.src = trunk.src,
             trunk'.readme = bench[t].tree.readme, trunk'.results = bench[t].tree.results,
             \A other \in Machines \ {bench[t].machine} :
                bench[t].tree.results[other] = trunk.results[other]
      PROVE  StaysLocal
  <2>1. bench'[t].pc = "idle"
    BY <1>1, NoBenchSound DEF Advance, BenchInv
  <2>2. CheckoutSound(bench[t].tree) /\ KeepsUnmeasured(bench[t])
    BY <1>1 DEF BenchInv, BenchSound
  <2>3. trunk'.readme = trunk'.results
    BY <1>1, <2>2 DEF CheckoutSound
  <2> PICK m : m = bench[t].machine
    OBVIOUS
  <2>4. \/ bench[t].base.results[m] # trunk.results[m]
        \/ /\ DOMAIN trunk.results[m] \subseteq DOMAIN trunk'.results[m]
           /\ \A k \in DOMAIN trunk.results[m] \ bench[t].measured :
                 trunk'.results[m][k] = trunk.results[m][k]
    BY <1>1, <2>2 DEF KeepsUnmeasured
  <2>5. \A other \in Machines \ {m} : trunk'.results[other] = trunk.results[other]
    BY <1>1
  <2> QED BY ONLY <1>1, <2>1, <2>3, <2>4, <2>5, m = bench[t].machine DEF StaysLocal
<1>2. ASSUME BenchInv, BenchNext, trunk'.results # trunk.results
      PROVE  StaysLocal
  <2>1. PICK t \in Benches : PushResults(t) \/ \E merged \in BOOLEAN : Land(t, merged)
    BY <1>2 DEF BenchNext, StartBench, Scope, Rebuild, Narrow, Measure, Compare
  <2>2. BenchSound(bench[t], trunk)
    BY <1>2 DEF BenchInv
  <2>3. CASE PushResults(t)
    <3>1. /\ bench[t].pc = "push" /\ bench[t].tree.rev = trunk.rev
          /\ trunk' = [bench[t].tree EXCEPT !.rev = @ + 1] /\ Advance(t, NoBench)
      BY <1>2, <2>3 DEF PushResults
    <3>2. OnTop(bench[t], trunk) /\ IsCheckout(bench[t].tree)
      BY <2>2, <3>1 DEF BenchSound
    <3>3. /\ trunk'.src = bench[t].tree.src /\ trunk'.readme = bench[t].tree.readme
          /\ trunk'.results = bench[t].tree.results
      BY <3>1, <3>2 DEF IsCheckout
    <3>4. /\ bench[t].tree.src = trunk.src
          /\ \A other \in Machines \ {bench[t].machine} :
                bench[t].tree.results[other] = trunk.results[other]
      BY <3>1, <3>2 DEF OnTop
    <3> QED BY <3>1, <3>3, <3>4, <1>1, <1>2
  <2>4. ASSUME NEW merged \in BOOLEAN, Land(t, merged) PROVE StaysLocal
    <3>1. /\ bench[t].pc = "land" /\ Advance(t, NoBench)
          /\ merged => bench[t].kind = "delta" \/ trunk.readme = bench[t].base.readme
      BY <2>4 DEF Land
    <3>2. bench[t].kind \in {"delta", "laptop"} /\ ComparesItsOwn(bench[t])
          /\ bench[t].machine \in Machines
      BY <2>2, <3>1 DEF BenchSound, ComparesItsOwn
    <3>3. merged /\ bench[t].kind # "delta"
      <4>1. CASE ~merged
        BY <4>1, <2>4, <1>2 DEF Land
      <4>2. CASE merged /\ bench[t].kind = "delta"
        <5>1. CheckoutSound(trunk)
          BY <1>2 DEF BenchInv
        <5>2. trunk' = [trunk EXCEPT !.rev = @ + 1,
                          !.src = [p \in Packages |-> IF p \in Changed(bench[t])
                                                      THEN bench[t].tree.src[p] ELSE @[p]]]
          BY <4>2, <2>4 DEF Land
        <5>3. trunk'.results = trunk.results
          BY <5>1, <5>2 DEF CheckoutSound, IsCheckout
        <5> QED BY <5>3, <1>2
      <4> QED BY <4>1, <4>2
    <3>4. PICK next : next = [trunk EXCEPT !.rev = @ + 1, !.readme = bench[t].tree.readme,
                               !.results[bench[t].machine] =
                                   bench[t].tree.results[bench[t].machine]]
                      /\ trunk' = next
      BY <3>2, <3>3, <2>4 DEF Land
    <3>5. /\ CheckoutSound(next) /\ next.src = trunk.src
          /\ next.results = bench[t].tree.results /\ trunk.results = bench[t].base.results
      BY <1>2, <3>1, <3>2, <3>3, <3>4, LaptopLands
    <3>6. trunk'.readme = bench[t].tree.readme
      <4>1. CheckoutSound(bench[t].tree)
        BY <2>2, <3>1 DEF BenchSound
      <4> QED BY <4>1, <3>4, <3>5 DEF CheckoutSound
    <3>7. \A other \in Machines \ {bench[t].machine} :
             bench[t].tree.results[other] = trunk.results[other]
      <4>1. bench[t].tree.results = [trunk.results EXCEPT ![bench[t].machine] =
                                        bench[t].tree.results[bench[t].machine]]
        BY <3>2, <3>5 DEF ComparesItsOwn
      <4>2. trunk.results = [m \in Machines |-> trunk.results[m]]
        BY <1>2 DEF BenchInv, CheckoutSound, IsCheckout
      <4> QED BY ONLY <4>1, <4>2
    <3> QED BY <3>1, <3>4, <3>5, <3>6, <3>7, <1>1, <1>2
  <2> QED BY <2>1, <2>3, <2>4
<1> QED BY <1>2 DEF benchVars, StaysLocal

\* A push of results, by the weekly job after any number of rejected attempts or with what
\* a laptop measured, changes one machine's file, only rows that were measured unless that
\* file had moved meanwhile, and leaves the README of the results pushed.
THEOREM RefreshStaysLocal == BenchSpec => RefreshIsLocal
BY RefreshStepsStayLocal, BenchInvHolds, BenchInvKept, PTL DEF BenchSpec, RefreshIsLocal, StaysLocal
-----------------------------------------------------------------------------
(* The catalog: what the workflow pushes is the catalog of the tree it is pushed on, and
   no status is made up. *)

EntryOK(e) == /\ e = [superseded |-> e.superseded, upstream |-> e.upstream,
                      published |-> e.published]
              /\ e.published = [n \in Nets |-> e.published[n]]
FileOK(file) == /\ file = [m \in DOMAIN file |-> file[m]]
                /\ \A m \in DOMAIN file : EntryOK(file[m])

SaysLive(file, n, m) == m \in DOMAIN file /\ file[m].published[n].state = "live"

\* Who is called live is.
Reports(file) == \A n \in Nets, m \in Mods : SaysLive(file, n, m) => chain[n][m] = "live"

\* Who is live on main's catalog stays so in `says`, or is asked for where it is not.
StillLive(n, m, says) == SaysLive(main.file, n, m) =>
                            says \/ (<<n, m>> \in Moved /\ m \notin clone.tree)

\* The catalog of the checkout, with every status main's has.
CatalogFits(file) ==
    /\ FileOK(file) /\ Reports(file)
    /\ DOMAIN file = Known(clone)
    /\ \A m \in DOMAIN file : file[m].superseded = (m \notin clone.tree)
    /\ \A n \in Nets, m \in DOMAIN file : StillLive(n, m, SaysLive(file, n, m))

RepoOK(r) == /\ r = [tree |-> r.tree, pinned |-> r.pinned, file |-> r.file, rev |-> r.rev,
                     merges |-> r.merges]
             /\ r.rev \in Nat /\ FileOK(r.file) /\ Known(r) \subseteq Mods

AskOK(a) == /\ a = [net |-> a.net, todo |-> a.todo, index |-> a.index, live |-> a.live,
                    streak |-> a.streak]
            /\ a.net # "none" => a.net \in Nets
            /\ a.index # "none" => a.net # "none"

\* What was listed as live is, and has whoever was live before.
ListedLive(a) ==
    a.index = "live" =>
       /\ \A m \in a.live : m \in Mods /\ chain[a.net][m] = "live"
       /\ \A m \in Probed : StillLive(a.net, m, m \in a.live)

CatalogInv ==
    /\ RepoOK(main) /\ RepoOK(clone)
    /\ ci = [pc |-> ci.pc, attempt |-> ci.attempt, rest |-> ci.rest,
             answered |-> ci.answered, draft |-> ci.draft, ask |-> ci.ask]
    /\ Reports(main.file)
    /\ chain = [n \in Nets |-> chain[n]] /\ \A n \in Nets : chain[n] = [m \in Mods |-> chain[n][m]]
    /\ \A n \in Nets, m \in Mods : chain[n][m] \in Standing
    /\ clone.rev <= main.rev
    /\ clone.rev = main.rev => clone.tree = main.tree /\ clone.pinned = main.pinned
    /\ ci.pc \in {"sync", "manifest"} => clone.file = main.file
    /\ ci.pc \in {"status", "push"} => CatalogFits(clone.file)
    /\ ci.pc = "status" => CatalogFits(ci.draft) /\ ci.rest \subseteq Nets
    /\ AskOK(ci.ask) /\ (ci.ask.net # "none" => ci.pc = "status") /\ ListedLive(ci.ask)

LEMMA SetPublishedIs ==
  ASSUME NEW e, EntryOK(e), NEW n \in Nets, NEW m, NEW state,
         NEW d, d = SetPublished(e, n, m, state)
  PROVE  /\ EntryOK(d) /\ d.superseded = e.superseded
         /\ d.published[n].state = state
         /\ \A k \in Nets \ {n} : d.published[k] = e.published[k]
<1> DEFINE pub == [state |-> state, moved |-> AsksMoved(n, m)]
           pubs == [e.published EXCEPT ![n] = pub]
<1>1. d = [e EXCEPT !.published = pubs]
  BY DEF SetPublished, EntryOK
<1>2. pubs = [k \in Nets |-> pubs[k]] /\ pubs[n] = pub
      /\ \A k \in Nets \ {n} : pubs[k] = e.published[k]
  BY DEF EntryOK
<1>3. pub.state = state
  OBVIOUS
<1> HIDE DEF pubs, pub
<1>4. /\ d.superseded = e.superseded /\ d.published = pubs
      /\ d = [superseded |-> d.superseded, upstream |-> d.upstream, published |-> d.published]
  BY <1>1 DEF EntryOK
<1> QED BY <1>2, <1>3, <1>4 DEF EntryOK

\* What is called live of a file with one status written.
LEMMA CatalogWithStatus ==
  ASSUME CatalogInv, NEW file, CatalogFits(file), NEW n \in Nets, NEW S, NEW st,
         NEW next,
         next = [m \in DOMAIN file |-> IF m \in S THEN SetPublished(file[m], n, m, st[m])
                                       ELSE file[m]],
         \A m \in S \cap DOMAIN file : st[m] = "live" => chain[n][m] = "live",
         \A m \in S \cap DOMAIN file : StillLive(n, m, st[m] = "live")
  PROVE  CatalogFits(next)
<1>1. DOMAIN next = DOMAIN file /\ next = [m \in DOMAIN next |-> next[m]]
  OBVIOUS
<1>2. \A m \in DOMAIN file \ S : next[m] = file[m]
  OBVIOUS
<1>3. \A m \in DOMAIN file \cap S : next[m] = SetPublished(file[m], n, m, st[m])
  OBVIOUS
<1>4. ASSUME NEW m \in DOMAIN file
      PROVE  /\ EntryOK(next[m]) /\ next[m].superseded = file[m].superseded
             /\ m \in S => next[m].published[n].state = st[m]
             /\ m \notin S => next[m] = file[m]
             /\ \A k \in Nets \ {n} : next[m].published[k] = file[m].published[k]
  <2>1. EntryOK(file[m])
    BY DEF CatalogFits, FileOK
  <2>2. CASE m \in S
    <3>1. next[m] = SetPublished(file[m], n, m, st[m])
      BY <1>3, <2>2
    <3> HIDE DEF CatalogInv
    <3> QED BY <2>1, <2>2, <3>1, SetPublishedIs
  <2>3. CASE m \notin S
    BY <1>2, <2>1, <2>3
  <2> QED BY <2>2, <2>3
<1>5. FileOK(next)
  BY <1>1, <1>4 DEF FileOK
<1>6. \A k \in Nets, m \in DOMAIN file : SaysLive(next, k, m) <=>
         IF k = n /\ m \in S THEN st[m] = "live" ELSE SaysLive(file, k, m)
  BY <1>1, <1>4 DEF SaysLive
<1>7. Reports(next)
  BY <1>1, <1>6 DEF Reports, CatalogFits, SaysLive
<1>8. \A k \in Nets, m \in DOMAIN file : StillLive(k, m, SaysLive(next, k, m))
  BY <1>6 DEF CatalogFits, StillLive
<1>9. \A m \in DOMAIN file : next[m].superseded = (m \notin clone.tree)
  BY <1>4 DEF CatalogFits
<1> QED BY <1>1, <1>5, <1>7, <1>8, <1>9 DEF CatalogFits

LEMMA CatalogStarts == CatalogInit => CatalogInv
<1> SUFFICES ASSUME CatalogInit PROVE CatalogInv
  OBVIOUS
<1>1. main.file = <<>> /\ DOMAIN main.file = {} /\ main.rev = 0 /\ main.tree = Initial
      /\ main.pinned = {} /\ clone = main
      /\ main = [tree |-> main.tree, pinned |-> main.pinned, file |-> main.file,
                 rev |-> main.rev, merges |-> main.merges]
  BY DEF CatalogInit
<1>2. main.file = [m \in DOMAIN main.file |-> main.file[m]]
  BY <1>1
<1>3. RepoOK(main) /\ RepoOK(clone)
  <2>1. Known(main) \subseteq Mods
    BY <1>1, CatalogAssumption DEF Known
  <2>2. FileOK(main.file)
    BY <1>1, <1>2 DEF FileOK
  <2> QED BY <1>1, <2>1, <2>2 DEF RepoOK
<1>4. /\ ci = [pc |-> ci.pc, attempt |-> ci.attempt, rest |-> ci.rest,
              answered |-> ci.answered, draft |-> ci.draft, ask |-> ci.ask]
      /\ ci.pc = "idle" /\ ci.ask = NoAsk
  BY DEF CatalogInit, NoCI
<1>5. AskOK(ci.ask) /\ ci.ask.net = "none" /\ ci.ask.index = "none"
  BY <1>4 DEF AskOK, NoAsk
<1>6. chain = [n \in Nets |-> chain[n]] /\ \A n \in Nets : chain[n] = [m \in Mods |-> chain[n][m]]
      /\ \A k \in Nets, x \in Mods : chain[k][x] \in Standing
  BY DEF CatalogInit, Standing
<1>7. Reports(main.file)
  BY <1>1 DEF Reports, SaysLive
<1> QED BY <1>1, <1>3, <1>4, <1>5, <1>6, <1>7 DEF CatalogInv, ListedLive

\* What moves on the chains, and on main by merges, leaves what the workflow holds.
LEMMA MergesKeepTheCatalog ==
  ASSUME CatalogInv, NEW trees, NEW pins, Merge(trees, pins), trees \cup pins \subseteq Mods
  PROVE  CatalogInv' /\ main'.file = main.file
<1> DEFINE d == main'
<1>1. d = [main EXCEPT !.tree = trees, !.pinned = pins, !.rev = @ + 1, !.merges = @ + 1]
      /\ UNCHANGED <<chain, clone, synced, ci>>
  BY DEF Merge
<1>2. d = [tree |-> d.tree, pinned |-> d.pinned, file |-> d.file, rev |-> d.rev,
           merges |-> d.merges]
      /\ d.tree = trees /\ d.pinned = pins /\ d.file = main.file /\ d.rev = main.rev + 1
  BY <1>1 DEF CatalogInv, RepoOK
<1> HIDE DEF d
<1>3. RepoOK(d)
  BY <1>2 DEF CatalogInv, RepoOK, Known
<1>4. RepoOK(main)'
  BY <1>3 DEF RepoOK, FileOK, EntryOK, Known, d
<1>5. main'.file = main.file /\ main'.rev = main.rev + 1
  BY <1>2 DEF d
<1>6. \A n, m, says : StillLive(n, m, says)' <=> StillLive(n, m, says)
  BY <1>1, <1>5 DEF StillLive, SaysLive
<1>7. UNCHANGED <<RepoOK(clone), AskOK(ci.ask)>>
      /\ Reports(main.file)' = Reports(main.file)
  BY <1>1, <1>5 DEF RepoOK, FileOK, EntryOK, Known, AskOK, Reports, SaysLive
<1>8. CatalogFits(clone.file)' = CatalogFits(clone.file) /\ CatalogFits(ci.draft)' = CatalogFits(ci.draft)
  BY <1>1, <1>5 DEF CatalogFits, FileOK, EntryOK, Reports, SaysLive, Known, StillLive
<1>9. ListedLive(ci.ask)' = ListedLive(ci.ask)
  BY <1>1, <1>5 DEF ListedLive, Probed, StillLive, SaysLive
<1>10. ~(clone'.rev = main'.rev) /\ clone'.rev <= main'.rev
  BY <1>1, <1>5 DEF CatalogInv, RepoOK
<1> QED BY <1>1, <1>4, <1>5, <1>7, <1>8, <1>9, <1>10 DEF CatalogInv

LEMMA ChainsKeepTheCatalog ==
  ASSUME CatalogInv, NEW n \in Nets, NEW m \in Mods, NEW as \in {"inert", "live"},
         Publish(n, m, as) \/ Approve(n, m)
  PROVE  CatalogInv' /\ main' = main
<1>1. UNCHANGED <<main, clone, synced, ci>>
  BY DEF Publish, Approve
<1>2. /\ chain' = [k \in Nets |-> chain'[k]]
      /\ \A k \in Nets : chain'[k] = [x \in Mods |-> chain'[k][x]]
      /\ \A k \in Nets, x \in Mods : chain[k][x] = "live" => chain'[k][x] = "live"
      /\ \A k \in Nets, x \in Mods : chain'[k][x] \in Standing
  <2> DEFINE Column(s) == [chain[n] EXCEPT ![m] = s]
  <2>1. PICK s \in Standing : chain' = [chain EXCEPT ![n] = Column(s)] /\ chain[n][m] # "live"
    BY DEF Publish, Approve, Standing
  <2>2. /\ Column(s) = [x \in Mods |-> Column(s)[x]]
        /\ \A x \in Mods : chain[n][x] = "live" => Column(s)[x] = "live"
        /\ \A x \in Mods : Column(s)[x] \in Standing
    BY <2>1 DEF CatalogInv
  <2> HIDE DEF Column
  <2>3. \A k \in Nets : chain'[k] = IF k = n THEN Column(s) ELSE chain[k]
    BY <2>1 DEF CatalogInv
  <2>4. chain' = [k \in Nets |-> chain'[k]]
    BY <2>1 DEF CatalogInv
  <2>5. /\ \A k \in Nets : chain[k] = [x \in Mods |-> chain[k][x]]
        /\ \A k \in Nets, x \in Mods : chain[k][x] \in Standing
    BY DEF CatalogInv
  <2> QED BY ONLY <2>2, <2>3, <2>4, <2>5, n \in Nets
<1>3. \A file : Reports(file) => Reports(file)'
  BY <1>2 DEF Reports, SaysLive
<1>4. \A k, x, says : StillLive(k, x, says)' <=> StillLive(k, x, says)
  BY <1>1 DEF StillLive, SaysLive
<1>5. Reports(main.file)' /\ (CatalogFits(clone.file) => CatalogFits(clone.file)')
      /\ (CatalogFits(ci.draft) => CatalogFits(ci.draft)')
  <2>1. ASSUME NEW file, CatalogFits(file) PROVE CatalogFits(file)'
    <3>1. Reports(file)'
      BY <1>3, <2>1 DEF CatalogFits
    <3>2. (\A k \in Nets, x \in DOMAIN file : StillLive(k, x, SaysLive(file, k, x)))'
      BY <1>4, <2>1 DEF CatalogFits, SaysLive
    <3>3. (DOMAIN file = Known(clone))'
      BY <1>1, <2>1 DEF CatalogFits, Known
    <3> QED BY <1>1, <2>1, <3>1, <3>2, <3>3 DEF CatalogFits
  <2> QED BY <1>1, <1>3, <2>1 DEF CatalogInv
<1>6. ListedLive(ci.ask)'
  <2> SUFFICES ASSUME ci.ask.index = "live" PROVE ListedLive(ci.ask)'
    BY <1>1 DEF ListedLive
  <2>1. ci.ask.net \in Nets /\ ListedLive(ci.ask)
    BY DEF CatalogInv, AskOK
  <2>2. ci.ask.live \subseteq Mods
    BY <2>1 DEF ListedLive
  <2> QED BY <1>1, <1>2, <2>1, <2>2 DEF ListedLive, Probed, StillLive, SaysLive
<1>7. UNCHANGED <<RepoOK(clone), RepoOK(main), AskOK(ci.ask)>>
  BY <1>1 DEF RepoOK, FileOK, EntryOK, Known, AskOK
<1> QED BY <1>1, <1>2, <1>5, <1>6, <1>7 DEF CatalogInv

\* The same, of the predicates of a file, when main's catalog and the checkout stay.
LEMMA FileStays ==
  ASSUME UNCHANGED <<main, clone, chain>>
  PROVE  /\ \A file : CatalogFits(file)' <=> CatalogFits(file)
         /\ Reports(main.file)' = Reports(main.file)
         /\ RepoOK(main)' = RepoOK(main) /\ RepoOK(clone)' = RepoOK(clone)
  BY DEF CatalogFits, FileOK, EntryOK, Reports, SaysLive, Known, StillLive, RepoOK

\* What is left of the invariant when only the job moves.
JobOK(c) ==
    /\ c = [pc |-> c.pc, attempt |-> c.attempt, rest |-> c.rest,
            answered |-> c.answered, draft |-> c.draft, ask |-> c.ask]
    /\ c.pc \in {"sync", "manifest"} => clone.file = main.file
    /\ c.pc \in {"status", "push"} => CatalogFits(clone.file)
    /\ c.pc = "status" => CatalogFits(c.draft) /\ c.rest \subseteq Nets
    /\ AskOK(c.ask) /\ (c.ask.net # "none" => c.pc = "status")
    /\ c.ask.index = "live" =>
          /\ \A m \in c.ask.live : m \in Mods /\ chain[c.ask.net][m] = "live"
          /\ \A m \in DOMAIN c.draft \ Drafts : StillLive(c.ask.net, m, m \in c.ask.live)

LEMMA JobOfCatalog == CatalogInv => JobOK(ci)
  BY DEF CatalogInv, JobOK, ListedLive, Probed

LEMMA OnlyTheJobMoves ==
  ASSUME CatalogInv, UNCHANGED <<main, chain, clone>>, NEW c, c = ci', JobOK(c)
  PROVE  CatalogInv'
<1>1. UNCHANGED <<Reports(main.file), RepoOK(main), RepoOK(clone)>>
      /\ (\A file : CatalogFits(file)' <=> CatalogFits(file))
  BY FileStays
<1>2. \A n, m, says : StillLive(n, m, says)' <=> StillLive(n, m, says)
  BY DEF StillLive, SaysLive
<1>4. /\ ci' = [pc |-> ci'.pc, attempt |-> ci'.attempt, rest |-> ci'.rest,
               answered |-> ci'.answered, draft |-> ci'.draft, ask |-> ci'.ask]
      /\ ci'.pc \in {"sync", "manifest"} => clone'.file = main'.file
      /\ ci'.pc \in {"status", "push"} => CatalogFits(clone'.file)
      /\ ci'.pc = "status" => CatalogFits(ci'.draft) /\ ci'.rest \subseteq Nets
      /\ AskOK(ci'.ask) /\ (ci'.ask.net # "none" => ci'.pc = "status")
  BY DEF JobOK
<1>5. AskOK(ci.ask)'
  BY <1>4 DEF AskOK
<1>6. ListedLive(ci.ask)'
  BY <1>2 DEF JobOK, ListedLive, Probed
<1>7. (ci.pc \in {"status", "push"} => CatalogFits(clone.file))'
      /\ (ci.pc = "status" => CatalogFits(ci.draft) /\ ci.rest \subseteq Nets)'
  BY <1>1, <1>4 DEF CatalogFits, FileOK, EntryOK, Reports, SaysLive, Known, StillLive
<1> QED BY <1>1, <1>4, <1>5, <1>6, <1>7 DEF CatalogInv

LEMMA NoAskIsOK == AskOK(NoAsk) /\ NoAsk.net = "none" /\ NoAsk.index = "none"
  BY DEF NoAsk, AskOK

LEMMA SyncKeepsTheCatalog ==
  ASSUME CatalogInv, Sync \/ SkipSync \/ NextNet \/ StatusFails
  PROVE  CatalogInv' /\ main' = main
<1> PICK c : c = ci'
  OBVIOUS
<1>1. UNCHANGED <<main, chain, clone>>
  BY DEF Sync, SkipSync, NextNet, StatusFails
<1>2. JobOK(ci)
  BY JobOfCatalog
<1>3. JobOK(c)
  <2>1. CASE Sync \/ SkipSync
    <3>1. c = [ci EXCEPT !.pc = "manifest"] /\ ci.pc = "sync"
      BY <2>1 DEF Sync, SkipSync, At
    <3>2. /\ c = [pc |-> c.pc, attempt |-> c.attempt, rest |-> c.rest,
                 answered |-> c.answered, draft |-> c.draft, ask |-> c.ask]
          /\ c.pc = "manifest" /\ c.ask = ci.ask /\ c.draft = ci.draft
      BY <1>2, <3>1 DEF JobOK
    <3>3. c.ask.net = "none" /\ c.ask.index = "none"
      BY <1>2, <3>1, <3>2 DEF JobOK, AskOK
    <3> QED BY <1>2, <3>1, <3>2, <3>3 DEF JobOK
  <2>2. CASE NextNet
    <3>1. c = [ci EXCEPT !.ask = NoAsk] /\ ci.ask.index = "failed"
      BY <2>2 DEF NextNet
    <3>2. /\ c = [pc |-> c.pc, attempt |-> c.attempt, rest |-> c.rest,
                 answered |-> c.answered, draft |-> c.draft, ask |-> c.ask]
          /\ c.pc = ci.pc /\ c.ask = NoAsk /\ c.draft = ci.draft /\ c.rest = ci.rest
      BY <1>2, <3>1 DEF JobOK
    <3> QED BY <1>2, <3>2, NoAskIsOK DEF JobOK
  <2>3. CASE StatusFails
    <3>1. c = [ci EXCEPT !.pc = "push", !.ask = NoAsk] /\ ci.pc = "status"
      BY <2>3 DEF StatusFails
    <3>2. /\ c = [pc |-> c.pc, attempt |-> c.attempt, rest |-> c.rest,
                 answered |-> c.answered, draft |-> c.draft, ask |-> c.ask]
          /\ c.pc = "push" /\ c.ask = NoAsk
      BY <1>2, <3>1 DEF JobOK
    <3> QED BY <1>2, <3>1, <3>2, NoAskIsOK DEF JobOK
  <2> QED BY <2>1, <2>2, <2>3
<1> QED BY <1>1, <1>3, OnlyTheJobMoves

\* The next network: all it knows is who is to be asked.
LEMMA ReachKeepsTheCatalog ==
  ASSUME CatalogInv, NEW n \in Nets, Reach(n)
  PROVE  CatalogInv' /\ main' = main
<1> PICK c : c = ci'
  OBVIOUS
<1>1. UNCHANGED <<main, chain, clone>> /\ ci.pc = "status"
  BY DEF Reach
<1>2. JobOK(ci)
  BY JobOfCatalog
<1>3. PICK r, a, k : /\ c = [ci EXCEPT !.rest = r, !.answered = a, !.ask = k]
                     /\ r \subseteq Nets /\ AskOK(k) /\ k.index = "none"
  <2>1. CASE ci' = [ci EXCEPT !.rest = @ \ {n}]
    <3>1. c = [ci EXCEPT !.rest = ci.rest \ {n}, !.answered = ci.answered, !.ask = ci.ask]
      BY <1>2, <2>1 DEF JobOK
    <3>2. ci.ask.index = "none" /\ ci.rest \ {n} \subseteq Nets /\ AskOK(ci.ask)
      BY <1>1, <1>2 DEF JobOK, AskOK, Reach
    <3> DEFINE left == ci.rest \ {n}
    <3>3. c = [ci EXCEPT !.rest = left, !.answered = ci.answered, !.ask = ci.ask]
          /\ left \subseteq Nets
      BY <3>1, <3>2
    <3> HIDE DEF left
    <3> QED BY <3>2, <3>3
  <2>2. CASE ci' = [ci EXCEPT !.rest = @ \ {n}, !.answered = @ \cup {n},
                       !.ask = [NoAsk EXCEPT !.net = n, !.todo = Probed]]
    <3>p. PICK todo : todo = Probed
      OBVIOUS
    <3>k. PICK k : k = [NoAsk EXCEPT !.net = n, !.todo = todo]
      OBVIOUS
    <3>0. k = [net |-> n, todo |-> todo, index |-> "none", live |-> {}, streak |-> 0]
      BY ONLY <3>k DEF NoAsk
    <3>1. AskOK(k) /\ k.index = "none"
      BY <3>0 DEF AskOK
    <3>2. c = [ci EXCEPT !.rest = ci.rest \ {n}, !.answered = ci.answered \cup {n}, !.ask = k]
      BY <2>2, <3>p, <3>k
    <3>3. ci.rest \ {n} \subseteq Nets
      BY <1>1, <1>2 DEF JobOK
    <3> QED BY <3>1, <3>2, <3>3
  <2> QED BY <2>1, <2>2 DEF Reach
<1>4. /\ c = [pc |-> c.pc, attempt |-> c.attempt, rest |-> c.rest,
             answered |-> c.answered, draft |-> c.draft, ask |-> c.ask]
      /\ c.pc = "status" /\ c.ask = k /\ c.draft = ci.draft /\ c.rest = r
  BY <1>1, <1>2, <1>3 DEF JobOK
<1>5. JobOK(c)
  BY <1>1, <1>2, <1>3, <1>4 DEF JobOK
<1> QED BY <1>1, <1>5, OnlyTheJobMoves

\* A path that is live is asked for, unless it is at a moved one and superseded.
LEMMA TruthOfTheLive ==
  ASSUME CatalogInv, NEW n \in Nets, NEW m \in Mods
  PROVE  /\ Truth(n, m) = "live" => chain[n][m] = "live"
         /\ StillLive(n, m, Truth(n, m) = "live")
  BY DEF CatalogInv, Reports, StillLive, SaysLive, Truth, AsksMoved

LEMMA DraftOfTheStatus ==
  ASSUME CatalogInv, ci.ask.net # "none"
  PROVE  /\ ci.pc = "status" /\ ci.ask.net \in Nets /\ CatalogFits(ci.draft)
         /\ ci.rest \subseteq Nets /\ DOMAIN ci.draft \subseteq Mods
         /\ Probed = DOMAIN ci.draft \ Drafts
  BY DEF CatalogInv, AskOK, CatalogFits, RepoOK, Probed

LEMMA AskThatListed ==
  ASSUME NEW a, AskOK(a), NEW here, NEW k, k = [a EXCEPT !.index = "live", !.live = here]
  PROVE  k = [net |-> a.net, todo |-> a.todo, index |-> "live", live |-> here,
              streak |-> a.streak]
  BY DEF AskOK

LEMMA AskThatProbed ==
  ASSUME NEW a, AskOK(a), NEW todo, NEW streak,
         NEW k, k = [a EXCEPT !.todo = todo, !.streak = streak]
  PROVE  k = [net |-> a.net, todo |-> todo, index |-> a.index, live |-> a.live,
              streak |-> streak]
  BY DEF AskOK

LEMMA ListingKeepsTheCatalog ==
  ASSUME CatalogInv, QueryLive
  PROVE  CatalogInv' /\ main' = main
<1> PICK c : c = ci'
  OBVIOUS
<1> DEFINE n == ci.ask.net
<1>1. UNCHANGED <<main, chain, clone>> /\ n # "none"
  BY DEF QueryLive
<1>2. JobOK(ci)
  BY JobOfCatalog
<1>3. /\ ci.pc = "status" /\ n \in Nets /\ CatalogFits(ci.draft) /\ ci.rest \subseteq Nets
      /\ DOMAIN ci.draft \subseteq Mods /\ Probed = DOMAIN ci.draft \ Drafts
  BY <1>1, DraftOfTheStatus
<1>4. PICK k : /\ c = [ci EXCEPT !.ask = k] /\ AskOK(k) /\ k.net = n
               /\ \/ k.index = "failed"
                  \/ k.index = "live" /\ k.live = {m \in Probed : Truth(n, m) = "live"}
  <2> DEFINE here == {m \in Probed : Truth(n, m) = "live"}
             k1 == [ci.ask EXCEPT !.index = "live", !.live = here]
             k2 == [ci.ask EXCEPT !.index = "failed"]
  <2>1. CASE c = [ci EXCEPT !.ask.index = "live", !.ask.live = here]
    <3>1. c = [ci EXCEPT !.ask = k1]
      BY <1>2, <2>1 DEF JobOK
    <3> HIDE DEF here
    <3>a. AskOK(ci.ask) /\ k1 = [ci.ask EXCEPT !.index = "live", !.live = here]
      BY <1>2 DEF JobOK
    <3> HIDE DEF k1
    <3>2. /\ k1 = [net |-> n, todo |-> ci.ask.todo, index |-> "live", live |-> here,
                   streak |-> ci.ask.streak]
      BY <3>a, AskThatListed
    <3>3. AskOK(k1) /\ k1.net = n /\ k1.index = "live" /\ k1.live = here
      BY <1>1, <1>3, <3>2 DEF AskOK
    <3> HIDE DEF k1
    <3> QED BY <3>1, <3>3 DEF here
  <2>2. CASE c = [ci EXCEPT !.ask.index = "failed"]
    <3>1. c = [ci EXCEPT !.ask = k2]
      BY <1>2, <2>2 DEF JobOK
    <3>2. /\ k2 = [net |-> n, todo |-> ci.ask.todo, index |-> "failed", live |-> ci.ask.live,
                   streak |-> ci.ask.streak]
      BY <1>2 DEF JobOK, AskOK
    <3>3. AskOK(k2) /\ k2.net = n /\ k2.index = "failed"
      BY <1>1, <1>3, <3>2 DEF AskOK
    <3> HIDE DEF k2
    <3> QED BY <3>1, <3>3
  <2> QED BY <2>1, <2>2 DEF QueryLive
<1>5. /\ c = [pc |-> c.pc, attempt |-> c.attempt, rest |-> c.rest,
             answered |-> c.answered, draft |-> c.draft, ask |-> c.ask]
      /\ c.pc = "status" /\ c.ask = k /\ c.draft = ci.draft /\ c.rest = ci.rest
  BY <1>2, <1>3, <1>4 DEF JobOK
<1>6. c.ask.index = "live" =>
          /\ \A m \in c.ask.live : m \in Mods /\ chain[c.ask.net][m] = "live"
          /\ \A m \in DOMAIN c.draft \ Drafts : StillLive(c.ask.net, m, m \in c.ask.live)
  <2> SUFFICES ASSUME k.index = "live"
               PROVE  /\ \A m \in k.live : m \in Mods /\ chain[n][m] = "live"
                      /\ \A m \in Probed : StillLive(n, m, m \in k.live)
    BY <1>3, <1>4, <1>5
  <2>1. k.live = {m \in Probed : Truth(n, m) = "live"} /\ Probed \subseteq Mods
    BY <1>3, <1>4
  <2>2. \A m \in Probed : StillLive(n, m, Truth(n, m) = "live")
                          /\ (Truth(n, m) = "live" => chain[n][m] = "live")
    BY <1>3, <2>1, TruthOfTheLive
  <2> QED BY <2>1, <2>2 DEF StillLive
<1>7. JobOK(c)
  BY <1>2, <1>3, <1>4, <1>5, <1>6 DEF JobOK
<1> QED BY <1>1, <1>7, OnlyTheJobMoves

\* A job with a draft of its own, that asks nobody or goes on asking one by one.
LEMMA DraftMoves ==
  ASSUME CatalogInv, UNCHANGED <<main, chain, clone>>, ci.ask.net # "none",
         NEW draft, CatalogFits(draft), NEW k, AskOK(k), k.index # "live",
         ci' = [ci EXCEPT !.ask = k, !.draft = draft]
  PROVE  CatalogInv'
<1> PICK c : c = ci'
  OBVIOUS
<1>1. JobOK(ci) /\ ci.pc = "status" /\ ci.rest \subseteq Nets
  BY JobOfCatalog, DraftOfTheStatus
<1>2. /\ c = [pc |-> c.pc, attempt |-> c.attempt, rest |-> c.rest,
             answered |-> c.answered, draft |-> c.draft, ask |-> c.ask]
      /\ c.pc = "status" /\ c.ask = k /\ c.draft = draft /\ c.rest = ci.rest
  BY <1>1 DEF JobOK
<1>3. JobOK(c)
  BY <1>1, <1>2 DEF JobOK
<1> QED BY <1>3, OnlyTheJobMoves

LEMMA ParkedKeepsTheCatalog ==
  ASSUME CatalogInv, QueryParked
  PROVE  CatalogInv' /\ main' = main
<1> DEFINE n == ci.ask.net
<1>1. UNCHANGED <<main, chain, clone>> /\ ci.ask.index = "live" /\ n # "none"
  BY DEF QueryParked, CatalogInv, AskOK
<1>2. JobOK(ci)
  BY JobOfCatalog
<1>3. /\ ci.pc = "status" /\ n \in Nets /\ CatalogFits(ci.draft)
      /\ DOMAIN ci.draft \subseteq Mods /\ Probed = DOMAIN ci.draft \ Drafts
  BY <1>1, DraftOfTheStatus
<1>4. CASE ci' = [ci EXCEPT !.ask.index = "failed"]
  <2> DEFINE k1 == [ci.ask EXCEPT !.index = "failed"]
  <2>1. AskOK(ci.ask) /\ ci' = [ci EXCEPT !.ask = k1, !.draft = ci.draft]
    BY <1>2, <1>4 DEF JobOK
  <2>2. k1 = [net |-> n, todo |-> ci.ask.todo, index |-> "failed", live |-> ci.ask.live,
              streak |-> ci.ask.streak]
    BY <2>1 DEF AskOK
  <2>3. AskOK(k1) /\ k1.index = "failed"
    BY <1>1, <1>3, <2>2 DEF AskOK
  <2> HIDE DEF k1
  <2> QED BY <1>1, <1>3, <2>1, <2>3, DraftMoves
<1>5. CASE ci' = [ci EXCEPT !.ask = NoAsk, !.draft =
                   [m \in DOMAIN @ |-> IF m \in Probed
                                       THEN SetPublished(@[m], ci.ask.net, m, Lookup(m))
                                       ELSE @[m]]]
  <2> DEFINE st == [m \in Probed |-> Lookup(m)]
             file == ci.draft
             next == [m \in DOMAIN file |-> IF m \in Probed THEN SetPublished(file[m], n, m, st[m])
                                            ELSE file[m]]
  <2>1. \A m \in Probed : (st[m] = "live") <=> (m \in ci.ask.live)
    BY DEF Lookup
  <2>2. ci' = [ci EXCEPT !.ask = NoAsk, !.draft = next]
    BY <1>5
  <2>3. ListedLive(ci.ask)
    BY DEF CatalogInv
  <2>4. \A m \in Probed \cap DOMAIN file : st[m] = "live" => chain[n][m] = "live"
    BY <1>1, <2>1, <2>3 DEF ListedLive
  <2>5. \A m \in Probed \cap DOMAIN file : StillLive(n, m, st[m] = "live")
    BY <1>1, <2>1, <2>3 DEF ListedLive, StillLive
  <2>6. CatalogFits(next)
    <3> HIDE DEF st
    <3> PICK d : d = next
      OBVIOUS
    <3> QED BY <1>3, <2>4, <2>5, CatalogWithStatus
  <2> HIDE DEF next
  <2> QED BY <1>1, <2>2, <2>6, NoAskIsOK, DraftMoves
<1> QED BY <1>1, <1>4, <1>5 DEF QueryParked

LEMMA ProbeKeepsTheCatalog ==
  ASSUME CatalogInv, NEW x \in Mods, NEW heard \in BOOLEAN, Probe(x, heard)
  PROVE  CatalogInv' /\ main' = main
<1> DEFINE n == ci.ask.net
           v == Verdict(n, x, heard)
<1>1. UNCHANGED <<main, chain, clone>> /\ ci.ask.index = "failed" /\ n # "none"
  BY DEF Probe, CatalogInv, AskOK
<1>2. JobOK(ci) /\ AskOK(ci.ask)
  BY JobOfCatalog DEF JobOK
<1>3. /\ ci.pc = "status" /\ n \in Nets /\ CatalogFits(ci.draft)
      /\ DOMAIN ci.draft \subseteq Mods /\ Probed = DOMAIN ci.draft \ Drafts
  BY <1>1, DraftOfTheStatus
<1>4. CASE v = "unknown"
  <2> DEFINE k == [ci.ask EXCEPT !.todo = @ \ {x}, !.streak = @ + 1]
  <2>1. ci' = [ci EXCEPT !.ask = k, !.draft = ci.draft]
    <3>1. ci' = [ci EXCEPT !.ask.todo = @ \ {x}, !.ask.streak = @ + 1]
      BY <1>4 DEF Probe
    <3> QED BY <1>2, <3>1 DEF JobOK
  <2>2. k = [net |-> n, todo |-> ci.ask.todo \ {x}, index |-> "failed", live |-> ci.ask.live,
             streak |-> ci.ask.streak + 1]
    <3>1. k = [ci.ask EXCEPT !.todo = ci.ask.todo \ {x}, !.streak = ci.ask.streak + 1]
      OBVIOUS
    <3> HIDE DEF k
    <3>2. AskOK(ci.ask)
      BY <1>2
    <3>3. k = [net |-> ci.ask.net, todo |-> ci.ask.todo \ {x}, index |-> ci.ask.index,
               live |-> ci.ask.live, streak |-> ci.ask.streak + 1]
      BY ONLY <3>1, <3>2, AskThatProbed
    <3> QED BY <1>1, <3>3
  <2>3. AskOK(k) /\ k.index = "failed"
    BY <1>1, <1>3, <2>2 DEF AskOK
  <2> HIDE DEF k
  <2> QED BY <1>1, <1>3, <2>1, <2>3, DraftMoves
<1>5. CASE v # "unknown"
  <2> DEFINE k == [ci.ask EXCEPT !.todo = @ \ {x}, !.streak = 0]
             file == ci.draft
             st == [m \in {x} |-> v]
             next == [m \in DOMAIN file |-> IF m \in {x} THEN SetPublished(file[m], n, m, st[m])
                                            ELSE file[m]]
  <2>1. /\ ci' = [ci EXCEPT !.ask.todo = @ \ {x}, !.ask.streak = 0,
                     !.draft[x] = SetPublished(@, n, x, v)]
    BY <1>5 DEF Probe
  <2>2. file = [m \in DOMAIN file |-> file[m]]
    BY <1>3 DEF CatalogFits, FileOK
  <2>3. [file EXCEPT ![x] = SetPublished(@, n, x, v)] = next
    BY <2>2
  <2>4. ci' = [ci EXCEPT !.ask = k, !.draft = next]
    <3>1. ci' = [ci EXCEPT !.ask = k, !.draft = [file EXCEPT ![x] = SetPublished(@, n, x, v)]]
      BY <1>2, <2>1 DEF JobOK
    <3> QED BY <2>3, <3>1
  <2>5. k = [net |-> n, todo |-> ci.ask.todo \ {x}, index |-> "failed", live |-> ci.ask.live,
             streak |-> 0]
    <3>1. k = [ci.ask EXCEPT !.todo = ci.ask.todo \ {x}, !.streak = 0]
      OBVIOUS
    <3> HIDE DEF k
    <3>2. AskOK(ci.ask)
      BY <1>2
    <3>3. k = [net |-> ci.ask.net, todo |-> ci.ask.todo \ {x}, index |-> ci.ask.index,
               live |-> ci.ask.live, streak |-> 0]
      BY ONLY <3>1, <3>2, AskThatProbed
    <3> QED BY <1>1, <3>3
  <2>6. AskOK(k) /\ k.index = "failed"
    BY <1>1, <1>3, <2>5 DEF AskOK
  <2>7. v = Truth(n, x) /\ st[x] = v
    BY <1>5 DEF Verdict
  <2>8. (st[x] = "live" => chain[n][x] = "live") /\ StillLive(n, x, st[x] = "live")
    BY <1>3, <2>7, TruthOfTheLive DEF StillLive
  <2>9. CatalogFits(next)
    <3> HIDE DEF st
    <3>1. PICK S, v1, f1 : /\ S = {x} /\ v1 = st /\ f1 = file
      OBVIOUS
    <3>2. PICK d : d = [m \in DOMAIN f1 |-> IF m \in S THEN SetPublished(f1[m], n, m, v1[m])
                                             ELSE f1[m]]
      OBVIOUS
    <3>3. d = next
      BY <3>1, <3>2
    <3>4. /\ CatalogInv /\ CatalogFits(f1) /\ n \in Nets
          /\ \A m \in S \cap DOMAIN f1 : v1[m] = "live" => chain[n][m] = "live"
          /\ \A m \in S \cap DOMAIN f1 : StillLive(n, m, v1[m] = "live")
      BY <1>3, <2>8, <3>1
    <3> HIDE DEF next
    <3>5. CatalogFits(d)
      BY ONLY <3>2, <3>4, CatalogWithStatus
    <3> QED BY <3>3, <3>5
  <2> HIDE DEF next, k
  <2> QED BY <1>1, <2>4, <2>6, <2>9, DraftMoves
<1> QED BY <1>1, <1>4, <1>5

\* One save for the whole run.
LEMMA SaveKeepsTheCatalog ==
  ASSUME CatalogInv, Save
  PROVE  CatalogInv' /\ main' = main
<1> DEFINE k == clone'
<1>1. /\ UNCHANGED <<main, chain>> /\ ci.pc = "status" /\ ci.ask.net = "none"
      /\ ci' = [ci EXCEPT !.pc = "push"]
      /\ k = IF ci.answered = {} THEN clone ELSE [clone EXCEPT !.file = ci.draft]
  BY DEF Save, At
<1>2. JobOK(ci) /\ RepoOK(clone) /\ RepoOK(main) /\ Reports(main.file)
  BY JobOfCatalog DEF CatalogInv
<1>3. PICK f : /\ k = [tree |-> clone.tree, pinned |-> clone.pinned, file |-> f,
                       rev |-> clone.rev, merges |-> clone.merges]
               /\ CatalogFits(f)
  <2>1. CatalogFits(ci.draft) /\ CatalogFits(clone.file)
    BY <1>1, <1>2 DEF JobOK
  <2>2. CASE ci.answered = {}
    BY <1>1, <1>2, <2>1, <2>2 DEF RepoOK
  <2>3. CASE ci.answered # {}
    <3>1. k = [tree |-> clone.tree, pinned |-> clone.pinned, file |-> ci.draft,
               rev |-> clone.rev, merges |-> clone.merges]
      BY <1>1, <1>2, <2>3 DEF RepoOK
    <3> HIDE DEF k
    <3> QED BY <2>1, <3>1
  <2> QED BY <2>2, <2>3
<1> HIDE DEF k
<1>4. /\ k.tree = clone.tree /\ k.pinned = clone.pinned /\ k.file = f /\ k.rev = clone.rev
      /\ k = [tree |-> k.tree, pinned |-> k.pinned, file |-> k.file, rev |-> k.rev,
              merges |-> k.merges]
  BY <1>3
<1>5. RepoOK(k) /\ Known(k) = Known(clone)
  BY <1>2, <1>3, <1>4 DEF RepoOK, Known, CatalogFits
<1>6. PICK c : c = ci'
  OBVIOUS
<1>7. /\ c = [pc |-> c.pc, attempt |-> c.attempt, rest |-> c.rest,
             answered |-> c.answered, draft |-> c.draft, ask |-> c.ask]
      /\ c.pc = "push" /\ c.ask = ci.ask
  BY <1>1, <1>2, <1>6 DEF JobOK
<1>8. clone'.tree = clone.tree /\ clone'.pinned = clone.pinned /\ clone'.file = f
      /\ clone'.rev = clone.rev
  BY <1>4 DEF k
<1>9. CatalogFits(clone.file)'
  <2>1. Reports(f)'
    BY <1>1, <1>3 DEF CatalogFits, Reports
  <2>2. (\A n \in Nets, m \in DOMAIN f : StillLive(n, m, SaysLive(f, n, m)))'
    BY <1>1, <1>3, <1>8 DEF CatalogFits, StillLive
  <2>3. (DOMAIN f = Known(clone))' /\ (\A m \in DOMAIN f : f[m].superseded = (m \notin clone.tree))'
    BY <1>3, <1>8 DEF CatalogFits, Known
  <2>4. CatalogFits(f)'
    BY <1>3, <2>1, <2>2, <2>3 DEF CatalogFits
  <2> QED BY <1>8, <2>4
<1>10. RepoOK(clone)' /\ UNCHANGED <<RepoOK(main), Reports(main.file)>>
  <2>1. clone' = k
    BY DEF k
  <2>2. RepoOK(clone)'
    BY <1>5, <2>1
  <2> QED BY <1>1, <2>2 DEF RepoOK, Known, Reports
<1>11. AskOK(ci.ask)' /\ ListedLive(ci.ask)' /\ ci'.ask.net = "none"
  BY <1>1, <1>2, <1>6, <1>7 DEF JobOK, AskOK, ListedLive
<1> QED BY <1>1, <1>2, <1>6, <1>7, <1>8, <1>9, <1>10, <1>11 DEF CatalogInv, JobOK

\* The job starts over on the latest main.
LEMMA FetchKeepsTheCatalog ==
  ASSUME CatalogInv, Fetch
  PROVE  CatalogInv' /\ main' = main
<1>1. UNCHANGED <<main, chain>> /\ clone' = main
      /\ ci' = [NoCI EXCEPT !.pc = "sync", !.attempt = ci.attempt + 1]
  BY DEF Fetch
<1>2. RepoOK(main) /\ Reports(main.file)
  BY DEF CatalogInv
<1>3. PICK c : c = ci'
  OBVIOUS
<1>4. c = [pc |-> "sync", attempt |-> ci.attempt + 1, rest |-> {}, answered |-> {},
           draft |-> <<>>, ask |-> NoAsk]
  <2> PICK a : a = ci.attempt + 1
    OBVIOUS
  <2>1. c = [NoCI EXCEPT !.pc = "sync", !.attempt = a]
    BY <1>1, <1>3
  <2> QED BY <2>1 DEF NoCI
<1>5. RepoOK(main)' /\ RepoOK(clone)' /\ Reports(main.file)'
  BY <1>1, <1>2 DEF RepoOK, FileOK, EntryOK, Known, Reports, SaysLive
<1>6. AskOK(ci.ask)' /\ ListedLive(ci.ask)' /\ ci'.ask.net = "none"
  BY <1>3, <1>4, NoAskIsOK DEF AskOK, ListedLive
<1>7. ci' = [pc |-> ci'.pc, attempt |-> ci'.attempt, rest |-> ci'.rest,
             answered |-> ci'.answered, draft |-> ci'.draft, ask |-> ci'.ask]
      /\ ci'.pc = "sync"
  BY <1>3, <1>4
<1> QED BY <1>1, <1>2, <1>5, <1>6, <1>7 DEF CatalogInv, RepoOK

\* The manifest keeps what is recorded with the path, and misses no path.
LEMMA ManifestKeepsTheCatalog ==
  ASSUME CatalogInv, NEW readable \in BOOLEAN, Manifest(readable)
  PROVE  CatalogInv' /\ main' = main
<1>1. /\ UNCHANGED <<main, chain>> /\ ci.pc = "manifest"
  BY DEF Manifest
<1>2. JobOK(ci) /\ RepoOK(clone) /\ RepoOK(main) /\ Reports(main.file)
      /\ clone.file = main.file
  BY <1>1, JobOfCatalog DEF CatalogInv, JobOK
<1>3. CASE unmaterialized # {}
  <2> PICK c : c = ci'
    OBVIOUS
  <2>1. c = NoCI /\ UNCHANGED clone
    BY <1>3 DEF Manifest, End
  <2>2. c = [pc |-> "idle", attempt |-> 0, rest |-> {}, answered |-> {}, draft |-> <<>>,
             ask |-> NoAsk]
    BY <2>1 DEF NoCI
  <2>3. JobOK(c)
    BY <2>2, NoAskIsOK DEF JobOK
  <2> QED BY <1>1, <2>1, <2>3, OnlyTheJobMoves
<1>4. CASE unmaterialized = {}
  <2>1. scanContracts = Known(clone) /\ Known(clone) \subseteq Mods
    BY <1>2, <1>4 DEF unmaterialized, scanContracts, Known, RepoOK
  <2> PICK f : f = [m \in scanContracts |-> Reconciled(m, readable)]
    OBVIOUS
  <2> PICK k, c : k = clone' /\ c = ci'
    OBVIOUS
  <2>2. /\ k = [clone EXCEPT !.file = f]
        /\ c = [ci EXCEPT !.pc = "status", !.rest = Nets, !.draft = k.file]
    BY <1>4 DEF Manifest
  <2>3. /\ k = [tree |-> k.tree, pinned |-> k.pinned, file |-> k.file, rev |-> k.rev,
                merges |-> k.merges]
        /\ k.tree = clone.tree /\ k.pinned = clone.pinned /\ k.file = f /\ k.rev = clone.rev
    BY <1>2, <2>2 DEF RepoOK
  <2>4. /\ c = [pc |-> c.pc, attempt |-> c.attempt, rest |-> c.rest,
               answered |-> c.answered, draft |-> c.draft, ask |-> c.ask]
        /\ c.pc = "status" /\ c.ask = ci.ask /\ c.draft = f /\ c.rest = Nets
    BY <1>2, <2>2, <2>3 DEF JobOK
  <2>5. DOMAIN f = Known(clone) /\ f = [m \in DOMAIN f |-> f[m]]
    BY <2>1
  <2>6. ASSUME NEW m \in DOMAIN f
        PROVE  /\ EntryOK(f[m]) /\ f[m].superseded = (m \notin clone.tree)
               /\ \A n \in Nets : f[m].published[n].state = "live" <=> SaysLive(clone.file, n, m)
    <3> DEFINE old == IF m \in DOMAIN clone.file THEN clone.file[m]
                      ELSE [upstream |-> FALSE, published |-> [n \in Nets |-> NoPub]]
               up == IF readable THEN m \in InMonorepo ELSE old.upstream
               out == m \notin clone.tree
    <3>1. f[m] = [superseded |-> out, upstream |-> up, published |-> old.published]
      BY <2>5, <2>6 DEF Reconciled
    <3>2. /\ old.published = [n \in Nets |-> old.published[n]]
          /\ \A n \in Nets : old.published[n].state = "live" <=> SaysLive(clone.file, n, m)
      <4>1. CASE m \in DOMAIN clone.file
        BY <1>2, <4>1 DEF RepoOK, FileOK, EntryOK, SaysLive
      <4>2. CASE m \notin DOMAIN clone.file
        <5>1. old.published = [n \in Nets |-> NoPub] /\ NoPub.state = "absent"
          BY <4>2 DEF NoPub
        <5> HIDE DEF old
        <5> QED BY <4>2, <5>1 DEF SaysLive
      <4> QED BY <4>1, <4>2
    <3> HIDE DEF old, up, out
    <3>3. EntryOK(f[m]) /\ f[m].superseded = out /\ f[m].published = old.published
      BY <3>1, <3>2 DEF EntryOK
    <3> QED BY <3>2, <3>3 DEF out
  <2>7. \A n, m : m \in DOMAIN f /\ n \in Nets => (SaysLive(f, n, m) <=> SaysLive(main.file, n, m))
    BY <1>2, <2>6 DEF SaysLive
  <2>8. FileOK(f) /\ Reports(f)
    BY <1>2, <2>5, <2>6, <2>7 DEF FileOK, Reports, SaysLive
  <2>9. CatalogFits(f)
    BY <2>5, <2>6, <2>7, <2>8 DEF CatalogFits, StillLive
  <2>10. RepoOK(k)
    BY <1>2, <2>1, <2>3, <2>8 DEF RepoOK, Known
  <2>11. ci.ask.net = "none" /\ ci.ask.index = "none" /\ AskOK(ci.ask)
    BY <1>1, <1>2 DEF JobOK, AskOK
  <2>12. clone'.tree = clone.tree /\ clone'.pinned = clone.pinned /\ clone'.file = f
         /\ clone'.rev = clone.rev /\ ci'.draft = f /\ ci'.rest = Nets /\ ci'.pc = "status"
         /\ ci'.ask = ci.ask
    BY <2>3, <2>4
  <2>13. CatalogFits(clone.file)' /\ CatalogFits(ci.draft)'
    BY <1>1, <2>9, <2>12 DEF CatalogFits, FileOK, EntryOK, Reports, SaysLive, Known, StillLive
  <2>14. RepoOK(clone)' /\ UNCHANGED <<RepoOK(main), Reports(main.file)>>
    BY <1>1, <2>10 DEF RepoOK, FileOK, EntryOK, Known, Reports, SaysLive
  <2>15. AskOK(ci.ask)' /\ ListedLive(ci.ask)'
    BY <2>11, <2>12 DEF AskOK, ListedLive
  <2> QED BY <1>1, <1>2, <2>4, <2>11, <2>12, <2>13, <2>14, <2>15 DEF CatalogInv
<1> QED BY <1>1, <1>3, <1>4

\* What is pushed is the catalog of the checkout, on the main it was made from.
LEMMA PushKeepsTheCatalog ==
  ASSUME CatalogInv, Push
  PROVE  CatalogInv'
<1> PICK d, c : d = main' /\ c = ci'
  OBVIOUS
<1>1. UNCHANGED <<chain, clone>> /\ ci.pc = "push"
  BY DEF Push
<1>2. JobOK(ci) /\ RepoOK(clone) /\ RepoOK(main) /\ CatalogFits(clone.file)
  BY <1>1, JobOfCatalog DEF CatalogInv, JobOK
<1>3. /\ c = [pc |-> c.pc, attempt |-> c.attempt, rest |-> c.rest,
             answered |-> c.answered, draft |-> c.draft, ask |-> c.ask]
      /\ c.pc \in {"idle", "rejected"} /\ AskOK(c.ask) /\ c.ask.net = "none" /\ c.ask.index = "none"
  <2>1. CASE c = NoCI
    BY <2>1, NoAskIsOK DEF NoCI
  <2>2. CASE c = [ci EXCEPT !.pc = "rejected"]
    BY <1>1, <1>2, <2>2 DEF JobOK, AskOK
  <2> QED BY <2>1, <2>2 DEF Push, End, At
<1>4. /\ d = [tree |-> main.tree, pinned |-> main.pinned, file |-> d.file, rev |-> main.rev,
              merges |-> main.merges]
      /\ d.file = main.file \/ d.file = clone.file
  <2>1. CASE d = main
    BY <1>2, <2>1 DEF RepoOK
  <2>2. CASE Accepted /\ d = [main EXCEPT !.tree = clone.tree, !.pinned = clone.pinned,
                                          !.file = clone.file]
    <3>1. clone.tree = main.tree /\ clone.pinned = main.pinned
      BY <2>2 DEF CatalogInv, Accepted
    <3> QED BY <1>2, <2>2, <3>1 DEF RepoOK
  <2> QED BY <2>1, <2>2 DEF Push
<1>5. /\ d.tree = main.tree /\ d.pinned = main.pinned /\ d.rev = main.rev
      /\ d = [tree |-> d.tree, pinned |-> d.pinned, file |-> d.file, rev |-> d.rev,
              merges |-> d.merges]
  BY <1>4
<1>6. FileOK(d.file) /\ Reports(d.file)
  BY <1>2, <1>4 DEF CatalogInv, CatalogFits, RepoOK
<1>7. RepoOK(d)
  BY <1>2, <1>5, <1>6 DEF RepoOK, Known
<1>8. RepoOK(main)' /\ Reports(main.file)' /\ RepoOK(clone)'
  BY <1>1, <1>2, <1>6, <1>7 DEF RepoOK, FileOK, EntryOK, Known, Reports, SaysLive
<1>9. main'.tree = main.tree /\ main'.pinned = main.pinned /\ main'.rev = main.rev
  BY <1>5
<1>10. AskOK(ci.ask)' /\ ListedLive(ci.ask)'
  BY <1>3 DEF AskOK, ListedLive
<1> QED BY <1>1, <1>3, <1>8, <1>9, <1>10 DEF CatalogInv

\* Only the push of a catalog changes what main's says.
LEMMA CatalogIsKept ==
  CatalogInv /\ [CatalogNext]_catalogVars
     => CatalogInv' /\ (main'.file = main.file \/ Push)
<1> SUFFICES ASSUME CatalogInv, [CatalogNext]_catalogVars
             PROVE  CatalogInv' /\ (main'.file = main.file \/ Push)
  OBVIOUS
<1>1. CASE UNCHANGED catalogVars
  <2>1. UNCHANGED <<main, chain, clone, ci>>
    BY <1>1 DEF catalogVars
  <2> PICK c : c = ci'
    OBVIOUS
  <2>2. JobOK(c)
    BY <2>1, JobOfCatalog
  <2> QED BY <2>1, <2>2, OnlyTheJobMoves
<1>2. ASSUME NEW m \in Mods, AddPackage(m) \/ Bump(m) \/ RemovePackage(m)
      PROVE  CatalogInv' /\ main'.file = main.file
  <2>1. Known(main) \subseteq Mods
    BY DEF CatalogInv, RepoOK
  <2>2. CASE AddPackage(m)
    BY <2>1, <2>2, MergesKeepTheCatalog DEF AddPackage, Known
  <2>3. CASE Bump(m)
    BY <2>1, <2>3, MergesKeepTheCatalog DEF Bump, Known
  <2>4. CASE RemovePackage(m)
    BY <2>1, <2>4, MergesKeepTheCatalog DEF RemovePackage, Known
  <2> QED BY <1>2, <2>2, <2>3, <2>4
<1>3. ASSUME NEW n \in Nets, NEW m \in Mods,
             Approve(n, m) \/ \E as \in {"inert", "live"} : Publish(n, m, as)
      PROVE  CatalogInv' /\ main'.file = main.file
  BY <1>3, ChainsKeepTheCatalog
<1>4. CASE Workflow
  <2>1. CASE Sync \/ SkipSync \/ NextNet \/ StatusFails
    BY <2>1, SyncKeepsTheCatalog
  <2>2. CASE Fetch
    BY <2>2, FetchKeepsTheCatalog
  <2>3. CASE QueryLive
    BY <2>3, ListingKeepsTheCatalog
  <2>4. CASE QueryParked
    BY <2>4, ParkedKeepsTheCatalog
  <2>5. CASE Save
    BY <2>5, SaveKeepsTheCatalog
  <2>6. CASE Push
    BY <2>6, PushKeepsTheCatalog
  <2>7. ASSUME NEW readable \in BOOLEAN, Manifest(readable) PROVE CatalogInv' /\ main' = main
    BY <2>7, ManifestKeepsTheCatalog
  <2>8. ASSUME NEW n \in Nets, Reach(n) PROVE CatalogInv' /\ main' = main
    BY <2>8, ReachKeepsTheCatalog
  <2>9. ASSUME NEW m \in Mods, NEW heard \in BOOLEAN, Probe(m, heard)
        PROVE  CatalogInv' /\ main' = main
    BY <2>9, ProbeKeepsTheCatalog
  <2> QED BY <1>4, <2>1, <2>2, <2>3, <2>4, <2>5, <2>6, <2>7, <2>8, <2>9 DEF Workflow
<1> QED BY <1>1, <1>2, <1>3, <1>4 DEF CatalogNext

\* What lands on main is the catalog of the tree it lands on.
LEMMA PushLandsAnHonestOne ==
  ASSUME CatalogInv, Push, main'.file # main.file
  PROVE  /\ <<main'.tree, main'.pinned>> = <<main.tree, main.pinned>>
         /\ DOMAIN main'.file = Known(main')
         /\ \A m \in DOMAIN main'.file : main'.file[m].superseded = (m \notin main'.tree)
         /\ \A m \in DOMAIN main.file \cap DOMAIN main'.file : \A n \in Nets :
               main.file[m].published[n].state = "live" =>
                  \/ main'.file[m].published[n].state = "live"
                  \/ <<n, m>> \in Moved /\ main'.file[m].superseded
<1>1. /\ Accepted /\ ci.pc = "push"
      /\ main' = [main EXCEPT !.tree = clone.tree, !.pinned = clone.pinned, !.file = clone.file]
  BY DEF Push
<1>2. CatalogFits(clone.file) /\ RepoOK(main) /\ clone.tree = main.tree
      /\ clone.pinned = main.pinned
  BY <1>1 DEF CatalogInv, Accepted
<1>3. main'.tree = main.tree /\ main'.pinned = main.pinned /\ main'.file = clone.file
  BY <1>1, <1>2 DEF RepoOK
<1>4. DOMAIN main'.file = Known(main')
  BY <1>2, <1>3 DEF CatalogFits, Known
<1>5. \A m \in DOMAIN main'.file : main'.file[m].superseded = (m \notin main'.tree)
  BY <1>2, <1>3 DEF CatalogFits
<1>6. \A m \in DOMAIN main.file \cap DOMAIN main'.file : \A n \in Nets :
         main.file[m].published[n].state = "live" =>
            \/ main'.file[m].published[n].state = "live"
            \/ <<n, m>> \in Moved /\ main'.file[m].superseded
  BY <1>2, <1>3 DEF CatalogFits, StillLive, SaysLive
<1> QED BY <1>3, <1>4, <1>5, <1>6

\* A listing calls absent who was in neither of its sets.
LEMMA ListingAssertsIt ==
  ASSUME CatalogInv, QueryParked, ci'.ask.net = "none", NEW m \in Probed,
         ci'.draft[m].published[ci.ask.net].state = "absent"
  PROVE  \/ Truth(ci.ask.net, m) = "absent"
         \/ m \notin ci.ask.live /\ Truth(ci.ask.net, m) = "live"
<1> DEFINE n == ci.ask.net
<1>1. ci.ask.index = "live" /\ n # "none" /\ JobOK(ci)
  BY JobOfCatalog DEF QueryParked, CatalogInv, AskOK
<1>2. /\ n \in Nets /\ CatalogFits(ci.draft) /\ m \in DOMAIN ci.draft
      /\ DOMAIN ci.draft \subseteq Mods
  BY <1>1, DraftOfTheStatus
<1>3. CASE ci' = [ci EXCEPT !.ask.index = "failed"]
  <2>1. ci'.ask.net = ci.ask.net
    BY <1>1, <1>3 DEF JobOK, AskOK
  <2> QED BY <1>1, <2>1
<1>4. CASE ci' = [ci EXCEPT !.ask = NoAsk, !.draft =
                   [x \in DOMAIN @ |-> IF x \in Probed
                                       THEN SetPublished(@[x], ci.ask.net, x, Lookup(x))
                                       ELSE @[x]]]
  <2> PICK v, e, p : /\ v = Lookup(m) /\ e = ci.draft[m]
                     /\ p = SetPublished(e, n, m, v)
    OBVIOUS
  <2>1. ci'.draft[m] = p
    BY <1>1, <1>2, <1>4 DEF JobOK
  <2>2. p.published[n].state = v
    <3>1. EntryOK(e)
      BY <1>2 DEF CatalogFits, FileOK
    <3> QED BY <1>2, <3>1, SetPublishedIs
  <2>3. Lookup(m) = "absent"
    BY <2>1, <2>2
  <2>4. Truth(n, m) \in Standing
    BY <1>2 DEF Truth, Standing, CatalogInv
  <2> QED BY <2>3, <2>4 DEF Lookup, Standing
<1> QED BY <1>3, <1>4 DEF QueryParked

\* Nothing else ends a listing while the status goes on.
LEMMA ListingEnds ==
  ASSUME CatalogInv, [CatalogNext]_catalogVars, ci.ask.index = "live", ci.ask.net # "none",
         ci.pc = "status", ci'.ask.net = "none", ci'.pc = "status"
  PROVE  QueryParked
<1>1. JobOK(ci)
  BY JobOfCatalog
<1>2. ci' # ci
  OBVIOUS
<1>3. Workflow
  BY <1>2 DEF CatalogNext, catalogVars, AddPackage, Bump, RemovePackage, Merge, Approve, Publish
<1>4. ~(Fetch \/ Sync \/ SkipSync \/ Push \/ Save) /\ ~\E readable \in BOOLEAN : Manifest(readable)
  BY DEF Fetch, Sync, SkipSync, Push, Save, Manifest
<1>5. ~StatusFails
  BY <1>1 DEF StatusFails, JobOK
<1>6. ~QueryLive /\ ~NextNet /\ (~\E n \in Nets : Reach(n))
      /\ ~\E m \in Mods, heard \in BOOLEAN : Probe(m, heard)
  BY DEF QueryLive, NextNet, Reach, Probe
<1> QED BY <1>3, <1>4, <1>5, <1>6 DEF Workflow

\* What StatusIsKept and AbsentIsAsserted say of a step.
StatusKeptStep ==
    [main'.file # main.file =>
        /\ <<main'.tree, main'.pinned>> = <<main.tree, main.pinned>>
        /\ DOMAIN main'.file = Known(main')
        /\ \A m \in DOMAIN main'.file : main'.file[m].superseded = (m \notin main'.tree)
        /\ \A m \in DOMAIN main.file \cap DOMAIN main'.file : \A n \in Nets :
              main.file[m].published[n].state = "live" =>
                 \/ main'.file[m].published[n].state = "live"
                 \/ <<n, m>> \in Moved /\ main'.file[m].superseded]_catalogVars

LEMMA PushesKeepStatus == CatalogInv /\ [CatalogNext]_catalogVars => StatusKeptStep
BY CatalogIsKept, PushLandsAnHonestOne DEF StatusKeptStep

AbsenceStep ==
    [(ci.ask.index = "live" /\ ci'.ask.net = "none" /\ ci'.pc = "status") =>
        \A m \in Probed :
           ci'.draft[m].published[ci.ask.net].state = "absent" =>
              \/ Truth(ci.ask.net, m) = "absent"
              \/ m \notin ci.ask.live /\ Truth(ci.ask.net, m) = "live"]_catalogVars

LEMMA ListingsAssertAbsence == CatalogInv /\ [CatalogNext]_catalogVars => AbsenceStep
<1> SUFFICES ASSUME CatalogInv, [CatalogNext]_catalogVars, ci.ask.index = "live",
                    ci'.ask.net = "none", ci'.pc = "status", NEW m \in Probed,
                    ci'.draft[m].published[ci.ask.net].state = "absent"
             PROVE  \/ Truth(ci.ask.net, m) = "absent"
                    \/ m \notin ci.ask.live /\ Truth(ci.ask.net, m) = "live"
  BY DEF AbsenceStep
<1>1. ci.ask.net # "none" /\ ci.pc = "status"
  BY DEF CatalogInv, AskOK
<1>2. QueryParked
  BY <1>1, ListingEnds
<1> QED BY <1>2, ListingAssertsIt

\* StatusIsHonest (TLC checks it on the toolchain): what the workflow pushes takes no merge
\* back, is the catalog of the tree it is pushed on and keeps whoever was live live, and a
\* listing calls a package absent only if the chain does not hold it or approved it while
\* it was being listed: status.go and the workflow that runs it, against the merges and
\* the chains.
THEOREM StatusStaysHonest == CatalogSpec => StatusIsHonest
BY CatalogStarts, CatalogIsKept, PushesKeepStatus, ListingsAssertAbsence, PTL
   DEF CatalogSpec, StatusIsHonest, StatusIsKept, AbsentIsAsserted, StatusKeptStep, AbsenceStep
-----------------------------------------------------------------------------
(* The publishers: what lands is the document that was shown, where it was built for. *)

\* The same for either of the two tools.
Extra(t, loaded, seen) ==
    {n \in Names \ Local(loaded) : seen[n] # Nothing /\ ~(t = "blog" /\ n = Intro)}
PathOf(t, net) == IF t = "home" THEN <<"home", net>> ELSE <<"blog">>

LEMMA ToolsOwn ==
  /\ \A loaded, seen : extraChanges(loaded, seen) = Extra(site, loaded, seen)
  /\ \A net : defaultBatchPath(net) = PathOf(site, net)
  BY DEF extraChanges, Extra, defaultBatchPath, PathOf

\* The messages of a document are the diff it was built from.
Faithful(t, x) ==
    /\ x.loaded \in [Names -> Bodies \cup {Nothing}]
    /\ DOMAIN x.msgs \subseteq Names /\ x.msgs = Messages(DOMAIN x.msgs, x.loaded)
    /\ \A n \in DOMAIN x.msgs : x.loaded[n] = Nothing => x.prune
    /\ \A n \in Local(x.loaded) \ DOMAIN x.msgs : x.seen # <<>> /\ x.loaded[n] = x.seen[n]
    /\ x.seen # <<>> /\ x.prune => Extra(t, x.loaded, x.seen) \subseteq DOMAIN x.msgs

\* The document on a path, the script beside it, and where the accounts stand.  Documents
\* of one chain only grow in sequence, so a script is never ahead of its document.
DocFits(t, d, s, p, seqs) ==
    /\ d = [net |-> d.net, seq |-> d.seq, loaded |-> d.loaded, seen |-> d.seen,
            prune |-> d.prune, msgs |-> d.msgs, sig |-> d.sig]
    /\ s = [net |-> s.net, seq |-> s.seq]
    /\ {d.seq, s.seq} \subseteq Nat
    /\ s.net # "none" => s.net \in Networks /\ p = PathOf(t, s.net)
    /\ s.net # "none" \/ d.sig # <<>> => Faithful(t, d)
    /\ \A net \in Networks :
          /\ s.net = net => s.seq <= seqs[net]
          /\ d.net = net => /\ d.seq <= seqs[net]
                            /\ s.net = net => s.seq <= d.seq
                            /\ \A k \in Nat : d.sig = <<net, k>> => k <= d.seq
          /\ t = "home" /\ p = <<"home", net>> /\ (s.net # "none" \/ d.sig # <<>>)
                => d.net = net

\* The job of a chain, and the document on its path.
JobForm(j) == j = [pc |-> j.pc, all |-> j.all, prune |-> j.prune, mode |-> j.mode,
                   loaded |-> j.loaded, seen |-> j.seen, msgs |-> j.msgs, seq |-> j.seq,
                   tries |-> j.tries]
PushFits(t, j, net, d) ==
    /\ JobForm(j)
    /\ j.seq \in Nat
    /\ j.pc = "manifest" => j.loaded \in [Names -> Bodies \cup {Nothing}]
    /\ j.pc = "account" => Faithful(t, j)
    /\ j.pc \in {"sign", "broadcast"} =>
          /\ Faithful(t, d) /\ (d.net = net => j.seq <= d.seq)
          /\ t = "home" => d.net = net

PublishInv ==
    /\ site \in {"home", "blog"}
    /\ content \in [Names -> Bodies \cup {Nothing}]
    /\ page = [net \in Networks |-> page[net]]
    /\ \A net \in Networks : page[net] = [n \in Names |-> page[net][n]]
    /\ sequence \in [Networks -> Nat]
    /\ docs = [p \in DocPaths |-> docs[p]] /\ scripts = [p \in DocPaths |-> scripts[p]]
    /\ push = [net \in Networks |-> push[net]]
    /\ \A p \in DocPaths : DocFits(site, docs[p], scripts[p], p, sequence)
    /\ \A net \in Networks : PushFits(site, push[net], net, docs[PathOf(site, net)])

LEMMA PathsOfNets ==
  ASSUME NEW net \in Networks PROVE PathOf(site, net) \in DocPaths
  BY DEF PathOf, DocPaths

LEMMA QuietPush ==
  ASSUME NEW t, NEW net, NEW d
  PROVE  PushFits(t, NoPush, net, d) /\ NoPush.pc = "idle" /\ NoPush.seq = 0
         /\ NoPush = [pc |-> "idle", all |-> FALSE, prune |-> FALSE, mode |-> "run",
                      loaded |-> <<>>, seen |-> <<>>, msgs |-> NoMessages, seq |-> 0, tries |-> 0]
<1>1. NoPush = [pc |-> "idle", all |-> FALSE, prune |-> FALSE, mode |-> "run",
                loaded |-> <<>>, seen |-> <<>>, msgs |-> NoMessages, seq |-> 0, tries |-> 0]
  BY DEF NoPush
<1> QED BY ONLY <1>1 DEF PushFits, JobForm

LEMMA PublisherStarts == PublisherInit => PublishInv
<1> SUFFICES ASSUME PublisherInit PROVE PublishInv
  OBVIOUS
<1>1. /\ site \in {"home", "blog"} /\ content \in [Names -> Bodies \cup {Nothing}]
      /\ sequence \in [Networks -> Nat]
      /\ page = [net \in Networks |-> page[net]]
      /\ \A net \in Networks : page[net] = [n \in Names |-> page[net][n]]
      /\ docs = [p \in DocPaths |-> docs[p]] /\ scripts = [p \in DocPaths |-> scripts[p]]
      /\ push = [net \in Networks |-> push[net]]
  BY PublisherAssumption DEF PublisherInit, Empty
<1>2. ASSUME NEW p \in DocPaths PROVE DocFits(site, docs[p], scripts[p], p, sequence)
  <2> PICK d, s : d = docs[p] /\ s = scripts[p]
    OBVIOUS
  <2>1. d = [net |-> "none", seq |-> 0, loaded |-> <<>>, seen |-> <<>>, prune |-> FALSE,
             msgs |-> NoMessages, sig |-> <<>>] /\ s = [net |-> "none", seq |-> 0]
    BY DEF PublisherInit, NoDoc, NoScript
  <2>2. \A net \in Networks : sequence[net] = 0
    BY DEF PublisherInit
  <2> QED BY <2>1, <2>2 DEF DocFits
<1>3. ASSUME NEW net \in Networks PROVE PushFits(site, push[net], net, docs[PathOf(site, net)])
  BY QuietPush DEF PublisherInit
<1> QED BY <1>1, <1>2, <1>3 DEF PublishInv

\* A file or a page that changes leaves the documents; an account only moves forward.
LEMMA WorldMoves ==
  ASSUME PublishInv, UNCHANGED <<site, docs, scripts>>,
         content' \in [Names -> Bodies \cup {Nothing}],
         page' = [net \in Networks |-> page'[net]],
         \A net \in Networks : page'[net] = [n \in Names |-> page'[net][n]],
         sequence' \in [Networks -> Nat],
         \A net \in Networks : sequence[net] <= sequence'[net],
         push' = [net \in Networks |-> push'[net]],
         \A net \in Networks : push'[net] = push[net] \/ push'[net] = NoPush
  PROVE  PublishInv'
<1> PICK q, g : q = sequence' /\ g = push'
  OBVIOUS
<1>1. ASSUME NEW p \in DocPaths PROVE DocFits(site, docs[p], scripts[p], p, q)
  <2>1. DocFits(site, docs[p], scripts[p], p, sequence) /\ \A net \in Networks : sequence[net] \in Nat
    BY DEF PublishInv
  <2>2. \A net \in Networks : q[net] \in Nat /\ sequence[net] <= q[net]
    OBVIOUS
  <2> QED BY <2>1, <2>2 DEF DocFits
<1>2. ASSUME NEW net \in Networks PROVE PushFits(site, g[net], net, docs[PathOf(site, net)])
  <2>1. CASE g[net] = push[net]
    BY <2>1 DEF PublishInv
  <2>2. CASE g[net] = NoPush
    BY <2>2, QuietPush
  <2> QED BY <2>1, <2>2
<1>3. ASSUME NEW p \in DocPaths PROVE DocFits(site, docs[p], scripts[p], p, sequence)'
  BY <1>1
<1>4. ASSUME NEW net \in Networks
      PROVE  PushFits(site, push[net], net, docs[PathOf(site, net)])'
  BY <1>2
<1>5. /\ site' \in {"home", "blog"} /\ docs' = [p \in DocPaths |-> docs'[p]]
      /\ scripts' = [p \in DocPaths |-> scripts'[p]]
  BY DEF PublishInv
<1> QED BY <1>3, <1>4, <1>5 DEF PublishInv

\* Only the job of one chain moves.
LEMMA OnlyAPushMoves ==
  ASSUME PublishInv, NEW net \in Networks, NEW j,
         push' = [push EXCEPT ![net] = j],
         UNCHANGED <<site, content, page, sequence, docs, scripts>>,
         PushFits(site, j, net, docs[PathOf(site, net)])
  PROVE  PublishInv'
<1> PICK g : g = push'
  OBVIOUS
<1>1. g = [k \in Networks |-> g[k]] /\ g[net] = j
      /\ \A k \in Networks \ {net} : g[k] = push[k]
  BY DEF PublishInv
<1>2. \A k \in Networks : PushFits(site, g[k], k, docs[PathOf(site, k)])
  BY <1>1 DEF PublishInv
<1>3. ASSUME NEW k \in Networks
      PROVE  PushFits(site, push[k], k, docs[PathOf(site, k)])'
  BY <1>2
<1>4. ASSUME NEW p \in DocPaths PROVE DocFits(site, docs[p], scripts[p], p, sequence)'
  BY DEF PublishInv
<1>5. push' = [k \in Networks |-> push'[k]]
  BY <1>1
<1>6. /\ site' \in {"home", "blog"} /\ content' \in [Names -> Bodies \cup {Nothing}]
      /\ page' = [k \in Networks |-> page'[k]]
      /\ \A k \in Networks : page'[k] = [n \in Names |-> page'[k][n]]
      /\ sequence' \in [Networks -> Nat]
      /\ docs' = [p \in DocPaths |-> docs'[p]] /\ scripts' = [p \in DocPaths |-> scripts'[p]]
  BY DEF PublishInv
<1> QED BY ONLY <1>3, <1>4, <1>5, <1>6 DEF PublishInv

\* Who holds the same diff is as faithful.
LEMMA FaithfulTogether ==
  ASSUME NEW t, NEW x, NEW y, Faithful(t, x),
         y.loaded = x.loaded, y.seen = x.seen, y.prune = x.prune, y.msgs = x.msgs
  PROVE  Faithful(t, y)
  BY DEF Faithful

LEMMA FormOfPush ==
  ASSUME PublishInv, NEW net \in Networks
  PROVE  /\ PushFits(site, push[net], net, docs[PathOf(site, net)])
         /\ PathOf(site, net) \in DocPaths
         /\ DocFits(site, docs[PathOf(site, net)], scripts[PathOf(site, net)],
                    PathOf(site, net), sequence)
         /\ page[net] = [n \in Names |-> page[net][n]] /\ sequence[net] \in Nat
  BY PathsOfNets DEF PublishInv

\* The updates of a job.
Began(all, prune, mode, loaded, tries) ==
    [NoPush EXCEPT !.all = all, !.prune = prune, !.mode = mode, !.loaded = loaded,
                   !.tries = tries]
AtPhase(i, phase) == [i EXCEPT !.pc = phase]
Retried(i, tries) == [i EXCEPT !.tries = tries]
WithMessages(i, phase, msgs) == [i EXCEPT !.pc = phase, !.msgs = msgs]
HavingRead(i, seen, msgs, tries) ==
    [i EXCEPT !.pc = "account", !.seen = seen, !.msgs = msgs, !.tries = tries]
ToSign(seq) == [NoPush EXCEPT !.pc = "sign", !.seq = seq]

LEMMA JobsUpdated ==
  /\ \A all, prune, mode, loaded, tries :
        LET j == Began(all, prune, mode, loaded, tries)
        IN  JobForm(j) /\ j.loaded = loaded /\ j.seen = <<>> /\ j.seq = 0
  /\ \A seq : LET j == ToSign(seq) IN JobForm(j) /\ j.pc = "sign" /\ j.seq = seq
  /\ \A i, phase : JobForm(i) =>
        LET j == AtPhase(i, phase)
        IN  JobForm(j) /\ j.pc = phase /\ j.loaded = i.loaded /\ j.seq = i.seq
  /\ \A i, tries : JobForm(i) =>
        LET j == Retried(i, tries)
        IN  /\ JobForm(j) /\ j.pc = i.pc /\ j.loaded = i.loaded /\ j.seen = i.seen
            /\ j.seq = i.seq /\ j.msgs = i.msgs /\ j.prune = i.prune
  /\ \A i, phase, msgs : JobForm(i) =>
        LET j == WithMessages(i, phase, msgs)
        IN  /\ JobForm(j) /\ j.pc = phase /\ j.loaded = i.loaded /\ j.seen = i.seen
            /\ j.seq = i.seq /\ j.msgs = msgs /\ j.prune = i.prune
  /\ \A i, seen, msgs, tries : JobForm(i) =>
        LET j == HavingRead(i, seen, msgs, tries)
        IN  /\ JobForm(j) /\ j.pc = "account" /\ j.loaded = i.loaded /\ j.seen = seen
            /\ j.seq = i.seq /\ j.msgs = msgs /\ j.prune = i.prune
<1>1. ASSUME NEW all, NEW prune, NEW mode, NEW loaded, NEW tries,
             NEW j, j = Began(all, prune, mode, loaded, tries)
      PROVE  JobForm(j) /\ j.loaded = loaded /\ j.seen = <<>> /\ j.seq = 0
  <2>1. j = [pc |-> "idle", all |-> all, prune |-> prune, mode |-> mode, loaded |-> loaded,
             seen |-> <<>>, msgs |-> NoMessages, seq |-> 0, tries |-> tries]
    BY <1>1 DEF NoPush, Began
  <2> QED BY ONLY <2>1 DEF JobForm
<1>2. ASSUME NEW seq, NEW j, j = ToSign(seq) PROVE JobForm(j) /\ j.pc = "sign" /\ j.seq = seq
  <2>1. j = [pc |-> "sign", all |-> FALSE, prune |-> FALSE, mode |-> "run", loaded |-> <<>>,
             seen |-> <<>>, msgs |-> NoMessages, seq |-> seq, tries |-> 0]
    BY <1>2 DEF NoPush, ToSign
  <2> QED BY ONLY <2>1 DEF JobForm
<1>3. ASSUME NEW i, JobForm(i), NEW phase, NEW j, j = AtPhase(i, phase)
      PROVE  JobForm(j) /\ j.pc = phase /\ j.loaded = i.loaded /\ j.seq = i.seq
  BY <1>3 DEF JobForm, AtPhase
<1>4. ASSUME NEW i, JobForm(i), NEW tries, NEW j, j = Retried(i, tries)
      PROVE  /\ JobForm(j) /\ j.pc = i.pc /\ j.loaded = i.loaded /\ j.seen = i.seen
             /\ j.seq = i.seq /\ j.msgs = i.msgs /\ j.prune = i.prune
  BY <1>4 DEF JobForm, Retried
<1>5. ASSUME NEW i, JobForm(i), NEW phase, NEW msgs, NEW j, j = WithMessages(i, phase, msgs)
      PROVE  /\ JobForm(j) /\ j.pc = phase /\ j.loaded = i.loaded /\ j.seen = i.seen
             /\ j.seq = i.seq /\ j.msgs = msgs /\ j.prune = i.prune
  BY <1>5 DEF JobForm, WithMessages
<1>6. ASSUME NEW i, JobForm(i), NEW seen, NEW msgs, NEW tries,
             NEW j, j = HavingRead(i, seen, msgs, tries)
      PROVE  /\ JobForm(j) /\ j.pc = "account" /\ j.loaded = i.loaded /\ j.seen = seen
             /\ j.seq = i.seq /\ j.msgs = msgs /\ j.prune = i.prune
  BY <1>6 DEF JobForm, HavingRead
<1> QED BY <1>1, <1>2, <1>3, <1>4, <1>5, <1>6

LEMMA StartKeepsThePublisher ==
  ASSUME PublishInv, NEW net \in Networks, NEW all \in BOOLEAN, NEW prune \in BOOLEAN,
         NEW mode, Start(net, all, prune, mode)
  PROVE  PublishInv'
<1> PICK d, c, k : /\ d = docs[PathOf(site, net)] /\ c = content
                   /\ k = IF site = "home" THEN MaxAttempts ELSE 1
  OBVIOUS
<1> PICK i : i = Began(all, prune, mode, c, k)
  OBVIOUS
<1>1. UNCHANGED <<site, content, page, sequence, docs, scripts>>
  BY DEF Start
<1>2. JobForm(i) /\ i.loaded = c /\ i.seen = <<>> /\ i.seq = 0
  BY JobsUpdated
<1>3. c \in [Names -> Bodies \cup {Nothing}]
  BY DEF PublishInv
<1>4. CASE push' = [push EXCEPT ![net] = AtPhase(i, "manifest")]
  <2> PICK j : j = AtPhase(i, "manifest")
    OBVIOUS
  <2>1. JobForm(j) /\ j.pc = "manifest" /\ j.loaded = c /\ j.seq = 0
    BY <1>2, JobsUpdated
  <2>2. PushFits(site, j, net, d)
    BY <1>3, <2>1 DEF PushFits
  <2> QED BY <1>1, <1>4, <2>2, OnlyAPushMoves
<1>5. CASE push' = [push EXCEPT ![net] =
                            WithMessages(i, "account", Messages(Local(c), c))]
  <2> PICK m : m = Messages(Local(c), c)
    OBVIOUS
  <2> PICK j : j = WithMessages(i, "account", m)
    OBVIOUS
  <2>1. JobForm(j) /\ j.pc = "account" /\ j.loaded = c /\ j.seq = 0 /\ j.msgs = m
        /\ j.seen = <<>>
    BY <1>2, JobsUpdated
  <2>2. DOMAIN m = Local(c) /\ m = Messages(DOMAIN m, c)
    BY DEF Messages
  <2>3. Faithful(site, j)
    <3>1. DOMAIN m \subseteq Names /\ \A n \in DOMAIN m : c[n] # Nothing
      BY <2>2 DEF Local
    <3> QED BY <1>3, <2>1, <2>2, <3>1 DEF Faithful
  <2>4. PushFits(site, j, net, d)
    BY <2>1, <2>3 DEF PushFits
  <2> QED BY <1>1, <1>5, <2>4, OnlyAPushMoves
<1> QED BY <1>4, <1>5 DEF Start, Set, Began, AtPhase, WithMessages

LEMMA UnheardKeepsThePublisher ==
  ASSUME PublishInv, NEW net \in Networks, NEW answer, Unheard(net, answer)
  PROVE  PublishInv'
<1> PICK d, i : d = docs[PathOf(site, net)] /\ i = push[net]
  OBVIOUS
<1>1. UNCHANGED <<site, content, page, sequence, docs, scripts>> /\ i.pc \in {"manifest", "account"}
  BY DEF Unheard
<1>2. PushFits(site, i, net, d)
  BY FormOfPush
<1>3. CASE push' = [push EXCEPT ![net] = NoPush]
  BY <1>1, <1>3, QuietPush, OnlyAPushMoves
<1>4. CASE push' = [push EXCEPT ![net] = Retried(i, i.tries - 1)]
  <2> PICK j : j = Retried(i, i.tries - 1)
    OBVIOUS
  <2>1. JobForm(j) /\ j.pc = i.pc /\ j.loaded = i.loaded /\ j.seen = i.seen /\ j.seq = i.seq
        /\ j.msgs = i.msgs /\ j.prune = i.prune
    BY <1>2, JobsUpdated DEF PushFits
  <2>2. /\ i.seq \in Nat /\ (i.pc = "account" => Faithful(site, i))
        /\ i.pc = "manifest" => i.loaded \in [Names -> Bodies \cup {Nothing}]
    BY <1>2 DEF PushFits
  <2>3. ASSUME j.pc = "account" PROVE Faithful(site, j)
    <3>1. Faithful(site, i)
      BY <2>1, <2>2, <2>3
    <3>2. j.loaded = i.loaded /\ j.seen = i.seen /\ j.prune = i.prune /\ j.msgs = i.msgs
      BY <2>1
    <3> QED BY ONLY <3>1, <3>2, FaithfulTogether
  <2>4. PushFits(site, j, net, d)
    BY <1>1, <2>1, <2>2, <2>3 DEF PushFits
  <2> QED BY <1>1, <1>4, <2>4, OnlyAPushMoves
<1> QED BY <1>3, <1>4 DEF Unheard, Set, Retried

LEMMA ReadKeepsThePublisher ==
  ASSUME PublishInv, NEW net \in Networks, ReadManifest(net)
  PROVE  PublishInv'
<1> PICK d, i, s : d = docs[PathOf(site, net)] /\ i = push[net] /\ s = page[net]
  OBVIOUS
<1> DEFINE changes == IF i.all THEN allChanges(i.loaded, s) ELSE diff(i.loaded, s)
           names == emittable(changes, i.loaded, i.prune)
           tries == IF site = "home" THEN MaxAttempts ELSE 1
<1> PICK m, k : m = Messages(names, i.loaded) /\ k = tries
  OBVIOUS
<1>1. UNCHANGED <<site, content, page, sequence, docs, scripts>> /\ i.pc = "manifest"
  BY DEF ReadManifest
<1>2. PushFits(site, i, net, d) /\ s = [n \in Names |-> s[n]]
  BY FormOfPush
<1>3. CASE push' = [push EXCEPT ![net] = NoPush]
  BY <1>1, <1>3, QuietPush, OnlyAPushMoves
<1>4. CASE push' = [push EXCEPT ![net] = HavingRead(i, s, m, k)]
  <2>0. PICK j : j = HavingRead(i, s, m, k)
    OBVIOUS
  <2>1. JobForm(j) /\ j.pc = "account" /\ j.loaded = i.loaded /\ j.seen = s /\ j.seq = i.seq
        /\ j.msgs = m /\ j.prune = i.prune
    <3>1. JobForm(i)
      BY <1>2 DEF PushFits
    <3> QED BY ONLY <2>0, <3>1, JobsUpdated
  <2>2. DOMAIN m = names /\ m = Messages(DOMAIN m, i.loaded)
    BY DEF Messages
  <2>3. i.loaded \in [Names -> Bodies \cup {Nothing}]
    BY <1>1, <1>2 DEF PushFits
  <2>4. s # <<>>
    BY <1>2, PublisherAssumption
  <2>5. /\ names \subseteq Names
        /\ \A n \in names : i.loaded[n] = Nothing => i.prune
        /\ \A n \in Local(i.loaded) \ names : i.loaded[n] = s[n]
        /\ i.prune => Extra(site, i.loaded, s) \subseteq names
    BY ToolsOwn DEF emittable, allChanges, diff, Local, Extra
  <2>6. Faithful(site, j)
    <3>1. j.loaded = i.loaded /\ j.seen = s /\ j.prune = i.prune /\ j.msgs = m
      BY <2>1
    <3> HIDE DEF names
    <3> QED BY ONLY <2>2, <2>3, <2>4, <2>5, <3>1 DEF Faithful
  <2>7. PushFits(site, j, net, d)
    <3>1. i.seq \in Nat
      BY <1>2 DEF PushFits
    <3> QED BY ONLY <2>1, <2>6, <3>1 DEF PushFits
  <2> QED BY <1>1, <1>4, <2>0, <2>7, OnlyAPushMoves
<1> QED BY <1>3, <1>4 DEF ReadManifest, Set, HavingRead

\* A script is signed for the sequence it was printed for.
LEMMA ScriptKeepsThePublisher ==
  ASSUME PublishInv, NEW p \in DocPaths, RunScript(p)
  PROVE  PublishInv'
<1> PICK d, s, net : d = docs[p] /\ s = scripts[p] /\ net = s.net
  OBVIOUS
<1> PICK j : j = ToSign(s.seq)
  OBVIOUS
<1>1. UNCHANGED <<site, content, page, sequence, docs, scripts>> /\ net # "none"
      /\ push' = [push EXCEPT ![net] = j]
  BY DEF RunScript, Set, ToSign
<1>2. DocFits(site, d, s, p, sequence) /\ site \in {"home", "blog"}
  BY DEF PublishInv
<1>3. JobForm(j) /\ j.pc = "sign" /\ j.seq = s.seq
  BY JobsUpdated
<1>4. net \in Networks /\ p = PathOf(site, net) /\ Faithful(site, d)
  BY <1>1, <1>2 DEF DocFits
<1>5. (d.net = net => s.seq <= d.seq) /\ (site = "home" => d.net = net) /\ s.seq \in Nat
  BY <1>1, <1>2, <1>4 DEF DocFits, PathOf
<1>6. PushFits(site, j, net, d)
  BY <1>3, <1>4, <1>5 DEF PushFits
<1> QED BY <1>1, <1>4, <1>6, OnlyAPushMoves

\* A document is written for the sequence of the moment, and its script with it.
Written(net, seq, j) == [net |-> net, seq |-> seq, loaded |-> j.loaded, seen |-> j.seen,
                         prune |-> j.prune, msgs |-> j.msgs, sig |-> <<>>]

LEMMA WriteKeepsThePublisher ==
  ASSUME PublishInv, NEW net \in Networks, WriteDocument(net)
  PROVE  PublishInv'
<1> PICK p, i, q : p = PathOf(site, net) /\ i = push[net] /\ q = sequence[net]
  OBVIOUS
<1> PICK d : d = Written(net, q, i)
  OBVIOUS
<1> PICK g, t : g = push' /\ t = scripts'
  OBVIOUS
<1>1. /\ UNCHANGED <<site, content, page, sequence>> /\ i.pc = "account"
      /\ docs' = [docs EXCEPT ![p] = d]
      /\ t = scripts \/ t = [scripts EXCEPT ![p] = [net |-> net, seq |-> q]]
      /\ \/ g = [push EXCEPT ![net] = NoPush]
         \/ g = [push EXCEPT ![net] = ToSign(q)]
  BY ToolsOwn DEF WriteDocument, Set, ToSign, Written
<1>2. /\ PushFits(site, i, net, docs[p]) /\ p \in DocPaths
      /\ DocFits(site, docs[p], scripts[p], p, sequence) /\ q \in Nat
  BY FormOfPush
<1>3. Faithful(site, i)
  BY <1>1, <1>2 DEF PushFits
<1>4. /\ d = [net |-> d.net, seq |-> d.seq, loaded |-> d.loaded, seen |-> d.seen,
              prune |-> d.prune, msgs |-> d.msgs, sig |-> d.sig]
      /\ d.net = net /\ d.seq = q /\ d.sig = <<>> /\ d.loaded = i.loaded /\ d.seen = i.seen
      /\ d.prune = i.prune /\ d.msgs = i.msgs
  BY DEF Written
<1>5. Faithful(site, d)
  BY <1>3, <1>4 DEF Faithful
<1>6. /\ docs' = [x \in DocPaths |-> docs'[x]] /\ docs'[p] = d
      /\ \A x \in DocPaths \ {p} : docs'[x] = docs[x]
  BY <1>1, <1>2 DEF PublishInv
<1>7. /\ t = [x \in DocPaths |-> t[x]] /\ (t[p] = scripts[p] \/ t[p] = [net |-> net, seq |-> q])
      /\ \A x \in DocPaths \ {p} : t[x] = scripts[x]
  <2>1. CASE t = scripts
    BY <2>1 DEF PublishInv
  <2>2. CASE t = [scripts EXCEPT ![p] = [net |-> net, seq |-> q]]
    BY <1>2, <2>2 DEF PublishInv
  <2> QED BY <1>1, <2>1, <2>2
<1>8. /\ g = [x \in Networks |-> g[x]] /\ (g[net] = NoPush \/ g[net] = ToSign(q))
      /\ \A x \in Networks \ {net} : g[x] = push[x]
  <2>1. CASE g = [push EXCEPT ![net] = NoPush]
    BY <2>1 DEF PublishInv
  <2>2. CASE g = [push EXCEPT ![net] = ToSign(q)]
    BY <2>2 DEF PublishInv
  <2> QED BY <1>1, <2>1, <2>2
<1>9. DocFits(site, d, t[p], p, sequence)
  <2> PICK s : s = t[p]
    OBVIOUS
  <2>1. /\ s = [net |-> s.net, seq |-> s.seq] /\ s.seq \in Nat
        /\ s.net # "none" => s.net \in Networks /\ p = PathOf(site, s.net)
    <3>1. CASE s = scripts[p]
      BY <1>2, <3>1 DEF DocFits
    <3>2. CASE s = [net |-> net, seq |-> q]
      BY <1>2, <3>2
    <3> QED BY <1>7, <3>1, <3>2
  <2>2. ASSUME NEW n \in Networks, s.net = n PROVE s.seq <= sequence[n]
    <3>1. CASE s = scripts[p]
      BY <1>2, <2>2, <3>1 DEF DocFits
    <3>2. CASE s = [net |-> net, seq |-> q]
      BY <1>2, <2>2, <3>2
    <3> QED BY <1>7, <3>1, <3>2
  <2>3. \A k \in Nat : d.sig # <<net, k>>
    BY <1>4
  <2>4. ASSUME NEW n \in Networks, site = "home", p = <<"home", n>> PROVE d.net = n
    BY <1>4, <2>4 DEF PathOf
  <2> QED BY <1>2, <1>4, <1>5, <2>1, <2>2, <2>3, <2>4 DEF DocFits
<1>10. ASSUME NEW n \in Networks PROVE PushFits(site, g[n], n, docs'[PathOf(site, n)])
  <2>1. CASE n # net /\ PathOf(site, n) # p
    <3>1. g[n] = push[n] /\ docs'[PathOf(site, n)] = docs[PathOf(site, n)]
      BY <1>6, <1>8, <2>1, FormOfPush
    <3> QED BY <3>1, FormOfPush
  <2>2. CASE n # net /\ PathOf(site, n) = p
    <3>1. g[n] = push[n] /\ docs'[PathOf(site, n)] = d /\ PushFits(site, push[n], n, docs[p])
      BY <1>6, <1>8, <2>2, FormOfPush
    <3>2. site # "home" /\ d.net # n
      BY <1>4, <2>2 DEF PathOf
    <3> QED BY <1>5, <3>1, <3>2 DEF PushFits
  <2>3. CASE n = net
    <3>1. docs'[PathOf(site, n)] = d
      BY <1>6, <2>3
    <3>2. PushFits(site, NoPush, n, d)
      BY QuietPush
    <3>3. PushFits(site, ToSign(q), n, d)
      <4> PICK j : j = ToSign(q)
        OBVIOUS
      <4>1. JobForm(j) /\ j.pc = "sign" /\ j.seq = q
        BY JobsUpdated
      <4> QED BY <1>2, <1>4, <1>5, <2>3, <4>1 DEF PushFits
    <3> QED BY <1>8, <2>3, <3>1, <3>2, <3>3
  <2> QED BY <2>1, <2>2, <2>3
<1>11. \A x \in DocPaths : DocFits(site, docs'[x], t[x], x, sequence)
  BY <1>6, <1>7, <1>9 DEF PublishInv
<1>12. /\ \A x \in DocPaths : DocFits(site, docs[x], scripts[x], x, sequence)'
       /\ \A n \in Networks : PushFits(site, push[n], n, docs[PathOf(site, n)])'
  BY <1>1, <1>10, <1>11
<1>13. /\ (scripts = [x \in DocPaths |-> scripts[x]])' /\ (docs = [x \in DocPaths |-> docs[x]])'
       /\ (push = [n \in Networks |-> push[n]])'
  BY <1>6, <1>7, <1>8
<1>14. /\ (site \in {"home", "blog"} /\ content \in [Names -> Bodies \cup {Nothing}])'
       /\ (page = [n \in Networks |-> page[n]])'
       /\ (\A n \in Networks : page[n] = [x \in Names |-> page[n][x]])'
       /\ (sequence \in [Networks -> Nat])'
  BY <1>1 DEF PublishInv
<1> QED BY <1>12, <1>13, <1>14 DEF PublishInv

Signed(d, sig) == [d EXCEPT !.sig = sig]

\* A signature covers the sequence of the job, never ahead of a document of its chain.
LEMMA SignKeepsThePublisher ==
  ASSUME PublishInv, NEW net \in Networks, NEW yes \in BOOLEAN, Sign(net, yes)
  PROVE  PublishInv'
<1> PICK p, i, e : p = PathOf(site, net) /\ i = push[net] /\ e = docs[p]
  OBVIOUS
<1>1. UNCHANGED <<site, content, page, sequence, scripts>> /\ i.pc = "sign"
  BY DEF Sign
<1>2. /\ PushFits(site, i, net, e) /\ p \in DocPaths /\ DocFits(site, e, scripts[p], p, sequence)
  BY FormOfPush
<1>3. CASE push' = [push EXCEPT ![net] = NoPush] /\ UNCHANGED docs
  BY <1>1, <1>3, QuietPush, OnlyAPushMoves
<1>4. CASE /\ docs' = [docs EXCEPT ![p] = Signed(e, <<net, i.seq>>)]
           /\ push' = [push EXCEPT ![net] = AtPhase(i, "broadcast")]
  <2> PICK d, j, g : d = Signed(e, <<net, i.seq>>) /\ j = AtPhase(i, "broadcast") /\ g = push'
    OBVIOUS
  <2>1. /\ d = [net |-> d.net, seq |-> d.seq, loaded |-> d.loaded, seen |-> d.seen,
                prune |-> d.prune, msgs |-> d.msgs, sig |-> d.sig]
        /\ d.net = e.net /\ d.seq = e.seq /\ d.sig = <<net, i.seq>> /\ d.loaded = e.loaded
        /\ d.seen = e.seen /\ d.prune = e.prune /\ d.msgs = e.msgs
    <3>1. e = [net |-> e.net, seq |-> e.seq, loaded |-> e.loaded, seen |-> e.seen,
               prune |-> e.prune, msgs |-> e.msgs, sig |-> e.sig]
      BY <1>2 DEF DocFits
    <3> PICK sig : sig = <<net, i.seq>>
      OBVIOUS
    <3> QED BY <3>1 DEF Signed
  <2>2. /\ Faithful(site, e) /\ (e.net = net => i.seq <= e.seq) /\ i.seq \in Nat
        /\ (site = "home" => e.net = net)
    BY <1>1, <1>2 DEF PushFits
  <2>3. Faithful(site, d)
    <3>1. d.loaded = e.loaded /\ d.seen = e.seen /\ d.prune = e.prune /\ d.msgs = e.msgs
      BY <2>1
    <3> QED BY ONLY <2>2, <3>1, FaithfulTogether
  <2>4. /\ docs' = [x \in DocPaths |-> docs'[x]] /\ docs'[p] = d
        /\ \A x \in DocPaths \ {p} : docs'[x] = docs[x]
    BY <1>2, <1>4 DEF PublishInv
  <2>5. /\ g = [x \in Networks |-> g[x]] /\ g[net] = j
        /\ \A x \in Networks \ {net} : g[x] = push[x]
    BY <1>4 DEF PublishInv
  <2>6. DocFits(site, d, scripts[p], p, sequence)
    <3>1. ASSUME NEW n \in Networks, site = "home", p = <<"home", n>> PROVE d.net = n
      BY <2>1, <2>2, <3>1 DEF PathOf
    <3>2. ASSUME NEW n \in Networks, d.net = n, NEW k \in Nat, d.sig = <<n, k>> PROVE k <= d.seq
      <4>1. n = net /\ k = i.seq /\ e.net = net
        BY ONLY <2>1, <3>2
      <4> QED BY ONLY <2>1, <2>2, <4>1
    <3>3. PICK s : s = scripts[p]
      OBVIOUS
    <3>4. DocFits(site, e, s, p, sequence)
      BY <1>2, <3>3
    <3>5. DocFits(site, d, s, p, sequence)
      BY ONLY <2>1, <2>3, <3>1, <3>2, <3>4 DEF DocFits
    <3> QED BY <3>3, <3>5
  <2>7. ASSUME NEW n \in Networks PROVE PushFits(site, g[n], n, docs'[PathOf(site, n)])
    <3>1. \A m, k : PushFits(site, m, k, e) => PushFits(site, m, k, d)
      BY <2>1, <2>3 DEF PushFits
    <3>2. CASE n # net
      <4>1. g[n] = push[n] /\ PushFits(site, push[n], n, docs[PathOf(site, n)])
            /\ PathOf(site, n) \in DocPaths
        BY <2>5, <3>2, FormOfPush
      <4>2. CASE PathOf(site, n) = p
        BY <2>4, <3>1, <4>1, <4>2
      <4>3. CASE PathOf(site, n) # p
        BY <2>4, <4>1, <4>3
      <4> QED BY <4>2, <4>3
    <3>3. CASE n = net
      <4>1. JobForm(j) /\ j.pc = "broadcast" /\ j.seq = i.seq
        BY <1>2, JobsUpdated DEF PushFits
      <4>2. PushFits(site, j, n, d)
        BY <2>1, <2>2, <2>3, <3>3, <4>1 DEF PushFits
      <4> QED BY <2>4, <2>5, <3>3, <4>2
    <3> QED BY <3>2, <3>3
  <2>8. \A x \in DocPaths : DocFits(site, docs'[x], scripts[x], x, sequence)
    BY <2>4, <2>6 DEF PublishInv
  <2>9. /\ \A x \in DocPaths : DocFits(site, docs[x], scripts[x], x, sequence)'
        /\ \A n \in Networks : PushFits(site, push[n], n, docs[PathOf(site, n)])'
    BY <1>1, <2>7, <2>8
  <2>10. /\ (scripts = [x \in DocPaths |-> scripts[x]])' /\ (docs = [x \in DocPaths |-> docs[x]])'
         /\ (push = [n \in Networks |-> push[n]])'
    BY <1>1, <2>4, <2>5 DEF PublishInv
  <2>11. /\ (site \in {"home", "blog"} /\ content \in [Names -> Bodies \cup {Nothing}])'
         /\ (page = [n \in Networks |-> page[n]])'
         /\ (\A n \in Networks : page[n] = [x \in Names |-> page[n][x]])'
         /\ (sequence \in [Networks -> Nat])'
    BY <1>1 DEF PublishInv
  <2> QED BY <2>9, <2>10, <2>11 DEF PublishInv
<1> QED
  <2>1. CASE yes
    <3>1. docs' = [docs EXCEPT ![p].sig = <<net, i.seq>>]
          /\ push' = [push EXCEPT ![net] = [i EXCEPT !.pc = "broadcast"]]
      BY <2>1, ToolsOwn DEF Sign, Set, signedSequence
    <3> QED BY <1>4, <3>1 DEF Signed, AtPhase
  <2>2. CASE ~yes
    BY <1>3, <2>2 DEF Sign, Set
  <2> QED BY <2>1, <2>2

LEMMA AccountsMove ==
  ASSUME NEW s \in [Networks -> Nat], NEW net \in Networks, NEW q,
         q = s \/ q = [s EXCEPT ![net] = @ + 1]
  PROVE  q \in [Networks -> Nat] /\ \A k \in Networks : s[k] <= q[k]
<1>1. CASE q = s
  BY <1>1
<1>2. CASE q = [s EXCEPT ![net] = s[net] + 1]
  <2>1. \A k \in Networks : q[k] = IF k = net THEN s[net] + 1 ELSE s[k]
    BY <1>2
  <2>2. q = [k \in Networks |-> q[k]]
    BY <1>2
  <2>3. \A k \in Networks : s[k] \in Nat
    OBVIOUS
  <2> QED BY ONLY <2>1, <2>2, <2>3, net \in Networks
<1> QED BY <1>1, <1>2

LEMMA PagesMove ==
  ASSUME NEW g, g = [k \in Networks |-> g[k]],
         \A k \in Networks : g[k] = [x \in Names |-> g[k][x]],
         NEW net \in Networks, NEW v, v = [x \in Names |-> v[x]],
         NEW h, h = g \/ h = [g EXCEPT ![net] = v]
  PROVE  h = [k \in Networks |-> h[k]] /\ \A k \in Networks : h[k] = [x \in Names |-> h[k][x]]
<1>1. CASE h = g
  BY <1>1
<1>2. CASE h = [g EXCEPT ![net] = v]
  <2>1. /\ h = [k \in Networks |-> h[k]] /\ h[net] = v
        /\ \A k \in Networks \ {net} : h[k] = g[k]
    BY <1>2
  <2> QED BY <2>1
<1> QED BY <1>1, <1>2

\* What a signed document does where it lands.
LEMMA BroadcastKeepsThePublisher ==
  ASSUME PublishInv, NEW net \in Networks, NEW enough \in BOOLEAN, Broadcast(net, enough)
  PROVE  PublishInv'
<1>1. /\ UNCHANGED <<site, content, docs, scripts>> /\ push' = [push EXCEPT ![net] = NoPush]
      /\ sequence' = sequence \/ sequence' = [sequence EXCEPT ![net] = @ + 1]
      /\ \/ page' = page
         \/ \E m : page' = [page EXCEPT ![net] = Applied(page[net], m)]
  BY DEF Broadcast, Set
<1>2. /\ push' = [n \in Networks |-> push'[n]]
      /\ \A n \in Networks : push'[n] = push[n] \/ push'[n] = NoPush
  BY <1>1 DEF PublishInv
<1>3. sequence' \in [Networks -> Nat] /\ \A n \in Networks : sequence[n] <= sequence'[n]
  <2> PICK q : q = sequence'
    OBVIOUS
  <2>1. sequence \in [Networks -> Nat]
    BY DEF PublishInv
  <2> QED BY <1>1, <2>1, AccountsMove
<1>4. /\ page' = [n \in Networks |-> page'[n]]
      /\ \A n \in Networks : page'[n] = [x \in Names |-> page'[n][x]]
  <2> PICK h : h = page'
    OBVIOUS
  <2> DEFINE OnePage == \E v : v = [x \in Names |-> v[x]]
                               /\ (h = page \/ h = [page EXCEPT ![net] = v])
  <2>1. PICK v : v = [x \in Names |-> v[x]] /\ (h = page \/ h = [page EXCEPT ![net] = v])
    <3>1. CASE h = page
      <4> PICK v : v = [x \in Names |-> 0]
        OBVIOUS
      <4>1. v = [x \in Names |-> v[x]]
        OBVIOUS
      <4> QED BY <3>1, <4>1
    <3>2. ASSUME NEW m, h = [page EXCEPT ![net] = Applied(page[net], m)] PROVE OnePage
      <4>1. \A held : Applied(held, m) = [x \in Names |-> Applied(held, m)[x]]
        BY DEF Applied
      <4> QED BY <3>2, <4>1
    <3> QED BY <1>1, <3>1, <3>2
  <2>2. page = [k \in Networks |-> page[k]]
        /\ \A k \in Networks : page[k] = [x \in Names |-> page[k][x]]
    BY DEF PublishInv
  <2> QED BY <2>1, <2>2, PagesMove
<1>5. content' \in [Names -> Bodies \cup {Nothing}]
  BY <1>1 DEF PublishInv
<1> QED BY <1>1, <1>2, <1>3, <1>4, <1>5, WorldMoves

LEMMA OthersKeepThePublisher ==
  ASSUME PublishInv, NEW net \in Networks, NEW n \in Names, NEW body \in Bodies \cup {Nothing},
         Paste(net, n) \/ Elsewhere(net, n, body)
  PROVE  PublishInv'
<1>1. /\ UNCHANGED <<site, docs, scripts, push, content>>
      /\ sequence' = [sequence EXCEPT ![net] = @ + 1]
      /\ content \in [Names -> Bodies \cup {Nothing}] /\ push = [k \in Networks |-> push[k]]
  BY DEF Paste, Elsewhere, PublishInv
<1>2. sequence' \in [Networks -> Nat] /\ \A k \in Networks : sequence[k] <= sequence'[k]
  <2> PICK q : q = sequence'
    OBVIOUS
  <2>1. sequence \in [Networks -> Nat]
    BY DEF PublishInv
  <2> QED BY <1>1, <2>1, AccountsMove
<1>3. /\ page' = [k \in Networks |-> page'[k]]
      /\ \A k \in Networks : page'[k] = [x \in Names |-> page'[k][x]]
  <2> PICK h, w : h = page' /\ w = page[net]
    OBVIOUS
  <2>0. w = [x \in Names |-> w[x]]
    BY FormOfPush
  <2> DEFINE OnePage == \E v : v = [x \in Names |-> v[x]]
                               /\ (h = page \/ h = [page EXCEPT ![net] = v])
  <2>1. PICK v : v = [x \in Names |-> v[x]] /\ (h = page \/ h = [page EXCEPT ![net] = v])
    <3>1. CASE h = page
      BY <2>0, <3>1
    <3>2. ASSUME NEW m, h = [page EXCEPT ![net] = Applied(w, m)] PROVE OnePage
      <4>1. Applied(w, m) = [x \in Names |-> Applied(w, m)[x]]
        BY DEF Applied
      <4> QED BY <3>2, <4>1
    <3>3. CASE h = [page EXCEPT ![net] = [w EXCEPT ![n] = body]]
      <4> PICK v : v = [w EXCEPT ![n] = body]
        OBVIOUS
      <4>1. v = [x \in Names |-> v[x]]
        BY <2>0
      <4> QED BY <3>3, <4>1
    <3>4. h = page \/ (\E m : h = [page EXCEPT ![net] = Applied(w, m)])
          \/ h = [page EXCEPT ![net] = [w EXCEPT ![n] = body]]
      BY DEF Paste, Elsewhere
    <3> QED BY <3>1, <3>2, <3>3, <3>4
  <2>2. page = [k \in Networks |-> page[k]]
        /\ \A k \in Networks : page[k] = [x \in Names |-> page[k][x]]
    BY DEF PublishInv
  <2> QED BY <2>1, <2>2, PagesMove
<1> QED BY <1>1, <1>2, <1>3, WorldMoves

LEMMA EditKeepsThePublisher ==
  ASSUME PublishInv, NEW n \in Names, NEW body \in Bodies \cup {Nothing}, EditFile(n, body)
  PROVE  PublishInv'
<1>1. UNCHANGED <<site, page, sequence, docs, scripts, push>>
      /\ content' = [content EXCEPT ![n] = body]
  BY DEF EditFile
<1>2. content' \in [Names -> Bodies \cup {Nothing}]
  BY <1>1 DEF PublishInv
<1>3. /\ page = [k \in Networks |-> page[k]]
      /\ \A k \in Networks : page[k] = [x \in Names |-> page[k][x]]
      /\ sequence \in [Networks -> Nat] /\ push = [k \in Networks |-> push[k]]
  BY DEF PublishInv
<1>4. \A k \in Networks : sequence[k] <= sequence[k]
  BY <1>3
<1> QED BY <1>1, <1>2, <1>3, <1>4, WorldMoves

LEMMA PublisherIsKept == PublishInv /\ [PublisherNext]_publishVars => PublishInv'
<1> SUFFICES ASSUME PublishInv, [PublisherNext]_publishVars PROVE PublishInv'
  OBVIOUS
<1>1. CASE UNCHANGED publishVars
  BY <1>1 DEF publishVars, PublishInv
<1>2. ASSUME NEW net \in Networks, NEW all \in BOOLEAN, NEW prune \in BOOLEAN,
             NEW mode \in Modes(site), Start(net, all, prune, mode)
      PROVE  PublishInv'
  BY <1>2, StartKeepsThePublisher
<1>3. ASSUME NEW net \in Networks, NEW answer, Unheard(net, answer) PROVE PublishInv'
  BY <1>3, UnheardKeepsThePublisher
<1>4. ASSUME NEW net \in Networks, ReadManifest(net) \/ WriteDocument(net) PROVE PublishInv'
  BY <1>4, ReadKeepsThePublisher, WriteKeepsThePublisher
<1>5. ASSUME NEW net \in Networks, NEW yes \in BOOLEAN, Sign(net, yes) \/ Broadcast(net, yes)
      PROVE  PublishInv'
  BY <1>5, SignKeepsThePublisher, BroadcastKeepsThePublisher
<1>6. ASSUME NEW net \in Networks, NEW n \in Names, Paste(net, n) PROVE PublishInv'
  BY <1>6, OthersKeepThePublisher
<1>7. ASSUME NEW net \in Networks, NEW n \in Names, NEW body \in Bodies \cup {Nothing},
             Elsewhere(net, n, body)
      PROVE  PublishInv'
  BY <1>7, OthersKeepThePublisher
<1>8. ASSUME NEW p \in DocPaths, RunScript(p) PROVE PublishInv'
  BY <1>8, ScriptKeepsThePublisher
<1>9. ASSUME NEW n \in Names, NEW body \in Bodies \cup {Nothing}, EditFile(n, body)
      PROVE  PublishInv'
  BY <1>9, EditKeepsThePublisher
<1> QED BY <1>1, <1>2, <1>3, <1>4, <1>5, <1>6, <1>7, <1>8, <1>9 DEF PublisherNext

\* Only a broadcast makes a document land, and the chain took its signature.
LEMMA LandingIsBroadcast ==
  ASSUME PublishInv, [PublisherNext]_publishVars, NEW net \in Networks, Landing(net)
  PROVE  /\ \E enough \in BOOLEAN : Broadcast(net, enough)
         /\ docs[PathOf(site, net)].sig = <<net, sequence[net]>>
<1> PICK i : i = push[net]
  OBVIOUS
<1>1. i.pc = "broadcast" /\ push'[net].pc = "idle" /\ sequence' # sequence
  BY DEF Landing
<1>2. push = [k \in Networks |-> push[k]]
  BY DEF PublishInv
<1>3. PublisherNext
  BY <1>1 DEF publishVars
<1>4. ASSUME NEW k \in Networks, NEW all, NEW prune, NEW mode, Start(k, all, prune, mode) PROVE FALSE
  BY <1>1, <1>4 DEF Start
<1>5. ASSUME NEW k \in Networks, NEW answer, Unheard(k, answer) PROVE FALSE
  BY <1>1, <1>5 DEF Unheard
<1>6. ASSUME NEW k \in Networks,
             ReadManifest(k) \/ WriteDocument(k) \/ \E yes \in BOOLEAN : Sign(k, yes)
      PROVE  FALSE
  BY <1>1, <1>6 DEF ReadManifest, WriteDocument, Sign
<1>7. ASSUME NEW p \in DocPaths, RunScript(p) PROVE FALSE
  BY <1>1, <1>7 DEF RunScript
<1>8. ASSUME NEW k \in Networks, NEW n, NEW body,
             Paste(k, n) \/ Elsewhere(k, n, body) \/ EditFile(n, body)
      PROVE  FALSE
  <2>1. UNCHANGED push
    BY <1>8 DEF Paste, Elsewhere, EditFile
  <2> QED BY <1>1, <2>1
<1>9. ASSUME NEW k \in Networks, NEW enough \in BOOLEAN, Broadcast(k, enough) PROVE k = net
  <2>1. push' = [push EXCEPT ![k] = NoPush]
    BY <1>9 DEF Broadcast, Set
  <2> SUFFICES ASSUME k # net PROVE FALSE
    OBVIOUS
  <2>2. push'[net] = i
    BY <1>2, <2>1
  <2> QED BY <1>1, <2>2
<1>10. \E enough \in BOOLEAN : Broadcast(net, enough)
  BY <1>3, <1>4, <1>5, <1>6, <1>7, <1>8, <1>9 DEF PublisherNext
<1>11. docs[PathOf(site, net)].sig = <<net, sequence[net]>>
  BY <1>1, <1>10, ToolsOwn DEF Broadcast
<1> QED BY <1>10, <1>11

\* What the chain took was built for where the account stands.
LEMMA LandedAsBuilt ==
  ASSUME PublishInv, [PublisherNext]_publishVars, NEW net \in Networks, Landing(net),
         NEW d, d = docs[PathOf(site, net)]
  PROVE  /\ d.net = net => d.seq = sequence[net]
         /\ site = "home" => d.net = net
         /\ Faithful(site, d)
<1>1. d.sig = <<net, sequence[net]>>
  BY LandingIsBroadcast
<1>2. /\ DocFits(site, d, scripts[PathOf(site, net)], PathOf(site, net), sequence)
      /\ sequence[net] \in Nat
      /\ PushFits(site, push[net], net, d) /\ push[net].pc = "broadcast"
  BY FormOfPush DEF Landing
<1>3. Faithful(site, d) /\ (site = "home" => d.net = net)
  BY <1>2 DEF PushFits
<1>4. d.net = net => d.seq <= sequence[net] /\ sequence[net] <= d.seq /\ d.seq \in Nat
  BY <1>1, <1>2 DEF DocFits
<1> QED BY <1>2, <1>3, <1>4

LEMMA LandedFaithfully ==
  ASSUME PublishInv, [PublisherNext]_publishVars, NEW net \in Networks, Landing(net),
         page' # page, NEW d, d = docs[PathOf(site, net)], NEW n \in Names
  PROVE  /\ d.loaded[n] # Nothing =>
               page'[net][n] = d.loaded[n] \/ (d.seen # <<>> /\ page[net][n] # d.seen[n])
         /\ page'[net][n] = Nothing /\ page[net][n] # Nothing =>
               d.prune /\ d.loaded[n] = Nothing
         /\ (d.seen # <<>> /\ d.prune /\ n \in extraChanges(d.loaded, d.seen)) =>
               page'[net][n] = Nothing
<1> PICK h, m, g, e : h = page[net] /\ m = d.msgs /\ g = page'[net]
                      /\ e = extraChanges(d.loaded, d.seen)
  OBVIOUS
<1>1. Faithful(site, d)
  BY LandedAsBuilt
<1>2. page' = [page EXCEPT ![net] = Applied(h, m)]
  BY LandingIsBroadcast, ToolsOwn DEF Broadcast
<1>3. g = Applied(h, m)
  BY <1>2 DEF PublishInv
<1>4. g[n] = IF n \notin DOMAIN m THEN h[n] ELSE IF m[n] = Delete THEN Nothing ELSE m[n]
  BY <1>3 DEF Applied
<1>5. /\ d.loaded[n] \in Bodies \cup {Nothing} /\ Delete \notin Bodies /\ Nothing \notin Bodies
      /\ n \in DOMAIN m => m[n] = IF d.loaded[n] = Nothing THEN Delete ELSE d.loaded[n]
      /\ n \in DOMAIN m /\ d.loaded[n] = Nothing => d.prune
      /\ n \notin DOMAIN m /\ d.loaded[n] # Nothing => d.seen # <<>> /\ d.loaded[n] = d.seen[n]
      /\ d.seen # <<>> /\ d.prune /\ n \in e => n \in DOMAIN m
  BY <1>1, ToolsOwn, PublisherAssumption DEF Faithful, Messages, Local
<1>6. n \in e => d.loaded[n] = Nothing
  BY DEF extraChanges, Local
<1> QED BY ONLY <1>4, <1>5, <1>6, h = page[net], g = page'[net], e = extraChanges(d.loaded, d.seen)

\* What LandsAsBuilt and PushIsFaithful say of a step.
AsBuiltStep ==
    [\A net \in Networks : Landing(net) =>
        LET d == docs[defaultBatchPath(net)]
        IN  /\ d.net = net => d.seq = sequence[net]
            /\ site = "home" => d.net = net]_publishVars

LEMMA LandingsAreAsBuilt == PublishInv /\ [PublisherNext]_publishVars => AsBuiltStep
BY LandedAsBuilt, ToolsOwn DEF AsBuiltStep

FaithfulStep ==
    [\A net \in Networks : (Landing(net) /\ page' # page) =>
        LET d == docs[defaultBatchPath(net)]
            known == d.seen # <<>>
        IN  d.net = net => \A n \in Names :
               /\ d.loaded[n] # Nothing =>
                     page'[net][n] = d.loaded[n] \/ (known /\ page[net][n] # d.seen[n])
               /\ page'[net][n] = Nothing /\ page[net][n] # Nothing =>
                     d.prune /\ d.loaded[n] = Nothing
               /\ (known /\ d.prune /\ n \in extraChanges(d.loaded, d.seen)) =>
                     page'[net][n] = Nothing]_publishVars

LEMMA LandingsAreFaithful == PublishInv /\ [PublisherNext]_publishVars => FaithfulStep
BY LandedFaithfully, ToolsOwn DEF FaithfulStep

\* PushesAreSound (TLC checks it on the tools): a signed document lands where its account
\* stood when it was built, so once at most, and on the chain it was built for; and what it
\* changes of the page is the diff its author was shown: tx.go and batch.go of gnohome and
\* gnoblog, whatever is edited, signed, printed or run again meanwhile.
THEOREM PushesStaySound == PublisherSpec => PushesAreSound
BY PublisherStarts, PublisherIsKept, LandingsAreAsBuilt, LandingsAreFaithful, PTL
   DEF PublisherSpec, PushesAreSound, LandsAsBuilt, PushIsFaithful, AsBuiltStep, FaithfulStep
-----------------------------------------------------------------------------
(* The dispatch: what each command promises, it promises of the tools as they run. *)

LEMMA OneCommandRuns ==
  ASSUME [ToolsNext]_toolsVars
  PROVE  /\ command' = command
         /\ (command = "vendor" /\ [VendorNext]_vendorVars) \/ UNCHANGED vendorVars
         /\ (command = "gno" /\ [ToolchainNext]_toolVars) \/ UNCHANGED toolVars
         /\ (command = "preview" /\ [PreviewNext]_previewVars) \/ UNCHANGED previewVars
         /\ (command = "status" /\ [CatalogNext]_catalogVars) \/ UNCHANGED catalogVars
         /\ [DrawingsNext]_drawVars
         /\ (command = "order" /\ [TopoNext]_topoVars) \/ UNCHANGED topoVars
         /\ (command = "publish" /\ [PublisherNext]_publishVars) \/ UNCHANGED publishVars
         /\ (command = "bench" /\ [BenchNext]_benchVars) \/ UNCHANGED benchVars
         /\ [WiringNext]_wiringVars
         /\ (command = "pr" /\ [PullRequestNext]_prVars) \/ UNCHANGED prVars
         /\ (command = "ratchet" /\ [RatchetNext]_ratchetVars) \/ UNCHANGED ratchetVars
<1>1. CASE UNCHANGED toolsVars
  BY <1>1 DEF toolsVars
<1>2. CASE vendorCommand
  BY <1>2 DEF vendorCommand
<1>3. CASE gnoCommand
  BY <1>3 DEF gnoCommand
<1>4. CASE previewCommand
  BY <1>4 DEF previewCommand
<1>5. CASE statusCommand
  BY <1>5 DEF statusCommand
<1>6. CASE graphCommand
  BY <1>6 DEF graphCommand
<1>7. CASE orderCommand
  BY <1>7 DEF orderCommand
<1>8. CASE publishCommand
  BY <1>8 DEF publishCommand
<1>9. CASE benchCommand
  BY <1>9 DEF benchCommand
<1>10. CASE wiringCommand
  BY <1>10 DEF wiringCommand
<1>11. CASE prCommand
  BY <1>11 DEF prCommand
<1>12. CASE ratchetCommand
  BY <1>12 DEF ratchetCommand
<1> QED BY <1>1, <1>2, <1>3, <1>4, <1>5, <1>6, <1>7, <1>8, <1>9, <1>10, <1>11, <1>12 DEF ToolsNext

VendorHeld == IF command = "vendor" THEN VendorInv ELSE VendorOff
ToolchainHeld == IF command = "gno" THEN ToolchainInv ELSE ToolchainOff
PreviewHeld == IF command = "preview" THEN PreviewInv ELSE PreviewOff
CatalogHeld == command = "status" => CatalogInv
TopoHeld == IF command = "order" THEN TopoInv ELSE TopoOff
PublisherHeld == command = "publish" => PublishInv
BenchHeld == IF command = "bench" THEN BenchInv ELSE BenchOff
PullRequestHeld == IF command = "pr" THEN PullRequestInv ELSE PullRequestOff
RatchetHeld == IF command = "ratchet" THEN RatchetInv ELSE RatchetOff

ToolsInv == /\ VendorHeld /\ ToolchainHeld /\ PreviewHeld /\ CatalogHeld /\ DrawingsInv
            /\ TopoHeld /\ PublisherHeld /\ BenchHeld /\ WiringInv /\ PullRequestHeld
            /\ RatchetHeld

LEMMA ToolsStart == ToolsInit => ToolsInv
<1> SUFFICES ASSUME ToolsInit PROVE ToolsInv
  OBVIOUS
<1>1. VendorHeld /\ ToolchainHeld /\ PreviewHeld /\ CatalogHeld
  BY VendorStarts, StartsSound, PreviewStarts, CatalogStarts
     DEF ToolsInit, VendorHeld, ToolchainHeld, PreviewHeld, CatalogHeld
<1>2. DrawingsInv /\ TopoHeld /\ PublisherHeld /\ BenchHeld
  BY DrawingsStart, OrderStarts, PublisherStarts, BenchInitSound
     DEF ToolsInit, TopoHeld, PublisherHeld, BenchHeld
<1>3. WiringInv /\ PullRequestHeld /\ RatchetHeld
  BY WiringStarts, FreshShapesMatch, RequestsStart, RatchetStarts
     DEF ToolsInit, WiringOff, PullRequestHeld, RatchetHeld
<1> QED BY <1>1, <1>2, <1>3 DEF ToolsInv

LEMMA ToolsAreKept == ToolsInv /\ [ToolsNext]_toolsVars => ToolsInv'
<1> SUFFICES ASSUME ToolsInv, [ToolsNext]_toolsVars PROVE ToolsInv'
  OBVIOUS
<1>1. VendorHeld'
  <2>1. VendorHeld /\ command' = command
        /\ ((command = "vendor" /\ [VendorNext]_vendorVars) \/ UNCHANGED vendorVars)
    BY OneCommandRuns DEF ToolsInv
  <2>2. CASE command = "vendor"
    BY <2>1, <2>2, VendorIsKept DEF VendorHeld
  <2>3. CASE command # "vendor"
    BY <2>1, <2>3 DEF VendorHeld, VendorOff, vendorVars, Idle
  <2> QED BY <2>2, <2>3
<1>2. ToolchainHeld'
  <2>1. ToolchainHeld /\ command' = command
        /\ ((command = "gno" /\ [ToolchainNext]_toolVars) \/ UNCHANGED toolVars)
    BY OneCommandRuns DEF ToolsInv
  <2>2. CASE command = "gno"
    BY <2>1, <2>2, StepsKeepIt DEF ToolchainHeld
  <2>3. CASE command # "gno"
    BY <2>1, <2>3 DEF ToolchainHeld, ToolchainOff, toolVars
  <2> QED BY <2>2, <2>3
<1>3. PreviewHeld'
  <2>1. PreviewHeld /\ command' = command
        /\ ((command = "preview" /\ [PreviewNext]_previewVars) \/ UNCHANGED previewVars)
    BY OneCommandRuns DEF ToolsInv
  <2>2. CASE command = "preview"
    BY <2>1, <2>2, PreviewIsKept DEF PreviewHeld
  <2>3. CASE command # "preview"
    BY <2>1, <2>3 DEF PreviewHeld, PreviewOff, previewVars
  <2> QED BY <2>2, <2>3
<1>4. CatalogHeld'
  BY OneCommandRuns, CatalogIsKept DEF ToolsInv, CatalogHeld
<1>5. DrawingsInv'
  BY OneCommandRuns, DrawingsAreKept DEF ToolsInv
<1>6. TopoHeld'
  <2>1. TopoHeld /\ command' = command
        /\ ((command = "order" /\ [TopoNext]_topoVars) \/ UNCHANGED topoVars)
    BY OneCommandRuns DEF ToolsInv
  <2>2. CASE command = "order"
    BY <2>1, <2>2, OrderIsKept DEF TopoHeld
  <2>3. CASE command # "order"
    BY <2>1, <2>3 DEF TopoHeld, TopoOff, topoVars
  <2> QED BY <2>2, <2>3
<1>7. PublisherHeld'
  BY OneCommandRuns, PublisherIsKept DEF ToolsInv, PublisherHeld
<1>8. BenchHeld'
  <2>1. BenchHeld /\ command' = command
        /\ ((command = "bench" /\ [BenchNext]_benchVars) \/ UNCHANGED benchVars)
    BY OneCommandRuns DEF ToolsInv
  <2>2. CASE command = "bench"
    BY <2>1, <2>2, BenchInvKept DEF BenchHeld
  <2>3. CASE command # "bench"
    BY <2>1, <2>3 DEF BenchHeld, BenchOff, benchVars
  <2> QED BY <2>2, <2>3
<1>9. WiringInv'
  BY OneCommandRuns, WiringIsKept DEF ToolsInv
<1>10. PullRequestHeld'
  <2>1. PullRequestHeld /\ command' = command
        /\ ((command = "pr" /\ [PullRequestNext]_prVars) \/ UNCHANGED prVars)
    BY OneCommandRuns DEF ToolsInv
  <2>2. CASE command = "pr"
    BY <2>1, <2>2, RequestsAreKept DEF PullRequestHeld
  <2>3. CASE command # "pr"
    BY <2>1, <2>3 DEF PullRequestHeld, PullRequestOff, prVars
  <2> QED BY <2>2, <2>3
<1>11. RatchetHeld'
  <2>1. RatchetHeld /\ command' = command
        /\ ((command = "ratchet" /\ [RatchetNext]_ratchetVars) \/ UNCHANGED ratchetVars)
    BY OneCommandRuns DEF ToolsInv
  <2>2. CASE command = "ratchet"
    BY <2>1, <2>2, RowsAreKept DEF RatchetHeld
  <2>3. CASE command # "ratchet"
    BY <2>1, <2>3 DEF RatchetHeld, RatchetOff, ratchetVars
  <2> QED BY <2>2, <2>3
<1> QED BY <1>1, <1>2, <1>3, <1>4, <1>5, <1>6, <1>7, <1>8, <1>9, <1>10, <1>11 DEF ToolsInv

LEMMA ToolsAlwaysHold == ToolsSpec => []ToolsInv
BY ToolsStart, ToolsAreKept, PTL DEF ToolsSpec

\* What a command that was not given promises holds of its state at rest.
LEMMA ToolsInvSaysIt ==
  ASSUME ToolsInv
  PROVE  /\ SelfContained /\ NoFalseGreen /\ PreviewIsHonest /\ ImagesCatchUp
         /\ OrderIsSound /\ StoreGasMatches /\ UnansweredWasUnread /\ DebtIsRecorded
<1>1. SelfContained
  <2>1. VendorOff => SelfContained
    BY DEF VendorOff, Idle, SelfContained
  <2> QED BY <2>1, KnownMeansResolved DEF ToolsInv, VendorHeld
<1>2. NoFalseGreen
  <2>1. ToolchainOff => NoFalseGreen
    BY DEF ToolchainOff, NoFalseGreen
  <2> QED BY <2>1, SoundMeansHonest DEF ToolsInv, ToolchainHeld
<1>3. PreviewIsHonest
  <2>1. ASSUME PreviewOff PROVE PreviewIsHonest
    <3>1. \A w \in Passes : crawl[w] = NoCrawl
      BY <2>1 DEF PreviewOff
    <3>2. \A w \in Passes : crawl[w].pages = {}
      BY <3>1 DEF NoCrawl
    <3>3. BudgetsAreForPages
      <4>1. \A w \in Passes, p \in Pkgs : ArgPages(w, p) = {}
        BY <3>2 DEF ArgPages
      <4>2. ArgBudget \in Nat /\ pc # "write"
        BY <2>1, PreviewAssumption DEF PreviewOff
      <4>3. \A w \in Passes, p \in Pkgs : Cardinality(ArgPages(w, p)) <= ArgBudget
        BY <4>1, <4>2, FS_EmptySet
      <4> QED BY <4>2, <4>3 DEF BudgetsAreForPages
    <3>4. NewIsAsserted
      BY <2>1 DEF PreviewOff, NewIsAsserted, NoPlan
    <3> QED BY <3>3, <3>4 DEF PreviewIsHonest
  <2> QED BY <2>1, PreviewSaysIt DEF ToolsInv, PreviewHeld
<1>4. ImagesCatchUp
  BY SettledMeansCaughtUp DEF ToolsInv
<1>5. OrderIsSound
  <2>1. TopoOff => OrderIsSound
    BY DEF TopoOff, OrderIsSound, IsInjective
  <2> QED BY <2>1, SoundOrder DEF ToolsInv, TopoHeld
<1>6. StoreGasMatches
  BY WiringSaysIt DEF ToolsInv
<1>7. UnansweredWasUnread
  BY DEF ToolsInv, PullRequestHeld, PullRequestOff, PullRequestInv, MergesInv,
         UnansweredWasUnread
<1>8. DebtIsRecorded
  <2>1. ASSUME RatchetOff PROVE DebtIsRecorded
    <3>1. /\ guard = "audit" /\ mainline.baseline = <<>>
          /\ mainline.sheet = [k \in Debts |-> [l \in Lines(k) |-> "clean"]]
      BY <2>1 DEF RatchetOff
    <3>2. \A k \in Debts : HitLines(mainline.sheet, k) = {}
      BY <3>1 DEF HitLines
    <3>3. \A k \in Debts : counted(mainline.sheet, k) = 0
      BY <3>1, <3>2, FS_EmptySet DEF counted
    <3>4. \A k \in Debts : RowOf(mainline.baseline, k) = 0
      BY <3>1 DEF RowOf
    <3> QED BY <3>2, <3>3, <3>4 DEF DebtIsRecorded
  <2> QED BY <2>1, RowsMeanDebts DEF ToolsInv, RatchetHeld
<1> QED BY <1>1, <1>2, <1>3, <1>4, <1>5, <1>6, <1>7, <1>8

\* Whichever command runs, with graph and the wiring suite running beside it: what each
\* component promises holds of the tools as they are dispatched (main.go).
THEOREM ToolsKeepTheirPromises ==
  ToolsSpec => [](/\ SelfContained /\ NoFalseGreen /\ PreviewIsHonest /\ ImagesCatchUp
                 /\ OrderIsSound /\ StoreGasMatches /\ UnansweredWasUnread
                 /\ DebtIsRecorded)
<1>1. ToolsInv => /\ SelfContained /\ NoFalseGreen /\ PreviewIsHonest /\ ImagesCatchUp
                  /\ OrderIsSound /\ StoreGasMatches /\ UnansweredWasUnread
                  /\ DebtIsRecorded
  BY ToolsInvSaysIt
<1> QED BY <1>1, ToolsAlwaysHold, PTL

\* And the gate of gnobench, under the limits it needs.
THEOREM ToolsGateIsHonest ==
  ASSUME Threshold <= FailOver, FailOver < 100
  PROVE  ToolsSpec => []GateIsHonest
<1>1. ToolsInv => GateIsHonest
  <2>1. BenchOff => GateIsHonest
    BY DEF BenchOff, GateIsHonest, NoBench
  <2>2. BenchInv => GateIsHonest
    BY GateOfJob DEF BenchInv, GateHonest, GateIsHonest
  <2> QED BY <2>1, <2>2 DEF ToolsInv, BenchHeld
<1> QED BY <1>1, ToolsAlwaysHold, PTL

\* What no step of a component does, no step of the tools does.
THEOREM ToolsStepsAreSound ==
  ToolsSpec => /\ RefreshIsLocal /\ PinsSurvive /\ PermanentIsReviewed /\ StatusIsHonest
               /\ PushesAreSound
<1>1. ToolsSpec => RefreshIsLocal
  <2>1. ToolsInv /\ [ToolsNext]_toolsVars => [StaysLocal]_benchVars
    BY OneCommandRuns, RefreshStepsStayLocal DEF ToolsInv, BenchHeld
  <2> QED BY <2>1, ToolsAlwaysHold, PTL DEF ToolsSpec, RefreshIsLocal, StaysLocal
<1>2. ToolsSpec => PinsSurvive
  <2>1. ToolsInv /\ [ToolsNext]_toolsVars =>
          [\A p \in PRs : Landed(p) /\ ~branch[p].warned =>
             \A m \in NewPins(base, base') : base'.pins[m] \in base'.commits]_prVars
    BY OneCommandRuns, LandedPinsResolve DEF ToolsInv, PullRequestHeld
  <2> QED BY <2>1, ToolsAlwaysHold, PTL DEF ToolsSpec, PinsSurvive
<1>3. ToolsSpec => PermanentIsReviewed
  <2>1. ToolsInv /\ [ToolsNext]_toolsVars =>
          [\A p \in PRs : Landed(p) =>
             \A d \in branch[p].wrote :
                LET m == <<d, base'.dirs[d].v>>
                IN  m \notin deployed["mainnet"] =>
                       branch[p].review \/ \E o \in branch[p].row : o[1] = d /\ o # m]_prVars
    BY OneCommandRuns, LandedIsReviewed DEF ToolsInv, PullRequestHeld
  <2> QED BY <2>1, ToolsAlwaysHold, PTL DEF ToolsSpec, PermanentIsReviewed
<1>4. ToolsSpec => StatusIsHonest
  <2>1. ToolsInv /\ [ToolsNext]_toolsVars =>
          (CatalogInv /\ [CatalogNext]_catalogVars) \/ UNCHANGED catalogVars
    BY OneCommandRuns DEF ToolsInv, CatalogHeld
  <2>2. ToolsInv /\ [ToolsNext]_toolsVars => StatusKeptStep
    BY <2>1, PushesKeepStatus DEF StatusKeptStep
  <2>3. ToolsInv /\ [ToolsNext]_toolsVars => AbsenceStep
    BY <2>1, ListingsAssertAbsence DEF AbsenceStep
  <2> QED BY <2>2, <2>3, ToolsAlwaysHold, PTL
          DEF ToolsSpec, StatusIsHonest, StatusIsKept, AbsentIsAsserted, StatusKeptStep,
              AbsenceStep
<1>5. ToolsSpec => PushesAreSound
  <2>1. ToolsInv /\ [ToolsNext]_toolsVars =>
          (PublishInv /\ [PublisherNext]_publishVars) \/ UNCHANGED publishVars
    BY OneCommandRuns DEF ToolsInv, PublisherHeld
  <2>2. ToolsInv /\ [ToolsNext]_toolsVars => AsBuiltStep
    BY <2>1, LandingsAreAsBuilt DEF AsBuiltStep
  <2>3. ToolsInv /\ [ToolsNext]_toolsVars => FaithfulStep
    BY <2>1, LandingsAreFaithful DEF FaithfulStep
  <2> QED BY <2>2, <2>3, ToolsAlwaysHold, PTL
          DEF ToolsSpec, PushesAreSound, LandsAsBuilt, PushIsFaithful, AsBuiltStep, FaithfulStep
<1> QED BY <1>1, <1>2, <1>3, <1>4, <1>5
=============================================================================
