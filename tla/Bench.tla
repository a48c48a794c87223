------------------------------- MODULE Bench -------------------------------
(***************************************************************************)
(* gnobench (src/gnobench: run.go, store.go, compare.go, main.go) and the  *)
(* two jobs that run it (.github/workflows/gnobench.yml): a suite is       *)
(* measured, the rows are folded into the file of the machine, what moved  *)
(* is compared with the file of before, and the weekly job pushes its file *)
(* on whatever main has become meanwhile.                                  *)
(***************************************************************************)
EXTENDS Integers, FiniteSets

CONSTANTS
    Candidates, Workloads,
    BaselineOf,     \* [Workloads -> Workloads \cup {NoWorkload}]
    NoWorkload,
    Phases,         \* [Workloads -> Nat]: the phases a workload runs after the build
    Packages,       \* the packages the candidates are made of
    Imports,        \* [Candidates -> SUBSET Packages]: what a candidate imports
    Runs,           \* [Candidates -> SUBSET Packages]: what it runs, imports of imports too
    Skips,          \* rows a candidate declares it does not have
    Runner,         \* the machine of the workflow; laptop: another one
    Laptop,
    Benches,          \* what may be in progress at once
    Threshold,      \* -threshold, percent
    FailOver,       \* -fail-over, percent
    MaxShown,       \* rows compare prints
    PushTries,      \* attempts of the weekly job
    MaxStarts       \* bound on the jobs started, for model checking

Keys == Candidates \X Workloads
Machines == {Runner, Laptop}

ASSUME BenchAssumption ==
    /\ IsFiniteSet(Keys) /\ NoWorkload \notin Workloads
    /\ BaselineOf \in [Workloads -> Workloads \cup {NoWorkload}]
    /\ Phases \in [Workloads -> Nat]
    /\ \A w \in Workloads : Phases[w] = IF BaselineOf[w] = NoWorkload THEN 0
                                          ELSE Phases[BaselineOf[w]] + 1
    /\ Imports \in [Candidates -> SUBSET Packages] /\ Runs \in [Candidates -> SUBSET Packages]
    /\ \A c \in Candidates : IsFiniteSet(Runs[c]) /\ Imports[c] \subseteq Runs[c]
    \* Who skips a workload skips what is measured over it.
    /\ Skips \subseteq Keys
    /\ \A c \in Candidates, w \in Workloads : <<c, BaselineOf[w]>> \in Skips => <<c, w>> \in Skips
    /\ Runner # Laptop
    /\ {Threshold, FailOver, MaxShown, MaxStarts} \subseteq Nat /\ PushTries \in Nat \ {0}

VARIABLES
    trunk,          \* origin/main: sources, result files, the README's region, revision
    bench,           \* [Benches -> job]
    started         \* jobs started so far

benchVars == <<trunk, bench, started>>

\* How heavy each package is; what a row costs is what its candidate runs.
Sources == [Packages -> {"lean", "heavy"}]
Heavy(c, src) == Cardinality({p \in Runs[c] : src[p] = "heavy"})
BuildCost(c, src) == 2 + Heavy(c, src)
PhaseCost(c, src) == 1 + Heavy(c, src)

\* Row: gas, the gas with the baseline taken out, how it went, and (history) the sources.
Row(k, src) ==
    [gas |-> BuildCost(k[1], src) + Phases[k[2]] * PhaseCost(k[1], src),
     dgas |-> 0, went |-> "ok", of |-> src]
NoGas(why, src) == [gas |-> 0, dgas |-> 0, went |-> why, of |-> src]

\* Plausible bug: a baseline that failed is subtracted as it is.
EvenFailed(rows, b) == b \in DOMAIN rows
\* A baseline that this run measured.
Measured(rows, b) == b \in DOMAIN rows /\ rows[b].went # "err"

\* Deltas: a row whose baseline is not there keeps no delta at all.
Deltas(rows) ==
    [k \in DOMAIN rows |->
       LET r == rows[k]
           b == <<k[1], BaselineOf[k[2]]>>
       IN  CASE BaselineOf[k[2]] = NoWorkload \/ r.went # "ok" -> [r EXCEPT !.dgas = r.gas]
             [] BaselineOf[k[2]] # NoWorkload /\ r.went = "ok" /\ Measured(rows, b) ->
                   [r EXCEPT !.dgas = r.gas - rows[b].gas]
             [] OTHER -> r]

\* Run: what is skipped is recorded whatever the filter says.
Run(src, filter, failing) ==
    Deltas([k \in filter \cup Skips |-> CASE k \in Skips -> NoGas("skip", src)
                                          [] k \in failing \ Skips -> NoGas("err", src)
                                          [] OTHER -> Row(k, src)])

\* Fold: a row measured again replaces the one of before.
Fold(file, rows) == [k \in DOMAIN file \cup DOMAIN rows |->
                        IF k \in DOMAIN rows THEN rows[k] ELSE file[k]]

NoFile == [k \in {} |-> NoGas("skip", [p \in Packages |-> "lean"])]
NoBench == [pc |-> "idle", kind |-> "delta", machine |-> Runner, base |-> <<>>, tree |-> <<>>,
           filter |-> {}, measured |-> {}, tries |-> 0, passed |-> FALSE]

\* updateREADME: the generated region is a function of the result files, whichever of them
\* was measured last; it is kept as those files.
Region(results) == results
\* report -check.
Stale(files) == files.readme # Region(files.results)

BenchInit ==
    /\ LET src == [p \in Packages |-> "lean"]
           results == [m \in Machines |-> IF m = Runner THEN Run(src, Keys, {}) ELSE NoFile]
       IN  trunk = [src |-> src, results |-> results, readme |-> Region(results), rev |-> 0]
    /\ bench = [t \in Benches |-> NoBench] /\ started = 0
-----------------------------------------------------------------------------
Advance(t, job) == bench' = [bench EXCEPT ![t] = job]

\* A pull request that changes packages; someone at a laptop; the weekly job.
StartBench(t, kind, src) ==
    /\ bench[t].pc = "idle" /\ t = CHOOSE u \in Benches : bench[u].pc = "idle"
    /\ started < MaxStarts /\ started' = started + 1
    /\ kind = "delta" <=> src # trunk.src
    /\ Advance(t, [NoBench EXCEPT !.pc = IF kind = "delta" THEN "scope" ELSE "measure",
                      !.kind = kind, !.machine = IF kind = "laptop" THEN Laptop ELSE Runner,
                      !.base = trunk, !.tree = [trunk EXCEPT !.src = src],
                      !.filter = Keys, !.tries = PushTries])
    /\ UNCHANGED trunk

Changed(job) == {p \in Packages : job.tree.src[p] # job.base.src[p]}

\* AffectedDecision: the candidates that import what changed, themselves.
Affected(changed) == {k \in Keys : Imports[k[1]] \cap changed # {}}

\* The job stops at a README that is not the one of the results; then it measures what
\* the change affects, or nothing.
Scope(t) ==
    LET job == bench[t]
        filter == Affected(Changed(job))
    IN  /\ job.pc = "scope"
        /\ IF Stale(job.tree) \/ filter = {} THEN Advance(t, NoBench)
           ELSE Advance(t, [job EXCEPT !.pc = "measure", !.filter = filter])
        /\ UNCHANGED <<trunk, started>>

\* -filter, by hand: some of the workloads.
Narrow(t, ws) ==
    /\ bench[t].pc = "measure" /\ bench[t].kind = "laptop" /\ bench[t].filter = Keys
    /\ Advance(t, [bench[t] EXCEPT !.filter = Candidates \X ws])
    /\ UNCHANGED <<trunk, started>>

\* cmdRun: measure, load, merge, save, and the reports and the README after it.
Measure(t, failing) ==
    LET job == bench[t]
        rows == Run(job.tree.src, job.filter, failing)
        tree == [job.tree EXCEPT !.results[job.machine] = Fold(@, rows)]
    IN  /\ job.pc = "measure"
        /\ Advance(t, [job EXCEPT !.pc = IF job.kind = "refresh" THEN "hold" ELSE "compare",
                          !.tree = [tree EXCEPT !.readme = Region(tree.results)],
                          !.measured = DOMAIN rows])
        /\ UNCHANGED <<trunk, started>>
-----------------------------------------------------------------------------
Usable(file) == {k \in DOMAIN file : file[k].went = "ok"}       \* readRows

\* In percent of what it was; anything out of nothing is 100.
pct(before, after) ==
    IF before = 0 THEN IF after = 0 THEN 0 ELSE 100
    ELSE (100 * (after - before)) \div before
Size(n) == IF n < 0 THEN -n ELSE n

\* The rows that are listed, by how much their gas moved: those whose gas moved enough,
\* those whose bytes did, and those only one side has, which move by 0.
Moves(before, after, bytes) ==
    LET both == Usable(before) \cap Usable(after)
        move(k) == IF k \in both THEN pct(before[k].dgas, after[k].dgas) ELSE 0
    IN  [k \in {k \in Usable(before) \cup Usable(after) :
                   k \notin both \/ Size(move(k)) >= Threshold \/ k \in bytes} |-> move(k)]

\* The rows that are printed: the largest moves, ties as they fall.
Printable(moves, shown) ==
    /\ shown \subseteq DOMAIN moves
    /\ Cardinality(shown) = MaxShown \/ shown = DOMAIN moves
    /\ Cardinality(shown) <= MaxShown
    /\ \A k \in shown, j \in DOMAIN moves \ shown : Size(moves[k]) >= Size(moves[j])

\* cmdCompare -fail-over: the worst gas of what is printed decides, 0 disables; how the
\* bytes of the rows moved is not known here.
Compare(t) ==
    LET job == bench[t]
        before == job.base.results[job.machine]
    IN  /\ job.pc = "compare"
        /\ \E bytes \in SUBSET Usable(before) :
             LET moves == Moves(before, job.tree.results[job.machine], bytes)
             IN  \E shown \in SUBSET DOMAIN moves :
                   /\ Printable(moves, shown)
                   /\ Advance(t, [job EXCEPT !.pc = "land",
                                     !.passed = \/ DOMAIN before = {} \/ FailOver = 0
                                                \/ \A k \in shown : moves[k] <= FailOver])
        /\ UNCHANGED <<trunk, started>>

\* The pull request is merged, or not.  The job commits nothing; what a laptop measured
\* is committed with its reports, and conflicts with any other regeneration.
Land(t, merged) ==
    LET job == bench[t]
    IN  /\ job.pc = "land"
        /\ merged => job.kind = "delta" \/ trunk.readme = job.base.readme
        /\ trunk' = CASE ~merged -> trunk
                      [] merged /\ job.kind = "delta" ->
                            [trunk EXCEPT !.rev = @ + 1,
                               !.src = [p \in Packages |-> IF p \in Changed(job)
                                                           THEN job.tree.src[p] ELSE @[p]]]
                      [] merged /\ job.kind = "laptop" ->
                            [trunk EXCEPT !.rev = @ + 1, !.readme = job.tree.readme,
                               !.results[job.machine] = job.tree.results[job.machine]]
        /\ Advance(t, NoBench) /\ UNCHANGED started
-----------------------------------------------------------------------------
\* Plausible bug: the whole directory is held and put back.
WholeDirectory(job, results) == job.tree.results
\* Only the file this run wrote is held, and put back on what main has by now.
PutBack(job, results) == [results EXCEPT ![job.machine] = job.tree.results[job.machine]]

\* fetch, reset --hard origin/main, copy back, report: nothing is replayed.
Rebuild(t) ==
    LET job == bench[t]
        results == PutBack(job, trunk.results)
    IN  /\ job.pc = "hold"
        /\ Advance(t, [job EXCEPT !.pc = "push",
                          !.tree = [trunk EXCEPT !.results = results,
                                        !.readme = Region(results)]])
        /\ UNCHANGED <<trunk, started>>

\* The remote takes it if nothing was merged since the fetch.
PushResults(t) ==
    LET job == bench[t]
    IN  /\ job.pc = "push"
        /\ IF job.tree.rev = trunk.rev
           THEN trunk' = [job.tree EXCEPT !.rev = @ + 1] /\ Advance(t, NoBench)
           ELSE /\ Advance(t, IF job.tries = 1 THEN NoBench
                              ELSE [job EXCEPT !.pc = "hold", !.tries = @ - 1])
                /\ UNCHANGED trunk
        /\ UNCHANGED started

BenchNext ==
    \E t \in Benches :
       \/ \E kind \in {"delta", "laptop", "refresh"}, src \in Sources : StartBench(t, kind, src)
       \/ Scope(t) \/ Compare(t) \/ Rebuild(t) \/ PushResults(t)
       \/ \E ws \in SUBSET Workloads \ {{}} : Narrow(t, ws)
       \/ \E failing \in {{}} \cup {{k} : k \in Keys} : Measure(t, failing)
       \/ \E merged \in BOOLEAN : Land(t, merged)

BenchSpec == BenchInit /\ [][BenchNext]_benchVars
-----------------------------------------------------------------------------
BenchTypeOK ==
    /\ trunk.src \in Sources /\ trunk.rev \in Nat /\ started \in 0 .. MaxStarts
    /\ \A m \in Machines : DOMAIN trunk.results[m] \subseteq Keys
    /\ \A t \in Benches : /\ bench[t].pc \in {"idle", "scope", "measure", "compare", "land",
                                           "hold", "push"}
                        /\ bench[t].tries \in 0 .. PushTries

\* What a row should read for given sources.
TrueDelta(k, src) == IF BaselineOf[k[2]] = NoWorkload THEN BuildCost(k[1], src)
                     ELSE PhaseCost(k[1], src)

\* A comparison that passes hides no regression of a row both files have: not one over
\* the limit, if there is a limit, unless the table had no room for it, or the row was not measured again
\* because what changed is below its imports or the filter left it out, or it was
\* measured without its baseline and reads 0.
GateIsHonest ==
    \A t \in Benches : (bench[t].pc = "land" /\ bench[t].passed /\ FailOver # 0) =>
       LET before == bench[t].base.results[bench[t].machine]
           after == bench[t].tree.results[bench[t].machine]
           moves == Moves(before, after, {})
       IN  \A k \in Usable(before) \cap Usable(after) :
             pct(TrueDelta(k, before[k].of), TrueDelta(k, bench[t].tree.src)) > FailOver =>
                \/ k \in DOMAIN moves /\ Cardinality({j \in DOMAIN moves \ {k} :
                                            Size(moves[j]) >= Size(moves[k])}) >= MaxShown
                \/ k \notin bench[t].measured
                   /\ (bench[t].kind = "delta" => Changed(bench[t]) \cap Imports[k[1]] = {})
                \/ after[k].dgas = 0

\* A push of results changes the file of the machine that measured and the README is the
\* one of the results pushed, whatever landed during the measurement.  In that file only
\* the rows that were measured move, unless a second run on the same machine was pushed
\* meanwhile: its rows are overwritten.
RefreshIsLocal ==
    [][trunk'.results # trunk.results =>
          /\ trunk'.readme = trunk'.results /\ trunk'.src = trunk.src
          /\ \E t \in Benches :
                LET m == bench[t].machine
                IN  /\ bench[t].pc \in {"push", "land"} /\ bench'[t].pc = "idle"
                    /\ \A other \in Machines \ {m} : trunk'.results[other] = trunk.results[other]
                    /\ \/ bench[t].base.results[m] # trunk.results[m]
                       \/ /\ DOMAIN trunk.results[m] \subseteq DOMAIN trunk'.results[m]
                          /\ \A k \in DOMAIN trunk.results[m] \ bench[t].measured :
                                trunk'.results[m][k] = trunk.results[m][k]]_benchVars
=============================================================================
