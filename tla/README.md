# A verification project for moul/gno-contracts

The repository holds smart contracts for gno.land: packages (`p/moul/*`,
libraries) and realms (`r/moul/*`, contracts with state), and the Go programs
that build, catalog, preview, measure, guard and publish them (`tools/*`,
`gnobench`, and the workflows that run these).  This project models the contracts
that keep other people's money, decisions or names, and the programs whose
steps meet other processes, other machines or an earlier run of themselves; it
checks the models with TLC and proves theorems about them with TLAPS.

A transaction on the chain is atomic and transactions are totally ordered: a
`panic` undoes everything the call did.  So each exported function of a realm is
one action, its checks are the guard, and a refused call is no step.  What makes
these contracts hard is not concurrency but *sequence*: any caller may make any
call at any height, a decision takes several calls of several people while the
electorate changes under it, and integers round, wrap or fill up.

The tools are ordinary programs, and what makes them hard is everything a
contract is spared: goroutines, child processes that die, endpoints that are
down or refuse after a burst, files half written by a run that was interrupted,
a main branch that moves between a check and a merge or between a fetch and a
push, and chains that change between two reads.

## Inventory

| component | state | operations | hard behaviour | correct when |
|---|---|---|---|---|
| **grants** `p/moul/grants`, realm `r/moul/grant` | board members; requests with their votes, milestones, attempts and reviews; payments; donations; the realm's balance | apply (for oneself or for others), propose a member, vote, withdraw, offer a proof, review it (and pay), fund; plain transfers | the bar moves while ballots stand; members leave and return; previews run before the call that decides; approvals exceed the balance; the payee may be the treasury | each ballot counts once; carried by a majority; paid once, in order, covered; nothing rewritten |
| **curated** `p/` and `r/moul/x/social/curated` | entries, challenges, credits, `owed`, `locked`, balance | apply, challenge, vote, resolve, unlist, withdraw | deadlines; a full ledger of credits; owner and challenger in conflict | every coin backed; money moves only by a verdict; nothing keeps a challenge open but coins left uncollected |
| **crew** `p/moul/x/social/crew`, realm `crews`, `p/moul/xmath` | crews (treasury, shares), proposals, credits, `owed`, balance | create, join, fund, propose, vote, close, ragequit, withdraw | rounding in both directions; caps of integers; ballots replaced after shares changed | no share loses value; no dust is stranded; tallies are sums |
| **gns** `r/moul/gns` | names (owner, lease, generations, policies, operators, records), two indexes, commitments, reverse records, configuration | commit, register, renew, transfer, subnames, policies and locks, operators, records, primary names, administration | expiry, grace and recycling down a chain of parents; delegated rights; pause | leases honoured; indexes agree; locks final; no subname outlives its parent |
| patron, vouch, coin, threads (`p/` and `r/moul/x/social`) | supporters and credits; vouches; balances; posts | support, claim; vouch, revoke; ... | the same ledger of credits; decaying weights | as curated and crews |
| **amm** `r/moul/x/amm`, **pair** `p/moul/x/pair` | reserves and shares of each pool, the realm's token balances | add and remove liquidity, swap, move shares; plain transfers | rounding, integer range, pools sharing one balance, a pool emptied and opened again | prices exact; no share diluted; each pool whole; solvent |
| zones, grc20wrap, faucets, vesting | namespaces; baskets; gift times; schedules | delegate; wrap, unwrap; drip; claim | policies, rounding, clocks | planned, see below |
| forge, agents, wiki, gnopm, wesh, games | records | mostly append-only records with permissions | little interaction | candidates |
| data structures, VMs, plan9, daily packages, rendering | sequential code | pure functions | none a model would show better than a test | not modelled |
| **vendor** `tools/gnocontracts` | the files under `vendor/`, the work list | walk imports, copy from examples or from a chain, retry | interrupted copies, refusals, sources edited between runs | success means self-contained |
| **gno** | the pool, the shared list of failures | lint, test, fmt over packages | goroutines over one list and one output | green means clean |
| **preview** | the plan, two gnodev processes, a crawl each, pictures | plan, boot, crawl, base pass, report | a process that dies at any moment; budgets checked twice; a base that fails halfway | says only what was seen; always returns and leaves no process |
| **manifest, status** and `main.yml` | `contracts.json` on main and in a checkout; what each chain holds | sync, manifest, status, push | two reads of a chain, failing queries, lost push races, versions not materialized | no status made up or lost; the catalog catches up |
| **graph** | a `.dot` and two images per figure | render what changed | graphviz absent or failing | images show their figure |
| **gnohome, gnoblog** | files, the page on each chain, account sequences, documents, scripts | diff, write, sign, broadcast, paste | edits, other signatures and other invocations between any two steps; reruns | lands once, as built |
| **gnobench** and `gnobench.yml` | result files per machine, the README's region | run, fold, compare, refresh | failed baselines, partial runs, concurrent pushes | the gate hides nothing; a push is local |
| **gnobench wiring** | counters under the cache of a transaction | writes in one transaction or many | reads and writes repeated in a cache | counters come to the gas a chain charges |
| **pull requests**: `pr`, lock report, review advice, `guard-private` | branches, pins, the catalog, deployments | check, then squash later | everything read may have moved by the merge | pins resolve; what becomes permanent was reviewed; what a check read was answered |
| **ratchets**: `gnovet`, `audit-patterns`, `guard-tables` | lines, baselines | record, judge, merge | partial recordings, pull requests judged apart | every debt is in the baseline, and no other |
| rules of `gnovet`, reports of `gnobench`, README tables, generators, web | sequential code | pure functions of sources or of a file | none | not modelled |

How they interact: a realm owns the coins and wraps one package object per
application (grants in `r/moul/grant`, a registry in `curated`, crews in
`crews`); packages hold no coins.  The realm reads the caller, the coins sent
with the call and the height, calls the package, and moves coins by the bank.
`crew` computes with `xmath`.  The market `amm` moves GRC20 tokens instead of
coins and keeps its shares as tokens; `pair` is one such pool as a library, with
shares of its own.  Between realms nothing is shared but the bank and the tokens.
`PROJECT.json` lists every component, the ones left out with the reason, and
every hazard at its line.

## Modules

| module | models | state ↔ code |
|---|---|---|
| `GrantBoard` | `p/moul/grants` (`grants.gno`, `lifecycle.gno`) | `members`, `requests` ↔ `Board.members`, `Board.requests`; a request's index is its id |
| `GrantTreasury` | abstract: what a grant program promises about its money | `pot`, `promised`, `paid` |
| `GrantRealm` (extends `GrantBoard`) | `r/moul/grant` and `program.gno` | `treasury` ↔ the bank's balance; `payments` ↔ `Program.Payments`; `raised` ↔ `Raised()`; `received` is history |
| `PullPayments` | abstract: coins are locked or owed, and leave to their payee | `held`, `locked`, `owed`, `credits` |
| `Curated` | package and realm `curated` | `entries`, `credits`, `owed`, `locked` ↔ fields of `Registry`; `held` ↔ the balance; `wallet` is history |
| `Crews` | `crew`, `crews`, `MulDiv` | `crews`, `props`, `credits`, `owed` ↔ fields of `Crews`; `held` ↔ the balance |
| `Gns` | `r/moul/gns` | `names`, `commitments`, `reverse`, `byOwner`, `byParent` ↔ the trees; `admin`, `paused`, ... ↔ `config`; `now` ↔ `now()`; ids and `created` are history |
| `ConstantProduct` | the arithmetic of a pool, in `p/moul/x/pair` (and, the same, in `amm`) | no state: prices, trimming, shares, pay-outs |
| `Amm` (extends `ConstantProduct`) | `r/moul/x/amm` | `res`, `supply`, `shares` ↔ `resA`, `resB` and the ledger `lp` of each `pool`; `held` ↔ the realm's balance of each token |
| `Pair` (extends `ConstantProduct`) | `p/moul/x/pair` | `res`, `total`, `shares` ↔ fields of `Pair` |
| `Vendor` | `vendor.go`, `vendor_chain.go` | `vendor` ↔ the directory; `job` ↔ the variables of `cmdVendor`; `tree` ↔ the imports of the sources |
| `Toolchain` | `gno.go` | `step` ↔ where each goroutine is; `lock`, `failed` ↔ `mu`, `failed`; `read` ↔ the slice header `append` works on |
| `Preview` | `preview*.go` | `plan` ↔ `previewPlan`; `node`, `died`, `waited` ↔ each process and its channels; `crawl` ↔ `Crawler` |
| `Catalog` | `manifest.go`, `status.go`, `chainprobe.go`, `deployments.go`, `main.yml` | `main` ↔ origin/main; `clone`, `synced` ↔ the checkout and `.gnopm/`; `ci` ↔ the job and the loops of `cmdStatus` |
| `Drawings` | `graph.go` | `dot`, `svg`, `png` ↔ the files, by the version of the figure they show; `missed` is history |
| `TopoOrder` | `topoOrder` | `indeg`, `ready`, `order` ↔ its locals.  No command calls it at this commit |
| `Publisher` | `tools/gnohome`, `tools/gnoblog` | `content` ↔ the files; `docs`, `scripts` ↔ what is written to disk; `push` ↔ an invocation; the rest is the chain |
| `Bench` | `gnobench` and its workflow | `trunk` ↔ main; `bench` ↔ a job, its checkout and its rows |
| `Wiring` | the wiring suite | `shape`, `op` ↔ a store with its `countStore`, the cache over it, and what a chain would have charged |
| `PullRequest` | `pr.go`, `report_lock.go`, `review_advice.go`, `guard_private.go` | `base`, `branch` ↔ git; `catalog` ↔ `contracts.json`; `deployed` ↔ the chains; `frozen` is history |
| `Ratchet` | `gnovet.go`, `audit_patterns.go`, `guard_tables.go` | `mainline`, `patch` ↔ lines and baseline of main and of a branch; `raced` is history |
| `Tools` | `main.go` | `command`: which of the eleven a behaviour is about |
| `MC*` | constants for TLC | |
| `Sums` | lemmas on sums over finite sets, used by four of the proof modules | |
| `*_proofs` | theorems and proofs: one module to a contract, two for the tools | |

Actions carry the names of the exported functions (in `Curated`, `Object` is
`Challenge`, a name the record has; in `GrantRealm` the realm's `Vote`,
`SubmitProof`, `Review` and `Withdraw` are `CastVote`, `OfferProof`,
`JudgeProof` and `Retract`, since they contain the board's).  `map` in
`PROJECT.json` gives the lines each definition stands for.

Abstractions.  Addresses, keys, ids of crews and proposals are model values.
Texts, URLs, block heights used only as a record, listings and events are left
out: no guard but length limits reads them.  A key that a tree does not hold
maps to a model value (`NoEntry`, `NoCrew`, `NoName`, ...); a credit that is not
there is 0.  An amount is an integer; where the code adds without a check
(`Total`, `Committed`) the sum wraps at `IntBits` bits, and where it checks, the
check is a guard against `MaxInt`.  A name of `gns` is the sequence of its
labels, so a parent is a tail.  The commitment hash is taken to be injective.
In the market a token has at most `MaxInt` units, so what is not in the realm is
all a caller can have (`Pullable`); the product before and after a trade is
compared exactly, as `cmpProd` does in 128 bits; a pool nobody has opened is a
pool without shares.
Coins sent to the realms of `curated` and `crews` without a call are left out,
as no code there reads the balance; `r/moul/grant` does read it, so `BankSend`
is an action.

In the tools a file is what it holds of interest (a version, a mark, a body out
of two), a package is a name with its imports, and a query is an answer out of a
few kinds.  What order a program takes from sorted names is left open where
nothing depends on it.  `git` is its effect: a squash merge takes from each side
what the other left alone, line by line (the version and the answer of one
`gnomod.toml` are lines apart and merge, `ByLine`), and is refused where both
changed one line (`Clash`); a push is accepted when nothing was merged since the
fetch.  A file an author names for a transaction (`-batch`, `-out`) is taken to be
the default one, which is one to a chain in gnohome and one for all in gnoblog.  Only the hourly workflow writes the catalog
(`guard-generated` refuses it in pull requests).  What is not Go code of this
repository, the chain, gnodev, gnopm, git, gnokey and the authors, is *external*:
its actions are as free as the code that meets them allows.  `Tools` runs one
command to a behaviour and parks the variables of the others; the modules have
specifications of their own, their theorems are about those, and the last part of
`Tools_proofs` carries them over to `Tools`.

Definitions commented `Mutant:` or `Plausible bug:` are wrong variants of the
definition below them, used by no specification: putting one in the place of the
definition makes the property named with it in `PROJECT.json` fail.

## What the runs check

All runs are exhaustive within their bounds.  `CHECK_DEADLOCK FALSE` everywhere:
bounded runs come to an end (no request left to file, no time left), and so may
the programs.

| run | instance | shows |
|---|---|---|
| `board_decisions` | 3 members, a grant of 2 tranches (or an application with an illegal amount, refused) and up to 2 membership changes, 2 requests in all, 2 attempts per tranche | `BallotsAreSound`, `ReleasedInOrder`, `DecidedByMajority`, `PreviewsAgree`, `RecordsArePermanent` |
| `realm_money` | 2 founders, an outsider, the treasury as payee, deposits of 3 against tranches of 1 and 2, 2 requests | `PaysWhatItHas`, `BoardNeverEmpty`, `MajorityMissedOnlyByMembership`, `KeepsPromises` (refinement of `GrantTreasury`) |
| `realm_committed` | 4-bit integers, tranches of 7 and 7 | *violated*: `CommittedCoversNext` |
| `curated_list` | 2 addresses, 2 keys, room for 1 payee, deposit 1, integers to 3, 4 blocks, challenges of 2 blocks | `Backed`, `OnlyVerdictsMoveWealth`, `KeepsBooks` (refinement of `PullPayments`), `ChallengesEnd` (liveness) |
| `crews_pot` | 3 addresses, one crew of at most 2 members, payments to 3, integers to 4, one proposal | `CrewsAreSound`, `ValueNeverFalls`, `LastOneTakesAll`, `KeepsBooks` |
| `gns_leases` | a name and a subname, leases and grace of a second, 4 instants, 3 creations, reservations | `NamesAreKept`, `NoSubnameOutlivesItsParent`, `LeaseIsHonoured` |
| `gns_rights` | the same names with operators, policies, locks and pauses, 2 instants | `LocksNeverOpen` |
| `gns_admin` | one name, every administrative call, 3 instants | `PauseFreezesNames` |
| `gns_recycled` | three levels of names | *violated*: `NoSubnameOutlivesItsParent` |
| `amm_pools` | two pools that share a token, one provider besides the realm, amounts 1, 2 and 11, a fee of a half, integers to 11 | `PoolsAreSound`, `PricingIsSound`, `ShareNeverDiluted` |
| `pair_overflow` | one pair, two providers, integers to 63 | *violated*: `NothingOverflows` |
| `tools` | all eleven tool models, see below | `SelfContained`, `NoFalseGreen`, `PreviewIsHonest`, `ImagesCatchUp`, `OrderIsSound`, `GateIsHonest`, `StoreGasMatches`, `UnansweredWasUnread`, `DebtIsRecorded`, `ToolsSettle` (liveness), `StatusIsHonest`, `PushesAreSound`, `RefreshIsLocal`, `PinsSurvive`, `PermanentIsReviewed` |

The run `tools` takes, for each command:

| command | instance | what can happen there |
|---|---|---|
| vendor | two contracts, one archived, three dependencies, one of them only on a chain | imports edited between runs, two attempts at each of two queries, an interruption at any file |
| gno | up to three directories and an archived version, two jobs | every interleaving of the pool; `fmt` leaves the version alone; one job or one package runs in turn |
| preview | five packages, eight pages, one argument page, five pages in all | a budget taken between discovery and capture, both processes dying anywhere, a base absent, broken or half rendered |
| status | three modules, one bumped, one at a moved path, one network | one merge during a workflow of two pushes, both queries or one by one, refused, failing |
| graph | two figures, one change | graphviz absent, failing at the first or the second image |
| order | every graph on three contracts and an outsider | cycles, contracts that import themselves |
| publish | two names, two bodies, two chains, two invocations | an edit or a foreign signature between any two steps, scripts run again |
| bench | two candidates, three workloads in a chain (build, fill, op), one printed row, two jobs | a failed row, a filtered baseline, a baseline with a baseline of its own, a change below the imports, rows listed for their bytes, two machines, a lost push |
| wiring | two objects of up to two bytes, two calls | objects created, grown, shrunk, orphaned, read or written again in a transaction |
| pr | two directories, one live, two pull requests of two edits, two deployments | both judged against the same main, two edits of one `gnomod.toml` merged, pins to the branch, a catalog behind |
| ratchet | two rules on a file, three lines in all, two pull requests of two edits | partial recordings, one hiding the other's, reasons too short |

Why the bounds are enough.  A board of three is the least on which a majority is
not everyone and a removal changes the bar (3 → 2 members); two requests are the
least with which one decision moves the bar of another that is open.  A member
that leaves, returns and finds an old ballot standing takes three membership
requests; that case is left to the theorems `BallotsStaySound` and
`MajoritiesDecide`, which have any number.  A second attempt is the least with which a refused proof is
followed by an accepted one.  Two tranches have an order.  A deposit of 3 covers
one whole grant and not two; two grants meet there, at the treasury, and nowhere
else, so `board_decisions` has one (`MaxGrants`) beside changes of the board.  In `curated_list` the ledger of credits takes one
payee, so that resolving *is* refused at times; the deadline falls inside the
run.  In `crews_pot` payments of 1 to 3 on a pot of up to 4 give every rounding,
and the cap of integers is met.  In `gns_leases` four instants are lease, grace,
expiry and a second lease by another owner; a third creation is a recycled
parent with its old subname.  In `amm_pools` integers to 11 and a fee
denominator of 2 cap a reserve at 5, so deposits and trades meet the cap; the
amount 11 makes the sum of the cap test wrap; one unit of a direct transfer makes
the balance differ from the reserves.  One provider suffices there for what the
arithmetic can get wrong (the realm's own address is a second holder), and the
theorems have any number.  Symmetry is used where no constant tells things apart
(the seats of a board, the members of a crew, the two pools).  In the tools two
of everything that can race is the least (two goroutines with a third waiting
for a slot, two jobs, two pull requests), one merge makes one push fail and the
next succeed, and one or two edits fall before, between or after any two steps.

### Fairness

`Curated` states `ChallengesEnd` under a fair specification: blocks keep coming
(`WF` of `Tick`), and somebody retries `Resolve` (`SF`).  Strong fairness is what
retrying gives: `Resolve` is open to anyone, both parties gain from it, and it
may be refused now and then as long as the ledger of credits is full, then
possible again when a payee has collected.  Nothing is assumed of the payees: no
code makes them call `Withdraw`, so a challenge may stay open for ever, and the
property says when.  Either it ends each time, or from some moment on one fixed set
of payees stands in its way (`InTheWay`): all of them are owed coins they do not
collect, and they are as many as the ledger takes, or their coins leave no room
under the limit of integers.  The other challenges, votes, listings and
withdrawals of anyone cannot keep it open.  The other contracts have nothing that
must happen: members may never vote, and no code calls itself.

The tools state `ToolsSettle`, of three parts.

- *The pool ends* (`ToolchainEnds`): `WF` of its steps.  The Go scheduler runs
  goroutines and a gno ends; the code has no timeout on it.
- *A preview returns and leaves no process* (`PreviewEnds`): `WF` of the command,
  whose every wait has a deadline, of the goroutine that waits for each gnodev,
  and of a gnodev that was sent SIGTERM.  Nothing is assumed of a gnodev that was
  not: it may come up, answer, hang or die.
- *The catalog catches up* (`CatalogCatchesUp`): `WF` of the workflow, which is
  scheduled every hour, and `SF` of the step that materializes pinned versions,
  which may be missed but not for ever.  Merges are bounded: a push can lose to
  every one of an endless sequence.

### Findings

- **`Committed` can wrap** (`realm_committed`).  `grants.gno:424-425` promises
  that a balance at or above `Committed` always covers a released tranche.
  Amounts have no upper bound and are summed in `int64`: two tranches near the
  maximum make the sum negative.  The payment itself stays covered
  (`PaysWhatItHas` holds: the preview compares the tranche, not the sum).
- **A subname may outlive its parent** (`gns_recycled`).  Invariant 16 of the
  registry is that a subname does not survive a recycled parent.  Registering
  anew increments the generation, but deleting a subname drops the record with
  its generation, so a subname created again restarts at 1 and adopts the
  subnames of its former life.  With two levels the invariant holds
  (`gns_leases`), as a top-level name is never deleted.
- **A pause stops renewals** (`gns_admin`).  The comment on `SetPaused`
  (`gns.gno:1977-1979`) says they remain available; `Renew` refuses, and
  `PauseFreezesNames` shows that no active name changes in a pause.
- **The shares of a pair may overflow** (`pair_overflow`).  `pair.gno:44-45` says
  that capped reserves keep the `int64` arithmetic from overflowing.  The total
  of the shares is added to unchecked and is not a reserve: after a first deposit
  priced far off, a later deposit within the caps makes it wrap.  In `amm` the
  shares are a token whose ledger refuses it.

The rest are in the tools.  There the property says what does hold, with the
divergence as its exception; each exception is reached in the run `tools`.  Such a
property says where the hazard ends and does not catch it: it fails when code that
is right today comes to share the fault.  The same goes for
`MajorityMissedOnlyByMembership`, whose exception is the change of membership that
leaves a request standing carried.

- **A package approved between two reads is recorded as absent**
  (`StatusIsHonest`).  `chainprobe.go:186-187` takes the live and the parked
  paths for a partition; they are read by two queries, in the unlucky order.
- **A superseded version at a moved path is recorded as absent**
  (`StatusIsHonest`).  The row that says where it was deployed is looked up in a
  directory that declares another version by now.
- **A drawing that failed once may stay old** (`ImagesCatchUp`).  `graph.go:51-55`
  promises a retry; it comes only when an image is missing.
- **A merge base that cannot be walked makes every changed package new**
  (`PreviewIsHonest`), which `preview_shots.go:41-42` calls a lie.
- **`gnoblog tx -all -prune` deletes nothing** (`PushesAreSound`), as gnohome's
  did in its first version (`gnohome/diff.go:70-74`).
- **A bumped package is taken for the live version it replaces**
  (`PermanentIsReviewed`): the catalog is read by directory, and the review of
  what is about to become permanent is skipped.
- **Two green pull requests may ship a realm that answers nothing**
  (`UnansweredWasUnread`).  `guard_private.go:30-31` has a realm say that it is
  public "in the file, before it ships".  The guard does not ask what is live on
  mainnet, so one pull request may drop the answer of a live version while another,
  checked against the same main, bumps that version: git merges the two lines, and
  the next version is published, and frozen, without an answer.  What holds, and is
  proved, is that no check has read such a `gnomod.toml`: what one did read is
  answered when it ships.
- **The gate of `compare` sees the printed rows only** (`GateIsHonest`).  The
  workflow's own use of `compare` passes no `-fail-over`; the property is about
  the command.
- **`affected` follows imports one level** (`GateIsHonest`).
- **Two refreshes of one machine undo each other's rows** (`RefreshIsLocal`).
- **gnoblog keeps one document for all chains** (`PushesAreSound`).  gnohome keys
  its default path by the chain "so a staging run and a mainnet run cannot overwrite
  each other's document" (`gnohome/run.go:61-65`); gnoblog writes
  `<content>/../.gnoblog-tx.json` whatever the chain (`gnoblog/main.go:163-170`).  A
  document for one chain may take the place of another's between its writing and its
  signature, and the script of the first then signs and sends the second.  No
  comment of gnoblog says otherwise, so this is no entry of `PROJECT.json`;
  `LandsAsBuilt` and `PushIsFaithful` say of gnoblog only what lands on the chain it
  was built for (`d.net = net`), and the run reaches the other case.

`GateIsHonest` also excepts a row measured without its baseline: it reads 0
(`run.go:220-222`), where the comment on `Deltas` has every difference be the
measured phase.

## What is proved

Every safety property, invariant or action property, that a passing run checks is
also a theorem, for all values of the constants that satisfy the assumptions named
in the modules:

- addresses, keys and ids of crews are finite, founders are callers, amounts are
  integers, the treasury makes no calls (`GrantBoard`, `GrantRealm`, `Curated`,
  `Crews`); prices, deposits and voting periods are positive, limits natural;
- the model values for nothing (`NoEntry`, `NoCrew`, `NoName`, ...) are no records;
- a name is a sequence of labels and the names are closed under parents (`Gns`);
- a pool is of two different tokens, the fee is a fraction of at most one, amounts
  are natural, the realm is none of the callers (`Amm`);
- the packages of a checkout, the contracts, the pages of a preview, the objects of
  a store and the versions of a package are finite; retries are of at least one
  attempt; a workload has one more phase than its baseline and whoever skips a
  workload skips those measured over it (`Bench`), as the suite's table has it.

Three theorems have a hypothesis of their own.  `SubnamesDieWithTheirParent` is for
names of at most two labels: with three it is false, which is the finding of
`gns_recycled`.  `GateStaysHonest` and `ToolsGateIsHonest` are for a limit
(`-fail-over`) that is not below the threshold from which `compare` lists a row,
since a row below it is in no table to fail on, and below 100, by which the model
says "out of nothing".  A limit of 0 turns the gate off, in the code and in
`GateIsHonest`.

### The contracts

- **The board** (`GrantRealm_proofs`): every property of it that a run checks.
  The inductive invariant `BoardInv` joins `BoardTypeOK`, `BallotsAreSound` and
  `ReleasedInOrder`.  `BoardIsNeverEmpty` is the shortest argument and not an
  obvious one: the subject of a removal may not vote on it, so whoever carried
  it is a member that stays.  `MajoritiesDecide` needs `BallotsAreSound`: the
  code counts ballots and the property counts members, and the two are equal
  because the ballots counted are an injection from ballots to members
  (`FiniteSetTheorems`).
- **The realm** (`GrantRealm_proofs` too) implements the board
  (`RealmImplementsBoard`), so that the board's theorems carry over; then
  `PaidExactlyOnce` and `Solvent` with the invariant `LedgerInv` (types, no
  overdraft, ledger and released tranches agree) and that the realm implements
  `GrantTreasury` (`RealmKeepsPromises`), step by step; then the third part of
  `PaysWhatItHas`, that the books add up (`BooksAddUp`): what was paid out is a sum
  over the ledger to which a payment adds one entry, of 0 when the treasury pays
  itself.
- **`Curated_proofs`**: types, and that the list implements `PullPayments`
  (`CuratedInv`: the coins held are those locked and those owed, which no single
  counter says).  `ListIsBacked` makes the counters the sums they stand for; it needs
  `BondsMatch`, that a challenge is fought for exactly the deposit it was posted
  against, since a verdict moves the one by the amount of the other.  With it
  `WealthOnlyMovesByVerdict` is a case analysis over which of an address's three
  pockets a call moves coins between.
- **`Crews_proofs`**: `JoinPriceExact` (the price rounded up is the least that
  buys a share rounded down), types, and `CrewsKeepValue`: with integer division,
  for all amounts, no call makes a share worth less.  `CrewsStaySound` adds that the
  total is the sum of the shares and a tally the sum of the ballots, by what a
  replaced ballot takes away and adds.  A crew's pot is never negative
  (`CrewsSound`), or the next to join a crew that everybody left would find it so.
  `LastLeaverTakesAll` rests on the sum: who holds as many shares as there are holds
  them all.  `CrewsKeepBooks` is the refinement of `PullPayments`, with the pots as
  what is locked.
- **`Gns_proofs`**: `GnsInv` joins the types and the two indexes with what they rest
  on: an owned record has a generation and one that only keeps a place has none, ids
  grow, and a subname remembers a generation its parent has had
  (`UnderItsParent`): a generation that is the parent's present one comes with the
  id of the parent's present lease.  The last part is kept because a top-level name
  is never deleted, so its generations do not start again; that is where the
  argument, and the property, ends at two labels.  The action properties
  (`LeasesAreHonoured`, `LocksStayShut`, `PauseFreezes`) follow from lemmas that say
  of each call which record it may replace and by what.
- **`Amm_proofs`** proves the three properties of the market run, for any fee,
  width of integers, set of pools and holders.  `PriceIsExact` is the claim of the
  comment on `MaxReserve`: below the cap the plain arithmetic of a price does not
  wrap.  That reserves stay below it is a circle that only the inductive
  invariant `AmmInv` closes: the cap is tested on a sum that might wrap; it does
  not, since a caller has at most what the realm does not hold, and the realm
  holds each reserve because all pools of a token together are covered (`Funded`).
  Sums over pools and holders are the cardinalities of stacks of units
  (`Stack`): `StackMoves` says what changing one entry does.
  `SharesAreNeverDiluted` rests on `JoiningKeepsSide`, `LeavingKeepsSide` and, for
  trades, the code's own comparison of products, which `PriceIsExact` makes one of
  positive amounts.
- **`Sums`** is what the contracts' proofs know of `SumFunction`, a fold of the
  community modules: what changing one summand does (`SumChange`), that a sum of
  naturals is no less than a summand, that equal summands have equal sums, and so
  on.  The library's induction theorems take a predicate as a parameter, which the
  provers cannot instantiate; `SubsetInduction` states induction for a *set* of
  subsets instead, from the well-foundedness of strict inclusion, and `SumsExist`
  shows with it that the function the fold chooses is there.

### The tools (`Workspace_proofs`, `Tools_proofs`)

One part to a component, each with an inductive invariant: in `Workspace_proofs` those
that work on a checkout and its repository (gno to wiring below), in `Tools_proofs` those
that ask a chain or push (preview to publish), then the dispatch.

- **gno** (`VerdictIsHonest`, `PoolIsBounded`): `ToolchainInv` follows the lock.  Who
  reports holds it and has read the list as it still is, so what is written back is
  the list of those that are done and failed.
- **order** (`TopoOrderIsSound`): the degrees count the imports that are not out yet
  and the order is injective, so its length is the number of contracts out; when
  nothing is ready and some are left, those left are the cycle's witness.
- **vendor** (`VendorIsSelfContained`): while a run lasts everything needed is
  provided, pending or being fetched.  That it also holds at the start of a run on
  whatever an interrupted one left is the point, and why the first work list opens
  what is already vendored.
- **pull requests** (`UnansweredIsUnread`, `PinsDoSurvive`, `PermanentGetsReviewed`):
  `PullRequestInv` has two parts.  `MergesInv` says that what the checks of a green
  pull request found (`ChecksHold`) is still so when it is merged, though main, the
  chains and the catalog have moved: every `gnomod.toml` they read (`judged`) answers
  or is of a version that is superseded or deployed, and stays so, as what is
  deployed stays and a pinned version is older than the declared one.  A merge line
  by line may leave neither what they read nor what main had; those directories are
  `unread` on main, and no others are without an answer and open to deployment.
  `PinsStand` follows the pins: a branch pins to commits of main or to its own, which
  are lost with it when it is squashed (`Lost`), so two sides that pin alike pin to a
  commit of main.
- **ratchets** (`DebtGetsRecorded`): a green pull request passes not only on the main
  it was judged against but merged into any later one, row by row, except the rows
  another merge has changed since.  The model keeps those (`since`).
- **graph** (`ImagesDoCatchUp`): an image is absent, or shows its `.dot`, or its
  figure is one an earlier run failed to render.
- **wiring** (`StoreGasDoesMatch`): `WiringInv` relates the two shapes object by
  object and what was charged to the counters: what the one transaction sees, in its
  cache or below, is what the other's store holds, and it has written no more, the
  writes its cache still holds included.  Sets and deletes have one flat
  price and are counted together.
- **preview** (`PreviewStaysHonest`): what a crawl has spent of each budget is the
  number of argument pages it holds, and a page that is linked is captured, queued
  or left out for good (`NothingForgotten`): a budget that is spent stays spent.
- **gnobench** (`GateStaysHonest`, `RefreshStaysLocal`): `BenchInv` follows a job from
  checkout to push; rows that were not measured are those of its base, an accepted
  push is on the main it was rebuilt on, and a row whose own baselines are usable
  records its true cost, down any chain of baselines.
- **status** (`StatusStaysHonest`): `CatalogInv` ties the checkout to main while no
  merge came between, which is when its push is accepted, and the draft of the
  catalog to the chains it was read from.
- **publish** (`PushesStaySound`): the documents on disk are behind the account's
  sequence or at it, never ahead, and neither a signature nor a script is ahead of
  its document, whatever another invocation wrote on the same path meanwhile
  (`DocFits`, `PushFits`); a document that is signed or scripted says what its author
  was shown (`Faithful`).  That it lands at most once follows: landing moves the
  sequence past it.
- **The dispatch**: `ToolsInv` is, for each command, its invariant while it runs and
  its variables at rest otherwise.  `OneCommandRuns` says that a step of the whole
  is a step of one component and leaves the others alone, so
  `ToolsKeepTheirPromises`, `ToolsGateIsHonest` and `ToolsStepsAreSound` state every
  invariant and action property of the run `tools` of the specification it checks.

Proof attempts corrected the models.  The ratchet's history did not say *when* a row
had changed, so what a later merge may rely on could not be said; a preview whose
second gnodev could not boot went on in the wrong pass; a chain of baselines was
measured with the wrong phases, and the gate was held to a limit of 0, with which the
command does not fail at all.  Each was changed to what the source does, and TLC
checks the changed models.

Model-checked only: liveness (`ChallengesEnd`, `ToolsSettle`), which is out of the
prover's reach with its fairness, and the pair, whose one run is a counterexample.
Type invariants are stated in every module with state.  Those of the grants, the
lists, the crews, the registry of names, the market, the pool of gno, the order and
vendor are proved, the last two as parts of an invariant; the other tools' invariants
state the shapes they need, and their type invariants are no property of a run, which
is kept to what can go wrong.

## Not modelled

In `gns`: payments (they pass through to the treasury in the same call), records
other than the native address, the event log, `SetLimits`, `SetTreasury`
and the paginated reads.  In `crews`: names.  In `grants`:
rendering and length limits.  In `amm` and `pair`: allowances, `minOut` and
reads, and pools one side of which is the share token of another pool.  In
`xmath`: the 128-bit arithmetic inside
`MulDiv`; the model uses its exact result, the panic being the guard `Fits`.
In the tools: `guard-untrusted-render` (a ratchet like `guard-tables` whose list
is edited by hand), `guard-generated` but for its effect, the reports that only
print, files an author names for a transaction other than the default one, byte
counts of `gnobench` (but that `compare` may list a row because of them), the answer
`all` of `affected`, deleted files in a change, HTML, and the
wording of every report.  A vendored copy cut in two after its `gnomod.toml`
was written is in the model and is the exception of `SelfContained`; two
commands at once in one checkout are not, as each is run by hand or by a job of
its own.  The rules of `gnovet` and `auditpattern` are predicates on one syntax
tree, served by their tables of examples.
Whole components are listed with the reason in `PROJECT.json`.

## Plan

1. *Done*: grants (board, realm, abstract treasury); curated and crews on the
   abstract pull payments; gns; the market and the pair; the tools.  All are checked,
   and every safety property of a passing run is proved.
2. **More of the social realms**: `patron` on `PullPayments`, `vouch`.
3. **Delegation**: `zones`, with a delegation tree as its abstract specification;
   then `grc20wrap` (backing of a basket), faucets and vesting as far as their
   interactions warrant.
4. **Deeper proofs**: the type invariants of the remaining tools; what does hold of
   subnames at any depth (a subname whose ancestors were never deleted).
5. **Pair**: the properties of `Amm` for a pair whose shares do not overflow.
