------------------------------ MODULE Catalog ------------------------------
(***************************************************************************)
(* The catalog of contracts (src/tools/gnocontracts: manifest.go,          *)
(* status.go, chainprobe.go, deployments.go, model.go) and the one         *)
(* workflow that regenerates it on main (.github/workflows/main.yml):      *)
(* fetch, sync, manifest, readme, status, push, again when main moved.     *)
(* Merges move the tree, and the chains accept and approve packages, while *)
(* it runs.                                                                *)
(***************************************************************************)
EXTENDS Naturals, FiniteSets

CONSTANTS
    Mods,           \* module paths, version included
    NextVersion,    \* [Mods -> Mods \cup {NoMod}]: what a bump replaces each by
    Initial,        \* those with a directory at the start
    Nets,           \* the networks of defaultNetworks
    Moved,          \* <<net, module>>: deployed there under the signer's address
    Drafts,         \* contracts that are not probed
    InMonorepo,     \* those $GNOROOT/examples has
    StreakLimit,    \* unansweredStreakLimit
    PushAttempts,   \* attempts of the workflow
    MaxMerges,      \* bound on the merges, for model checking
    NoMod

ASSUME CatalogAssumption ==
    /\ NextVersion \in [Mods -> Mods \cup {NoMod}] /\ NoMod \notin Mods
    /\ Initial \cup Drafts \cup InMonorepo \subseteq Mods
    /\ Moved \subseteq Nets \X Mods
    /\ {StreakLimit, PushAttempts} \subseteq Nat \ {0} /\ MaxMerges \in Nat

VARIABLES
    main,           \* origin/main: the tree, the lock, contracts.json and its revision
    chain,          \* [Nets -> [Mods -> {"absent", "inert", "live"}]]
    clone,          \* the checkout of the workflow
    synced,         \* the versions materialized in it
    ci              \* the workflow in progress

catalogVars == <<main, chain, clone, synced, ci>>

Standing == {"absent", "inert", "live"}
\* Pub: what is recorded of a contract on a network, and whether at a moved path.
Pubs == [state : Standing, moved : BOOLEAN]
NoPub == [state |-> "absent", moved |-> FALSE]
Entries == [superseded : BOOLEAN, upstream : BOOLEAN, published : [Nets -> Pubs]]

\* A network in progress: who is left to ask, the index read, the refusals in a row.
NoAsk == [net |-> "none", todo |-> {}, index |-> "none", live |-> {}, streak |-> 0]
NoCI == [pc |-> "idle", attempt |-> 0, rest |-> {}, answered |-> {}, draft |-> <<>>,
         ask |-> NoAsk]

CatalogInit ==
    /\ main = [tree |-> Initial, pinned |-> {}, file |-> <<>>, rev |-> 0, merges |-> 0]
    /\ chain = [n \in Nets |-> [m \in Mods |-> "absent"]]
    /\ clone = main /\ synced = {} /\ ci = NoCI
-----------------------------------------------------------------------------
\* Merges: a package is added, bumped (gnopm pins the version it replaces) or
\* removed.  guard-generated keeps them from touching the catalog.
Merge(tree, pinned) ==
    /\ main.merges < MaxMerges
    /\ main' = [main EXCEPT !.tree = tree, !.pinned = pinned,
                            !.rev = @ + 1, !.merges = @ + 1]
    /\ UNCHANGED <<chain, clone, synced, ci>>

Known(r) == r.tree \cup r.pinned
Older(m) == {o \in Mods : NextVersion[o] = m}

AddPackage(m) == m \notin Known(main) /\ Older(m) = {} /\ Merge(main.tree \cup {m}, main.pinned)
Bump(m) ==
    /\ m \in main.tree /\ NextVersion[m] \in Mods \ Known(main)
    /\ Merge((main.tree \ {m}) \cup {NextVersion[m]}, main.pinned \cup {m})
RemovePackage(m) == m \in main.tree /\ Merge(main.tree \ {m}, main.pinned)

\* A chain takes a package as it is or parks it, and approves what it parked.
Publish(n, m, as) ==
    /\ m \in Known(main) /\ chain[n][m] = "absent" /\ as \in {"inert", "live"}
    /\ chain' = [chain EXCEPT ![n][m] = as]
    /\ UNCHANGED <<main, clone, synced, ci>>
Approve(n, m) ==
    /\ chain[n][m] = "inert"
    /\ chain' = [chain EXCEPT ![n][m] = "live"]
    /\ UNCHANGED <<main, clone, synced, ci>>
-----------------------------------------------------------------------------
At(pc) == ci' = [ci EXCEPT !.pc = pc]

\* The job starts, or starts over: always on the latest main.
Fetch ==
    /\ ci.pc \in {"idle", "rejected"} /\ ci.attempt < PushAttempts
    /\ clone' = main
    /\ synced' = IF ci.pc = "idle" THEN {} ELSE synced
    /\ ci' = [NoCI EXCEPT !.pc = "sync", !.attempt = ci.attempt + 1]
    /\ UNCHANGED <<main, chain>>

\* gnopm materializes what the lock pins; by hand it may be forgotten.
Sync == /\ ci.pc = "sync" /\ synced' = clone.pinned /\ At("manifest")
        /\ UNCHANGED <<main, chain, clone>>
SkipSync == /\ ci.pc = "sync" /\ At("manifest")
            /\ UNCHANGED <<main, chain, clone, synced>>

\* Versions pinned in the lock that cannot be read.
unmaterialized == clone.pinned \ synced

\* A directory of the tree, or a version materialized out of history.
scanContracts == clone.tree \cup (clone.pinned \cap synced)

\* The human-owned fields and the status stay with the path; the monorepo decides
\* on the upstream whenever it can be read.
Reconciled(m, readable) ==
    LET old == IF m \in DOMAIN clone.file THEN clone.file[m]
               ELSE [upstream |-> FALSE, published |-> [n \in Nets |-> NoPub]]
    IN  [superseded |-> m \notin clone.tree,
         upstream |-> IF readable THEN m \in InMonorepo ELSE old.upstream,
         published |-> old.published]
End == ci' = NoCI

\* cmdManifest refuses rather than drop a version it cannot read.
Manifest(readable) ==
    /\ ci.pc = "manifest"
    /\ IF unmaterialized # {}
       THEN End /\ UNCHANGED clone
       ELSE /\ clone' = [clone EXCEPT !.file = [m \in scanContracts |-> Reconciled(m, readable)]]
            /\ ci' = [ci EXCEPT !.pc = "status", !.rest = Nets, !.draft = clone'.file]
    /\ UNCHANGED <<main, chain, synced>>
-----------------------------------------------------------------------------
\* deployedPath: the row of the directory, if the directory declares this version.
\* A superseded version is looked up where its directory was.
AsksMoved(n, m) == <<n, m>> \in Moved /\ m \in clone.tree

\* What the chain holds at the path that is asked.
Truth(n, m) == IF AsksMoved(n, m) = (<<n, m>> \in Moved) THEN chain[n][m] ELSE "absent"

Probed == {m \in DOMAIN ci.draft : m \notin Drafts}

\* setPublished, on what was loaded.
SetPublished(entry, n, m, state) ==
    [entry EXCEPT !.published[n] = [state |-> state, moved |-> AsksMoved(n, m)]]

\* The next network answers /status, or keeps its last known status.
Reach(n) ==
    /\ ci.pc = "status" /\ ci.ask.net = "none" /\ n \in ci.rest
    /\ \/ ci' = [ci EXCEPT !.rest = @ \ {n}]
       \/ ci' = [ci EXCEPT !.rest = @ \ {n}, !.answered = @ \cup {n},
                    !.ask = [NoAsk EXCEPT !.net = n, !.todo = Probed]]
    /\ UNCHANGED <<main, chain, clone, synced>>

\* queryChainIndex: two queries, what is live first and what is parked after.
QueryLive ==
    /\ ci.ask.net # "none" /\ ci.ask.index = "none" /\ ci.ask.todo = Probed
    /\ \/ ci' = [ci EXCEPT !.ask.index = "live",
                   !.ask.live = {m \in Probed : Truth(ci.ask.net, m) = "live"}]
       \/ ci' = [ci EXCEPT !.ask.index = "failed"]
    /\ UNCHANGED <<main, chain, clone, synced>>

\* A path in neither set is absent.
Lookup(m) == CASE m \in ci.ask.live -> "live"
               [] m \notin ci.ask.live /\ Truth(ci.ask.net, m) = "inert" -> "inert"
               [] OTHER -> "absent"

QueryParked ==
    /\ ci.ask.index = "live"
    /\ \/ ci' = [ci EXCEPT !.ask = NoAsk, !.draft =
                   [m \in DOMAIN @ |-> IF m \in Probed
                                       THEN SetPublished(@[m], ci.ask.net, m, Lookup(m))
                                       ELSE @[m]]]
       \/ ci' = [ci EXCEPT !.ask.index = "failed"]
    /\ UNCHANGED <<main, chain, clone, synced>>

\* Plausible bug: a query that failed is taken for a package that is not there.
VerdictOrAbsent(n, m, heard) == IF heard THEN Truth(n, m) ELSE "absent"
\* Every failure is unknown: no evidence of absence.
Verdict(n, m, heard) == IF heard THEN Truth(n, m) ELSE "unknown"

\* One package at a time, until the chain has refused too many in a row.
Probe(m, heard) ==
    /\ ci.ask.index = "failed" /\ m \in ci.ask.todo /\ ci.ask.streak < StreakLimit
    /\ LET state == Verdict(ci.ask.net, m, heard)
       IN  ci' = IF state = "unknown"
                 THEN [ci EXCEPT !.ask.todo = @ \ {m}, !.ask.streak = @ + 1]
                 ELSE [ci EXCEPT !.ask.todo = @ \ {m}, !.ask.streak = 0,
                         !.draft[m] = SetPublished(@, ci.ask.net, m, state)]
    /\ UNCHANGED <<main, chain, clone, synced>>

NextNet ==
    /\ ci.ask.index = "failed" /\ (ci.ask.todo = {} \/ ci.ask.streak = StreakLimit)
    /\ ci' = [ci EXCEPT !.ask = NoAsk]
    /\ UNCHANGED <<main, chain, clone, synced>>

\* One save for the whole run; none when no network answered.
Save ==
    /\ ci.pc = "status" /\ ci.rest = {} /\ ci.ask.net = "none"
    /\ clone' = IF ci.answered = {} THEN clone ELSE [clone EXCEPT !.file = ci.draft]
    /\ At("push")
    /\ UNCHANGED <<main, chain, synced>>

\* The workflow goes on when `status` fails, whatever it had asked by then.
StatusFails ==
    /\ ci.pc = "status" /\ ci' = [ci EXCEPT !.pc = "push", !.ask = NoAsk]
    /\ UNCHANGED <<main, chain, clone, synced>>
-----------------------------------------------------------------------------
\* The remote takes the commit if nothing was merged since it was fetched.
Accepted == clone.rev = main.rev

Push ==
    /\ ci.pc = "push"
    /\ CASE clone.file = main.file -> End /\ UNCHANGED main   \* nothing to commit
         [] clone.file # main.file /\ Accepted ->
               /\ main' = [main EXCEPT !.tree = clone.tree, !.pinned = clone.pinned,
                                       !.file = clone.file]
               /\ End
         [] OTHER -> /\ IF ci.attempt < PushAttempts THEN At("rejected") ELSE End
                     /\ UNCHANGED main
    /\ UNCHANGED <<chain, clone, synced>>

Workflow == \/ Fetch \/ Sync \/ SkipSync \/ QueryLive \/ QueryParked \/ NextNet \/ Save
            \/ StatusFails \/ Push
            \/ \E readable \in BOOLEAN : Manifest(readable)
            \/ \E n \in Nets : Reach(n)
            \/ \E m \in Mods, heard \in BOOLEAN : Probe(m, heard)

CatalogNext ==
    \/ Workflow
    \/ \E m \in Mods : AddPackage(m) \/ Bump(m) \/ RemovePackage(m)
    \/ \E n \in Nets, m \in Mods : Approve(n, m) \/ \E as \in {"inert", "live"} : Publish(n, m, as)

\* The workflow is scheduled every hour, and gnopm is not forgotten forever.
CatalogFairness == WF_catalogVars(Workflow) /\ SF_catalogVars(Sync)

CatalogSpec == CatalogInit /\ [][CatalogNext]_catalogVars /\ CatalogFairness
-----------------------------------------------------------------------------
Catalogs == UNION {[S -> Entries] : S \in SUBSET Mods}

CatalogTypeOK ==
    /\ \A r \in {main, clone} : /\ r.tree \in SUBSET Mods /\ r.pinned \in SUBSET Mods
                                /\ r.tree \cap r.pinned = {}
                                /\ r.file \in Catalogs
    /\ chain \in [Nets -> [Mods -> Standing]]
    /\ synced \in SUBSET Mods
    /\ ci.attempt \in 0 .. PushAttempts /\ ci.draft \in Catalogs

\* What is pushed takes no merge back and is the catalog of the tree it is pushed on,
\* pinned versions included, and whoever was live stays live: no bump, no chain that
\* is down, limited or slow, and no push that lost a race takes a status away.  (A
\* version deployed at a moved path is the exception once it is superseded: it is asked
\* for where it is not.)
StatusIsKept ==
    [][main'.file # main.file =>
          /\ <<main'.tree, main'.pinned>> = <<main.tree, main.pinned>>
          /\ DOMAIN main'.file = Known(main')
          /\ \A m \in DOMAIN main'.file : main'.file[m].superseded = (m \notin main'.tree)
          /\ \A m \in DOMAIN main.file \cap DOMAIN main'.file : \A n \in Nets :
                main.file[m].published[n].state = "live" =>
                   \/ main'.file[m].published[n].state = "live"
                   \/ <<n, m>> \in Moved /\ main'.file[m].superseded]_catalogVars

\* Once nothing is merged any more, main carries the catalog of its tree for good.
CatalogCatchesUp == <>[](DOMAIN main.file = Known(main))

\* A package the chain holds is recorded as absent only if it was parked while what is
\* live was listed and approved before what is parked was: the two sets are read one
\* after the other, and then it is in neither.
AbsentIsAsserted ==
    [][(ci.ask.index = "live" /\ ci'.ask.net = "none" /\ ci'.pc = "status") =>
          \A m \in Probed :
             ci'.draft[m].published[ci.ask.net].state = "absent" =>
                \/ Truth(ci.ask.net, m) = "absent"
                \/ m \notin ci.ask.live /\ Truth(ci.ask.net, m) = "live"]_catalogVars

\* No status is made up: what the catalog says of a chain was seen there, and stays
\* until something else is seen.
StatusIsHonest == StatusIsKept /\ AbsentIsAsserted
=============================================================================
