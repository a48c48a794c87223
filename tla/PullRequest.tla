---------------------------- MODULE PullRequest ----------------------------
(***************************************************************************)
(* Pull requests (src/tools/gnocontracts: pr.go, report_lock.go,           *)
(* review_advice.go, guard_private.go; .github/workflows/ci.yml, pr.yml):  *)
(* a branch edits and bumps packages and pins what it replaces, the checks *)
(* read it once against the main branch of the moment, and a squash merge  *)
(* lands it later.  Meanwhile packages are deployed from main, and the     *)
(* catalog says so only when it is regenerated.                            *)
(***************************************************************************)
EXTENDS Naturals, FiniteSets

CONSTANTS
    Dirs,           \* package directories, realms all
    Versions,       \* what a module line may declare, oldest first: 0 .. n
    PathOrder,           \* [Versions -> Nat]: the order of the module paths as strings
    Standing0,      \* [Dirs -> Versions \cup {Absent}]: the directories at the start
    Deployed0,      \* SUBSET (Dirs \X Versions): on mainnet at the start
    Absent,
    Networks2,      \* mainnet and others
    PRs,
    MaxEdits,       \* bounds, for model checking: edits of a pull request,
    MaxDeploys,     \* deployments,
    MaxOpened       \* pull requests opened

ASSUME PullRequestAssumption ==
    /\ Versions \subseteq Nat /\ IsFiniteSet(Versions) /\ 0 \in Versions
    /\ Absent \notin Versions /\ "mainnet" \in Networks2
    /\ PathOrder \in [Versions -> Nat] /\ Standing0 \in [Dirs -> Versions \cup {Absent}]
    /\ Deployed0 \subseteq Dirs \X Versions
    /\ {MaxEdits, MaxDeploys, MaxOpened} \subseteq Nat

VARIABLES
    base,           \* origin/main: packages, the pins of its lock, its commits; and
                    \* (history) directories whose gnomod.toml, as it is, no check has read
    branch,         \* [PRs -> pull request]
    deployed,       \* [Networks2 -> SUBSET (Dirs \X Versions)]
    frozen,         \* history: <<package, answered, unread>> at each deploy on mainnet
    catalog         \* <<dir, version>> -> whether superseded, and where it is uploaded

prVars == <<base, branch, deployed, frozen, catalog>>

Package == Dirs \X Versions
NoPins == [m \in {} |-> <<"main", 0>>]
\* What a gnomod.toml says: the version its module line declares, and whether it answers
\* the private question.
Fresh(v) == [v |-> v, answered |-> v # Absent]
Tree(b) == [dirs |-> b.dirs, pins |-> b.pins]
\* A pull request: the main branch it starts from, its tree and its commits, where it
\* wrote contract code; and what the checks said, with (history) the row of the
\* catalog each directory it wrote was looked up as, and the packages they read.
NoBranch == [pc |-> "none", from |-> <<>>, tree |-> <<>>, tip |-> 0, wrote |-> {},
             warned |-> FALSE, review |-> FALSE, row |-> {}, judged |-> <<>>]

\* The catalog of the tree and of its pinned versions, with what the chains hold.
CatalogOf(b) ==
    LET inTree == {<<d, b.dirs[d].v>> : d \in {d \in Dirs : b.dirs[d].v # Absent}}
    IN  [m \in inTree \cup DOMAIN b.pins |->
           [superseded |-> m \notin inTree,
            uploaded |-> {n \in Networks2 : m \in deployed[n]}]]

PullRequestInit ==
    /\ base = [dirs |-> [d \in Dirs |-> Fresh(Standing0[d])], pins |-> NoPins,
               commits |-> {<<"main", 0>>}, unread |-> {}]
    /\ deployed = [n \in Networks2 |-> IF n = "mainnet" THEN Deployed0 ELSE {}]
    /\ frozen = {} /\ catalog = CatalogOf(base)
    /\ branch = [p \in PRs |-> NoBranch]
-----------------------------------------------------------------------------
SetBranch(p, b) == branch' = [branch EXCEPT ![p] = b]
Opened == Cardinality({p \in PRs : branch[p].pc # "none"})
InProgress(p) == branch[p].pc \in {"open", "green"}
Commits(p) == {<<p, i>> : i \in 1 .. branch[p].tip}

\* A branch whose checks start over.
Unchecked(from, tree, tip, wrote) ==
    [NoBranch EXCEPT !.pc = "open", !.from = from, !.tree = tree, !.tip = tip, !.wrote = wrote]

\* The next number: pull requests have no other name.
OpenPull(p) ==
    /\ branch[p].pc = "none" /\ Opened < MaxOpened
    /\ p = CHOOSE q \in PRs : branch[q].pc = "none"
    /\ SetBranch(p, Unchecked(base, Tree(base), 0, {}))
    /\ UNCHANGED <<base, deployed, frozen, catalog>>

\* A commit on the branch.
Edited(p, tree, wrote) ==
    /\ branch[p].tip < MaxEdits
    /\ SetBranch(p, Unchecked(branch[p].from, tree, branch[p].tip + 1,
                              branch[p].wrote \cup wrote))
    /\ UNCHANGED <<base, deployed, frozen, catalog>>

WriteCode(p, d) ==
    LET t == branch[p].tree
    IN  /\ t.dirs[d].v # Absent
        /\ Edited(p, t, {d})
AnswerPrivate(p, d, yes) ==
    LET t == branch[p].tree
    IN  /\ t.dirs[d].v # Absent /\ t.dirs[d].answered # yes
        /\ Edited(p, [t EXCEPT !.dirs[d].answered = yes], {})
CreatePackage(p, d, answered) ==
    LET t == branch[p].tree
    IN  /\ t.dirs[d].v = Absent
        /\ Edited(p, [t EXCEPT !.dirs[d] = [v |-> 0, answered |-> answered]], {d})

\* gnopm bump: the directory takes the next version, and the one it replaces is pinned
\* to a commit that holds it, on main or on the branch.
BumpTo(p, d, commit) ==
    LET t == branch[p].tree
        old == t.dirs[d].v
    IN  /\ old # Absent /\ old + 1 \in Versions
        /\ Edited(p, [dirs |-> [t.dirs EXCEPT ![d].v = old + 1],
                      pins |-> [m \in DOMAIN t.pins \cup {<<d, old>>} |->
                                  IF m = <<d, old>> THEN commit ELSE t.pins[m]]], {})

\* gnopm sync, after the warning: what is pinned to the branch is pinned to main.
Resync(p) ==
    LET t == branch[p].tree
    IN  /\ \E m \in DOMAIN t.pins : t.pins[m] \in Commits(p)
        /\ Edited(p, [t EXCEPT !.pins = [m \in DOMAIN @ |->
                        IF @[m] \in Commits(p) THEN <<"main", 0>> ELSE @[m]]], {})

\* Git merges line by line: a side that changed a line has its way with it, and the two
\* conflict where both did and differ.  The version and the answer of a gnomod.toml are
\* lines apart, so are two pins of the lock; a file that both sides added is one piece.
\* Contract code in several files merges.
ByLine(old, mine, theirs) == IF mine # old THEN mine ELSE theirs
Clash(old, mine, theirs) == mine # old /\ theirs # old /\ mine # theirs
NewPins(a, b) == {m \in DOMAIN b.pins : m \notin DOMAIN a.pins \/ a.pins[m] # b.pins[m]}
Mergeable(p) ==
    LET from == branch[p].from
        t == branch[p].tree
    IN  /\ \A d \in Dirs : IF from.dirs[d].v = Absent
                           THEN ~ Clash(from.dirs[d], t.dirs[d], base.dirs[d])
                           ELSE ~ Clash(from.dirs[d].v, t.dirs[d].v, base.dirs[d].v)
        /\ \A m \in NewPins(from, t) \cap NewPins(from, base) : t.pins[m] = base.pins[m]
Merged(p) ==
    LET from == branch[p].from
        t == branch[p].tree
        mine == NewPins(from, t)
    IN  [dirs |-> [d \in Dirs |->
            [v |-> ByLine(from.dirs[d].v, t.dirs[d].v, base.dirs[d].v),
             answered |-> ByLine(from.dirs[d].answered, t.dirs[d].answered,
                                 base.dirs[d].answered)]],
         pins |-> [m \in DOMAIN base.pins \cup mine |-> IF m \in mine THEN t.pins[m]
                                                        ELSE base.pins[m]]]

\* The branch takes what main has become.
UpdateBranch(p) ==
    /\ branch[p].from # base /\ Mergeable(p)
    /\ SetBranch(p, Unchecked(base, Merged(p), branch[p].tip, branch[p].wrote))
    /\ UNCHANGED <<base, deployed, frozen, catalog>>
-----------------------------------------------------------------------------
\* Plausible bug: an ancestor of the branch will do.
OnBranch(p, commit) == commit \in base.commits \cup Commits(p)
\* isAncestor, of the base.
isAncestor(p, commit) == commit \in base.commits

\* lockReport: pins this branch introduces to a commit that is not on main.
unsafe(p) == {m \in NewPins(base, Merged(p)) : ~isAncestor(p, Merged(p).pins[m])}

\* analyzePR: the catalog row of a directory is the last one with that directory.
Rows(d) == {m \in DOMAIN catalog : m[1] = d}
byDir(d) == CHOOSE m \in Rows(d) : \A o \in Rows(d) : PathOrder[o[2]] <= PathOrder[m[2]]

\* Plausible bug: live on any network.
liveAnywhere(m) == catalog[m].uploaded # {}
liveOnMainnet(m) == "mainnet" \in catalog[m].uploaded

\* adviseReview: what is written and not live yet.
Permanent(p) == {d \in branch[p].wrote : Rows(d) = {} \/ ~liveOnMainnet(byDir(d))}

\* Plausible bug: a deploy on any network decides.
decidedAnywhere(m) == m \in DOMAIN catalog /\ (catalog[m].superseded \/ liveAnywhere(m))
\* guard-private does not ask what is superseded or live on mainnet, at this very path.
decided(m) == m \in DOMAIN catalog /\ (catalog[m].superseded \/ liveOnMainnet(m))

guardPrivate(tree) ==
    \A d \in Dirs : tree.dirs[d].v # Absent =>
       tree.dirs[d].answered \/ decided(<<d, tree.dirs[d].v>>)

\* The checks run once, on the merge with main as it is now.
RunChecks(p) ==
    /\ branch[p].pc = "open" /\ branch[p].tip > 0 /\ Mergeable(p) /\ guardPrivate(Merged(p))
    /\ SetBranch(p, [branch[p] EXCEPT !.pc = "green", !.warned = unsafe(p) # {},
                       !.review = Permanent(p) # {},
                       !.row = {byDir(d) : d \in {d \in branch[p].wrote : Rows(d) # {}}},
                       !.judged = Merged(p).dirs])
    /\ UNCHANGED <<base, deployed, frozen, catalog>>

\* The gnomod.toml that the merge changes, or leaves as unread as they were, and that are
\* not what its checks read.
StillUnread(p) ==
    {d \in Dirs : /\ Merged(p).dirs[d] # branch[p].judged[d]
                  /\ d \in base.unread \/ Merged(p).dirs[d] # base.dirs[d]}

\* A squash merge: one new commit on main, and the commits of the branch are gone.
Squash(p) ==
    /\ branch[p].pc = "green" /\ Mergeable(p)
    /\ base' = [dirs |-> Merged(p).dirs, pins |-> Merged(p).pins,
                commits |-> base.commits \cup {<<"main", Cardinality(base.commits)>>},
                unread |-> StillUnread(p)]
    /\ SetBranch(p, [NoBranch EXCEPT !.pc = "merged"])
    /\ UNCHANGED <<deployed, frozen, catalog>>

\* A package of main is published.
PublishPackage(n, d) ==
    LET m == <<d, base.dirs[d].v>>
    IN  /\ base.dirs[d].v # Absent /\ m \notin deployed[n]
        /\ Cardinality(UNION {{<<k, x>> : x \in deployed[k]} : k \in Networks2})
              < Cardinality(Deployed0) + MaxDeploys
        /\ deployed' = [deployed EXCEPT ![n] = @ \cup {m}]
        /\ frozen' = IF n = "mainnet"
                     THEN frozen \cup {<<m, base.dirs[d].answered, d \in base.unread>>}
                     ELSE frozen
        /\ UNCHANGED <<base, branch, catalog>>

Regenerate == /\ catalog' = CatalogOf(base) /\ catalog' # catalog
              /\ UNCHANGED <<base, branch, deployed, frozen>>

PullRequestNext ==
    \/ Regenerate
    \/ \E p \in PRs :
          \/ OpenPull(p) \/ RunChecks(p) \/ Squash(p)
          \/ /\ InProgress(p)
             /\ \/ Resync(p) \/ UpdateBranch(p)
                \/ \E d \in Dirs :
                      \/ WriteCode(p, d)
                      \/ \E yes \in BOOLEAN : AnswerPrivate(p, d, yes) \/ CreatePackage(p, d, yes)
                      \/ \E commit \in branch[p].from.commits \cup Commits(p) :
                            BumpTo(p, d, commit)
    \/ \E n \in Networks2, d \in Dirs : PublishPackage(n, d)

PullRequestSpec == PullRequestInit /\ [][PullRequestNext]_prVars
-----------------------------------------------------------------------------
PullRequestTypeOK ==
    /\ \A d \in Dirs : base.dirs[d].v \in Versions \cup {Absent}
    /\ DOMAIN base.pins \subseteq Package /\ DOMAIN catalog \subseteq Package
    /\ \A p \in PRs : /\ branch[p].pc \in {"none", "open", "green", "merged"}
                      /\ branch[p].tip \in 0 .. MaxEdits /\ branch[p].wrote \subseteq Dirs
    /\ \A m \in DOMAIN base.pins : m[2] # base.dirs[m[1]].v

Landed(p) == branch[p].pc = "green" /\ branch'[p].pc = "merged"

\* A pin that a merge brings to main resolves from main, unless the report warned of it:
\* the commits of a squashed branch are gone, whatever was merged between the report
\* and the merge.
PinsSurvive ==
    [][\A p \in PRs : Landed(p) /\ ~branch[p].warned =>
          \A m \in NewPins(base, base') : base'.pins[m] \in base'.commits]_prVars

\* Nothing that is not live on mainnet is merged with new contract code and without
\* advice to review it, unless the directory was looked up as another version: after a
\* bump the row is the old one's until the catalog follows, and then the one whose path
\* sorts last; or the bump was merged after the advice.
PermanentIsReviewed ==
    [][\A p \in PRs : Landed(p) =>
          \A d \in branch[p].wrote :
             LET m == <<d, base'.dirs[d].v>>
             IN  m \notin deployed["mainnet"] =>
                    branch[p].review \/ \E o \in branch[p].row : o[1] = d /\ o # m]_prVars

\* A realm that reaches mainnet without an answer to the private question ships a
\* gnomod.toml that no check has read: git put it together from pull requests judged
\* apart.  What a check did read is answered when it ships, whatever was merged since,
\* whatever the catalog said by then, wherever else the realm was deployed before.
UnansweredWasUnread == \A f \in frozen : f[2] \/ f[3]
=============================================================================
