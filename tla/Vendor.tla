------------------------------- MODULE Vendor -------------------------------
(***************************************************************************)
(* `gnocontracts vendor` (src/tools/gnocontracts/vendor.go and             *)
(* vendor_chain.go): copying every external dependency of the contracts    *)
(* into vendor/, from the monorepo's examples or, for what was only ever   *)
(* deployed, from a chain that may refuse, be limited or not answer.  A    *)
(* run may be interrupted anywhere and is then simply run again.           *)
(***************************************************************************)
EXTENDS Naturals, FiniteSets

CONSTANTS
    Paths,          \* package paths
    Ours,           \* the contracts of this repository
    ArchivedOurs,       \* those with `ignore = true`
    InExamples,     \* what $GNOROOT/examples holds
    OnChain,        \* what the chain of -from-chain holds
    Trees,          \* [imports, tests]: what the sources may import
    Queries,        \* queries that fetch a package: its listing and its files
    FetchAttempts,  \* chainFetchAttempts
    NoPath          \* no package

ASSUME VendorAssumption ==
    /\ ArchivedOurs \subseteq Ours /\ Ours \subseteq Paths
    /\ Trees \subseteq [imports : [Paths -> SUBSET Paths], tests : [Paths -> SUBSET Paths]]
    /\ NoPath \notin Paths
    /\ Queries \in Nat \ {0} /\ FetchAttempts \in Nat \ {0}

VARIABLES
    tree,           \* what is imported now, by the sources and by their tests
    vendor,         \* [Paths -> Copies]: what is under vendor/
    job             \* the command in progress

vendorVars == <<tree, vendor, job>>

\* A copy without its gnomod.toml is no package to anyone; with it, but without
\* some of its files, it is taken for a whole one.
Copies == {"none", "unlisted", "half", "whole"}
Listed(v) == {p \in Paths : v[p] \in {"half", "whole"}}
Halves(v) == {p \in Paths : v[p] = "half"}

Idle == [pc |-> "idle", rpc |-> FALSE, provided |-> {}, pending |-> {},
         at |-> NoPath, left |-> 0, tries |-> 0]

VendorTypeOK ==
    /\ tree \in Trees
    /\ vendor \in [Paths -> Copies]
    /\ job \in [pc : {"idle", "walk", "copy", "fetch", "done", "failed"}, rpc : BOOLEAN,
                provided : SUBSET Paths, pending : SUBSET Paths, at : Paths \cup {NoPath},
                left : 0 .. Queries, tries : 0 .. FetchAttempts]

VendorInit == /\ tree \in Trees
              /\ vendor = [p \in Paths |-> "none"]
              /\ job = Idle
-----------------------------------------------------------------------------
\* What the workspace resolves: the contracts and whatever is listed under vendor/.
Provided(v) == Ours \cup Listed(v)

\* parseDeps of a copy: a half one shows the imports of the files it has.
Shown(p, v, seen) == IF v[p] = "half" THEN seen \cap tree.imports[p] ELSE tree.imports[p]

\* The first work list: what the contracts and their tests import, archived ones aside...
OfOurs == UNION {tree.imports[c] \cup tree.tests[c] : c \in Ours \ ArchivedOurs}
\* Plausible bug: a vendored package is provided, so it is never opened again.
OfVendoredUnopened(v, seen) == {}
\* ... and what the packages already vendored import.
OfVendored(v, seen) == UNION {Shown(p, v, seen) : p \in Listed(v)}

\* -refresh empties vendor/ before anything is fetched.
Wiped(refresh) == IF refresh THEN [p \in Paths |-> "none"] ELSE vendor

StartVendor(refresh, rpc) ==
    /\ job.pc = "idle"
    /\ vendor' = Wiped(refresh)
    /\ \E seen \in SUBSET Paths :
          job' = [Idle EXCEPT !.pc = "walk", !.rpc = rpc, !.provided = Provided(vendor'),
                     !.pending = (OfOurs \cup OfVendored(vendor', seen)) \ Provided(vendor')]
    /\ UNCHANGED tree

Failed == [Idle EXCEPT !.pc = "failed"]

\* The head of the queue.  Names order it and nothing depends on the order: any
\* pending package may be next.  Examples win over the chain.
Take(p) ==
    /\ job.pc = "walk" /\ p \in job.pending
    /\ \/ /\ p \in InExamples
          /\ job' = [job EXCEPT !.pc = "copy", !.at = p, !.pending = @ \ {p}]
       \/ /\ p \notin InExamples /\ job.rpc
          /\ job' = [job EXCEPT !.pc = "fetch", !.at = p, !.pending = @ \ {p},
                        !.left = Queries, !.tries = FetchAttempts]
       \/ /\ p \notin InExamples /\ ~job.rpc
          /\ job' = Failed
    /\ UNCHANGED <<tree, vendor>>

\* How a query ends: no answer at all, a status that is not 200, a page of the edge
\* in place of JSON, an error of the node, or the bytes.
Answers == {"transport", "limited", "status", "page", "error", "bytes"}
Retryable(answer) == answer \in {"transport", "limited"}

\* One attempt at one query.  The listing of a package the chain does not have
\* is an error of the node.
Query(answer) ==
    /\ job.pc = "fetch"
    /\ answer = "bytes" => job.at \in OnChain
    /\ job' = CASE answer = "bytes" /\ job.left = 1 -> [job EXCEPT !.pc = "copy", !.left = 0]
                [] answer = "bytes" /\ job.left > 1 ->
                       [job EXCEPT !.left = @ - 1, !.tries = FetchAttempts]
                [] Retryable(answer) /\ job.tries > 1 -> [job EXCEPT !.tries = @ - 1]
                [] OTHER -> Failed
    /\ UNCHANGED <<tree, vendor>>

\* The files are written, the package is provided and what it imports is queued.
Copy ==
    /\ job.pc = "copy"
    /\ vendor' = [vendor EXCEPT ![job.at] = "whole"]
    /\ LET provided == job.provided \cup {job.at}
       IN  job' = [job EXCEPT !.pc = "walk", !.at = NoPath, !.left = 0, !.tries = 0,
                      !.provided = provided,
                      !.pending = (@ \cup tree.imports[job.at]) \ provided]
    /\ UNCHANGED tree

FinishVendor == /\ job.pc = "walk" /\ job.pending = {}
                /\ job' = [job EXCEPT !.pc = "done"]
                /\ UNCHANGED <<tree, vendor>>

\* The command is killed, or the disk is full: files are written one by one, so
\* a copy in progress may be left with or without its gnomod.toml.
Interrupt ==
    /\ job.pc \in {"walk", "copy", "fetch"}
    /\ IF job.pc = "copy"
       THEN \E c \in {"none", "unlisted", "half"} : vendor' = [vendor EXCEPT ![job.at] = c]
       ELSE UNCHANGED vendor
    /\ job' = Idle
    /\ UNCHANGED tree

Return == /\ job.pc \in {"done", "failed"}
          /\ job' = Idle
          /\ UNCHANGED <<tree, vendor>>

\* Between two runs the sources change.
EditSources == /\ job.pc = "idle"
        /\ \E t \in Trees : tree' = t
        /\ UNCHANGED <<vendor, job>>

VendorNext == \/ \E refresh, rpc \in BOOLEAN : StartVendor(refresh, rpc)
              \/ \E p \in Paths : Take(p)
              \/ \E answer \in Answers : Query(answer)
              \/ Copy \/ FinishVendor \/ Interrupt \/ Return \/ EditSources

VendorSpec == VendorInit /\ [][VendorNext]_vendorVars
-----------------------------------------------------------------------------
Resolves(p) == p \in Ours \/ vendor[p] = "whole"

\* A run that reports success leaves a workspace that resolves by itself, whatever
\* was interrupted, refused or edited before it: every import of a contract, of its
\* tests and of every vendored package is there, unless a write was cut in two and
\* the copy has its gnomod.toml, which no later run but -refresh repairs.
SelfContained ==
    (job.pc = "done" /\ Halves(vendor) = {}) =>
        /\ \A p \in OfOurs : Resolves(p)
        /\ \A q \in Listed(vendor) : \A p \in tree.imports[q] : Resolves(p)
=============================================================================
