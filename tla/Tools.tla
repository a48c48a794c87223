------------------------------- MODULE Tools -------------------------------
(***************************************************************************)
(* The command-line tools of the repository, one process at a time:        *)
(* `gnocontracts` dispatches on its first argument (main.go), gnohome and  *)
(* gnoblog are programs of their own.  What the other commands keep on     *)
(* disk, on a chain or in the repository stays as it is meanwhile, and a   *)
(* command that is not running has nothing left to do.                     *)
(***************************************************************************)
EXTENDS Vendor, Toolchain, Preview, Catalog, Drawings, TopoOrder, Publisher, Bench, Wiring,
        PullRequest, Ratchet

CONSTANT Commands   \* the commands to check

ASSUME CommandsAssumption ==
    Commands \subseteq {"vendor", "gno", "preview", "status", "graph", "order", "publish",
                        "bench", "wiring", "pr", "ratchet"}

VARIABLE command    \* which of them this behaviour is about

toolsVars == <<command, vendorVars, toolVars, previewVars, catalogVars, drawVars, topoVars,
               publishVars, benchVars, wiringVars, prVars, ratchetVars>>

\* Each state component of a command that does not run, as one of its own quiet states.
VendorOff == /\ tree = CHOOSE t \in Trees : TRUE
             /\ vendor = [p \in Paths |-> "none"] /\ job = Idle
ToolchainOff == /\ dirs = {} /\ view = "none" /\ step = <<>> /\ exit = <<>> /\ lock = NoDir
                /\ read = {} /\ failed = {} /\ printed = <<>> /\ verdict = "refused"
PreviewOff == /\ pc = "returned" /\ outcome = "ok" /\ pass = "head" /\ plan = NoPlan
              /\ node = [w \in Passes |-> "off"] /\ died = [w \in Passes |-> "empty"]
              /\ waited = [w \in Passes |-> FALSE] /\ crawl = [w \in Passes |-> NoCrawl]
              /\ scan = "none"
CatalogOff == /\ main = [tree |-> {}, pinned |-> {}, file |-> <<>>, rev |-> 0, merges |-> 0]
              /\ chain = [n \in Nets |-> [m \in Mods |-> "absent"]]
              /\ clone = main /\ synced = {}
              /\ ci = [NoCI EXCEPT !.attempt = PushAttempts]
TopoOff == /\ imports = [c \in Contracts |-> {}] /\ indeg = [c \in Contracts |-> 0]
           /\ ready = Contracts /\ order = <<>> /\ sorted = "running"
PublisherOff == /\ site = "home" /\ content = Empty("home")
                /\ page = [net \in Networks |-> Empty("home")]
                /\ sequence = [net \in Networks |-> 0]
                /\ docs = [p \in DocPaths |-> NoDoc]
                /\ scripts = [p \in DocPaths |-> NoScript]
                /\ pasted = [net \in Networks |-> NoMessages]
                /\ push = [net \in Networks |-> NoPush]
                /\ spent = [runs |-> 0, elsewhere |-> 0]
BenchOff == /\ trunk = [src |-> <<>>, results |-> <<>>, readme |-> <<>>, rev |-> 0]
            /\ bench = [t \in Benches |-> NoBench] /\ started = MaxStarts
WiringOff == /\ shape = [s \in BuildShapes |-> NewRun([o \in Objects |-> 0])]
             /\ calls = MaxCalls /\ op = NoCache
PullRequestOff == /\ base = [dirs |-> [d \in Dirs |-> Fresh(Absent)], pins |-> NoPins,
                             commits |-> {}, unread |-> {}]
                  /\ branch = [p \in PRs |-> NoBranch]
                  /\ deployed = [n \in Networks2 |-> {}] /\ frozen = {} /\ catalog = <<>>
RatchetOff == /\ guard = "audit" /\ patch = [p \in Changes |-> NoPatch] /\ raced = {}
              /\ mainline = [sheet |-> [k \in Debts |-> [l \in Lines(k) |-> "clean"]],
                             baseline |-> <<>>]

ToolsInit ==
    /\ command \in Commands
    /\ IF command = "vendor" THEN VendorInit ELSE VendorOff
    /\ IF command = "gno" THEN ToolchainInit ELSE ToolchainOff
    /\ IF command = "preview" THEN PreviewInit ELSE PreviewOff
    /\ IF command = "status" THEN CatalogInit ELSE CatalogOff
    /\ DrawingsInit
    /\ IF command = "order" THEN TopoInit ELSE TopoOff
    /\ IF command = "publish" THEN PublisherInit ELSE PublisherOff
    /\ IF command = "bench" THEN BenchInit ELSE BenchOff
    /\ IF command = "wiring" THEN WiringInit ELSE WiringOff
    /\ IF command = "pr" THEN PullRequestInit ELSE PullRequestOff
    /\ IF command = "ratchet" THEN RatchetInit ELSE RatchetOff

vendorCommand ==
    /\ command = "vendor" /\ VendorNext
    /\ UNCHANGED <<command, toolVars, previewVars, catalogVars, drawVars, topoVars,
                   publishVars, benchVars, wiringVars, prVars, ratchetVars>>
gnoCommand ==
    /\ command = "gno" /\ ToolchainNext
    /\ UNCHANGED <<command, vendorVars, previewVars, catalogVars, drawVars, topoVars,
                   publishVars, benchVars, wiringVars, prVars, ratchetVars>>
previewCommand ==
    /\ command = "preview" /\ PreviewNext
    /\ UNCHANGED <<command, vendorVars, toolVars, catalogVars, drawVars, topoVars,
                   publishVars, benchVars, wiringVars, prVars, ratchetVars>>
statusCommand ==
    /\ command = "status" /\ CatalogNext
    /\ UNCHANGED <<command, vendorVars, toolVars, previewVars, drawVars, topoVars,
                   publishVars, benchVars, wiringVars, prVars, ratchetVars>>
graphCommand ==
    /\ command = "graph" /\ DrawingsNext
    /\ UNCHANGED <<command, vendorVars, toolVars, previewVars, catalogVars, topoVars,
                   publishVars, benchVars, wiringVars, prVars, ratchetVars>>
orderCommand ==
    /\ command = "order" /\ TopoNext
    /\ UNCHANGED <<command, vendorVars, toolVars, previewVars, catalogVars, drawVars,
                   publishVars, benchVars, wiringVars, prVars, ratchetVars>>
publishCommand ==
    /\ command = "publish" /\ PublisherNext
    /\ UNCHANGED <<command, vendorVars, toolVars, previewVars, catalogVars, drawVars,
                   topoVars, benchVars, wiringVars, prVars, ratchetVars>>
benchCommand ==
    /\ command = "bench" /\ BenchNext
    /\ UNCHANGED <<command, vendorVars, toolVars, previewVars, catalogVars, drawVars,
                   topoVars, publishVars, wiringVars, prVars, ratchetVars>>
wiringCommand ==
    /\ command = "wiring" /\ WiringNext
    /\ UNCHANGED <<command, vendorVars, toolVars, previewVars, catalogVars, drawVars,
                   topoVars, publishVars, benchVars, prVars, ratchetVars>>
prCommand ==
    /\ command = "pr" /\ PullRequestNext
    /\ UNCHANGED <<command, vendorVars, toolVars, previewVars, catalogVars, drawVars,
                   topoVars, publishVars, benchVars, wiringVars, ratchetVars>>
ratchetCommand ==
    /\ command = "ratchet" /\ RatchetNext
    /\ UNCHANGED <<command, vendorVars, toolVars, previewVars, catalogVars, drawVars,
                   topoVars, publishVars, benchVars, wiringVars, prVars>>

ToolsNext == \/ vendorCommand \/ gnoCommand \/ previewCommand \/ statusCommand
             \/ graphCommand \/ orderCommand \/ publishCommand \/ benchCommand
             \/ wiringCommand \/ prCommand \/ ratchetCommand

ToolsSpec == /\ ToolsInit /\ [][ToolsNext]_toolsVars
             /\ ToolchainFairness /\ PreviewFairness /\ CatalogFairness
-----------------------------------------------------------------------------
\* Whatever a gno or a gnodev does, short of never ending, the commands that wait for
\* one come to an end, and no gnodev outlives its command; and once merges stop, the
\* hourly refresh brings the catalog up to the tree and it stays there.
ToolsSettle == ToolchainEnds /\ PreviewEnds /\ CatalogCatchesUp
=============================================================================
