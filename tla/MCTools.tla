------------------------------ MODULE MCTools ------------------------------
(* The tools on small trees and short runs: constants for TLC only. *)
EXTENDS Tools

CONSTANTS c1, c2, x, y, z,          \* vendor: two contracts, one archived; dependencies
          lib, app, page2, past, arch, \* preview: packages
          a0, a1, b0, net1,          \* status: modules, a network
          slot, intro, v, w,         \* publish: names and bodies
          cd1, cd2, pp, qq,          \* bench: candidates, packages
          dd1, dd2,                  \* pr: directories
          ra, rb, fa                 \* ratchet: rules, a file

\* vendor: what the live contract imports changes between runs; its test imports z.
VPaths == {c1, c2, x, y, z}
VTree(s) == [imports |-> [p \in VPaths |-> CASE p = c1 -> s [] p = c2 -> {c1, y}
                                             [] p = x -> {y, z} [] p = y -> {z} [] OTHER -> {}],
             tests |-> [p \in VPaths |-> IF p = c1 THEN {z} ELSE {}]]
VTrees == {VTree(s) : s \in {{}, {x}, {y}}}

\* preview: a library, a realm on it, a realm on an old version that imports the
\* library, and an archived realm.
PPkgs == {lib, app, page2, past, arch}
PDeps == [p \in PPkgs |-> CASE p \in {app, past, arch} -> {lib} [] p = page2 -> {past}
                            [] OTHER -> {}]
PPages == {"lib", "lib$source", "lib$source&file=f", "app", "app:1", "app:2",
           "app$state", "page2"}
PPkgOf == [u \in PPages |-> CASE u \in {"lib", "lib$source", "lib$source&file=f"} -> lib
                              [] u = "page2" -> page2 [] OTHER -> app]
PView == [u \in PPages |-> CASE u \in {"lib", "app", "page2"} -> "render"
                             [] u = "lib$source" -> "source"
                             [] u \in {"app:1", "app:2"} -> "args"
                             [] u = "app$state" -> "other" [] OTHER -> "file"]
PFile == [u \in PPages |-> "f"]
PLinks == [u \in PPages |-> CASE u = "lib$source" -> {"lib$source&file=f", "lib"}
                              [] u = "app" -> {"app:1", "app:2", "app$state", "lib"}
                              [] OTHER -> {}]
PPulls == {[p \in PPkgs |-> IF p = lib THEN {"f"} ELSE {}],
           [p \in PPkgs |-> IF p = app THEN {"toml"} ELSE {}], [p \in PPkgs |-> {}]}

\* status: one module that may be bumped, one at a moved path.
CMods == {a0, a1, b0}
CNext == [m \in CMods |-> IF m = a0 THEN a1 ELSE NoMod]
CMoved == {<<net1, b0>>}

\* publish: one file to start from.
HContents == {[m \in {slot, intro} |-> IF m = slot THEN v ELSE Nothing]}

\* bench: a workload, one over it and one over that; a candidate on two packages, one
\* of them below its import, and another on the second.
BLoads == {"build", "fill", "op"}
BBase == [k \in BLoads |-> CASE k = "build" -> "none" [] k = "fill" -> "build" [] OTHER -> "fill"]
BPhases == [k \in BLoads |-> CASE k = "build" -> 0 [] k = "fill" -> 1 [] OTHER -> 2]
BImports == [c \in {cd1, cd2} |-> IF c = cd1 THEN {pp} ELSE {qq}]
BRuns == [c \in {cd1, cd2} |-> IF c = cd1 THEN {pp, qq} ELSE {qq}]
BSkips == {<<cd2, "op">>}

\* pr: a package on mainnet and a directory to create one in.
DPathOrder == [n \in 0 .. 1 |-> n]
DStanding == [d \in {dd1, dd2} |-> IF d = dd1 THEN 0 ELSE Absent]
DDeployed == {<<dd1, 0>>}

\* ratchet: a row older than its rule, of two lines, and another.
ROld == {<<ra, fa>>}
RLines == [k \in {ra, rb} \X {fa} |-> IF k[1] = ra THEN 2 ELSE 1]
=============================================================================
