----------------------------- MODULE Toolchain -----------------------------
(***************************************************************************)
(* `gnocontracts gno lint|test|fmt` (src/tools/gnocontracts/gno.go): gno   *)
(* is run on every selected package, one after the other or by a pool of   *)
(* goroutines that share a semaphore, a lock on the output and one list of *)
(* what failed.                                                            *)
(***************************************************************************)
EXTENDS Naturals, Integers, FiniteSets, Sequences, SequencesExt

CONSTANTS
    Live,           \* directories of the working tree that are not archived
    Old,            \* superseded versions, materialized under .gnopm/
    Jobs,           \* -j
    NoDir           \* no directory

ASSUME ToolchainAssumption ==
    /\ Live \cap Old = {} /\ NoDir \notin Live \cup Old
    /\ IsFiniteSet(Live) /\ IsFiniteSet(Old)
    /\ Jobs \in Nat

VARIABLES
    view,           \* the stdlib-only image of GNOROOT: "none", "old" or "fresh"
    dirs,           \* the directories of this run
    step,           \* [dirs -> Steps]: where each goroutine is
    exit,           \* [dirs -> {"none", "ok", "bad"}]: how gno ended there
    lock,           \* who holds the lock on the output
    read,           \* the list of failures as the holder of the lock read it
    failed,         \* the directories listed as failed
    printed,        \* the blocks of output, in order
    verdict         \* what the command reports

toolVars == <<view, dirs, step, exit, lock, read, failed, printed, verdict>>

All == Live \cup Old
Steps == {"spawned", "running", "exited", "reporting", "done"}

\* fmt rewrites files, so it leaves alone what is rebuilt from history.
ContractDirs(verb) == IF verb = "fmt" THEN Live ELSE All

\* Whoever has a slot of the semaphore has it until it is done.
Holding == {d \in dirs : step[d] \in {"running", "exited", "reporting"}}

Parallel == Jobs >= 2 /\ Cardinality(dirs) >= 2

ToolchainInit ==
    /\ \E verb \in {"lint", "fmt"} : dirs \in SUBSET ContractDirs(verb) \ {{}}
    /\ view \in {"none", "old"}
    /\ step = [d \in dirs |-> "spawned"]
    /\ exit = [d \in dirs |-> "none"]
    /\ lock = NoDir /\ read = {}
    /\ failed = {} /\ printed = <<>> /\ verdict = "none"
-----------------------------------------------------------------------------
\* Before anything runs, the versions pinned to history are materialized and the
\* view is wiped and linked again, which takes a GNOROOT that names a real
\* checkout: a view built out of itself would be empty.
Prepare(gnoroot, synced) ==
    /\ view # "fresh" /\ verdict = "none"
    /\ IF synced /\ gnoroot = "checkout"
       THEN view' = "fresh" /\ UNCHANGED verdict
       ELSE verdict' = "refused" /\ UNCHANGED view
    /\ UNCHANGED <<dirs, step, exit, lock, read, failed, printed>>

Ready == view = "fresh" /\ verdict = "none"

\* A slot is free.
HasSlot == Cardinality(Holding) < Jobs

Acquire(d) ==
    /\ Ready /\ Parallel /\ step[d] = "spawned" /\ HasSlot
    /\ step' = [step EXCEPT ![d] = "running"]
    /\ UNCHANGED <<view, dirs, exit, lock, read, failed, printed, verdict>>

\* gno ends, its output in a buffer.
GnoExits(d, how) ==
    /\ Parallel /\ step[d] = "running"
    /\ step' = [step EXCEPT ![d] = "exited"]
    /\ exit' = [exit EXCEPT ![d] = how]
    /\ UNCHANGED <<view, dirs, lock, read, failed, printed, verdict>>

\* Plausible bug: the output is written and the list appended to without the lock.
AlwaysUnlocked == TRUE
Unlocked == lock = NoDir

\* Under the lock the block is printed and the list of failures read...
Lock(d) ==
    /\ step[d] = "exited" /\ Unlocked
    /\ step' = [step EXCEPT ![d] = "reporting"]
    /\ lock' = d /\ read' = failed
    /\ printed' = Append(printed, d)
    /\ UNCHANGED <<view, dirs, exit, failed, verdict>>

\* What a goroutine adds to the list it has read.
Noted(d) == IF exit[d] = "bad" THEN {d} ELSE {}

\* ... and written back longer; the deferred calls release the lock, the slot and
\* the wait group.
Unlock(d) ==
    /\ step[d] = "reporting"
    /\ failed' = read \cup Noted(d)
    /\ step' = [step EXCEPT ![d] = "done"]
    /\ lock' = NoDir
    /\ UNCHANGED <<view, dirs, exit, read, printed, verdict>>

\* wg.Wait returns once every goroutine is done.
Wait ==
    /\ Ready /\ Parallel /\ \A d \in dirs : step[d] = "done"
    /\ verdict' = IF failed = {} THEN "ok" ELSE "failed"
    /\ UNCHANGED <<view, dirs, step, exit, lock, read, failed, printed>>

\* With one job, or one package, they run in turn and the first failure ends the
\* command.  Directories are sorted; which is first makes no difference here.
RunNext(d, how) ==
    /\ Ready /\ ~Parallel /\ step[d] = "spawned"
    /\ step' = [step EXCEPT ![d] = "done"]
    /\ exit' = [exit EXCEPT ![d] = how]
    /\ printed' = Append(printed, d)
    /\ failed' = IF how = "bad" THEN {d} ELSE {}
    /\ verdict' = CASE how = "bad" -> "failed"
                    [] how = "ok" /\ \A e \in dirs \ {d} : step[e] = "done" -> "ok"
                    [] OTHER -> "none"
    /\ UNCHANGED <<view, dirs, lock, read>>

ToolchainNext ==
    \/ \E gnoroot \in {"unset", "view", "checkout"}, synced \in BOOLEAN : Prepare(gnoroot, synced)
    \/ \E d \in dirs : Acquire(d) \/ Lock(d) \/ Unlock(d)
    \/ \E d \in dirs, how \in {"ok", "bad"} : GnoExits(d, how) \/ RunNext(d, how)
    \/ Wait

\* Something happens as long as something can: the goroutines are scheduled and gno
\* ends; there is no timeout on it.
ToolchainFairness == WF_toolVars(ToolchainNext)

ToolchainSpec == ToolchainInit /\ [][ToolchainNext]_toolVars /\ ToolchainFairness
-----------------------------------------------------------------------------
ToolchainTypeOK ==
    /\ view \in {"none", "old", "fresh"}
    /\ dirs \in SUBSET All
    /\ step \in [dirs -> Steps]
    /\ exit \in [dirs -> {"none", "ok", "bad"}]
    /\ lock \in dirs \cup {NoDir}
    /\ read \in SUBSET dirs /\ failed \in SUBSET dirs
    /\ printed \in Seq(dirs)
    /\ verdict \in {"none", "ok", "failed", "refused"}

\* Green means that gno was run on every selected package and found nothing, and red
\* names only packages that failed, with one job or with many: no failure is lost
\* between two goroutines that append to the same list.
NoFalseGreen ==
    /\ verdict = "ok" => \A d \in dirs : exit[d] = "ok"
    /\ verdict = "failed" => failed # {} /\ \A d \in failed : exit[d] = "bad"
    /\ (verdict = "failed" /\ Parallel) => failed = {d \in dirs : exit[d] = "bad"}

\* No more than -j packages build at once, whatever ends in which order.
AtMostJobs == Cardinality(Holding) <= Jobs

\* The pool never stops before its verdict, and the verdict stays.
ToolchainEnds == <>[](verdict # "none")
=============================================================================
