--------------------------- MODULE Workspace_proofs ---------------------------
(***************************************************************************)
(* What holds of the tools that work on a checkout and its repository, for *)
(* any packages, any number of processes, any interruption: one part per   *)
(* command.                                                                *)
(***************************************************************************)
EXTENDS Toolchain, TopoOrder, Vendor, PullRequest, Ratchet, Drawings, Wiring, Sums,
        SequenceTheorems

-----------------------------------------------------------------------------
(* The pool of `gnocontracts gno`: what it reports is what gno found, whatever the
   goroutines interleave. *)

Done == {d \in dirs : step[d] = "done"}
Bad == {d \in dirs : exit[d] = "bad"}

\* With a pool: the lock is held by who reports, who has read the list as it is; the list
\* names those that are done and failed; and a verdict waits for all.
PoolInv ==
    /\ \A d \in dirs : step[d] = "reporting" <=> lock = d
    /\ lock # NoDir => read = failed
    /\ \A d \in dirs : exit[d] = "none" <=> step[d] \in {"spawned", "running"}
    /\ failed = Done \cap Bad
    /\ verdict \in {"ok", "failed"} => Done = dirs
    /\ verdict = "ok" => failed = {}
    /\ verdict = "failed" => failed # {}

\* In turn: nothing has failed until the verdict.
TurnInv ==
    /\ \A d \in dirs : step[d] \in {"spawned", "done"}
    /\ verdict = "none" => failed = {}
    /\ verdict \in {"none", "ok"} => \A d \in Done : exit[d] = "ok"
    /\ verdict = "ok" => Done = dirs
    /\ verdict = "failed" => failed # {} /\ failed \subseteq Bad

ToolchainInv ==
    /\ ToolchainTypeOK
    /\ Parallel => PoolInv
    /\ ~Parallel => TurnInv
    /\ AtMostJobs

LEMMA DirsAreFinite ==
    ASSUME dirs \in SUBSET All
    PROVE  /\ IsFiniteSet(dirs)
           /\ \A S \in SUBSET dirs : IsFiniteSet(S) /\ Cardinality(S) \in Nat
           /\ NoDir \notin dirs
<1>1. IsFiniteSet(All)
  BY ToolchainAssumption, FS_Union DEF All
<1>2. IsFiniteSet(dirs)
  BY <1>1, FS_Subset
<1>3. \A S \in SUBSET dirs : IsFiniteSet(S) /\ Cardinality(S) \in Nat
  BY <1>2, FS_Subset, FS_CardinalityType
<1>4. NoDir \notin dirs
  BY ToolchainAssumption DEF All
<1> QED BY <1>2, <1>3, <1>4

LEMMA StartsSound == ToolchainInit => ToolchainInv
<1> SUFFICES ASSUME ToolchainInit PROVE ToolchainInv
  OBVIOUS
<1>1. dirs \in SUBSET All
  BY DEF ToolchainInit, ContractDirs, All
<1>2. ToolchainTypeOK
  BY <1>1 DEF ToolchainInit, ToolchainTypeOK, Steps
<1>3. PoolInv
  BY <1>1, DirsAreFinite DEF ToolchainInit, PoolInv, Done, Bad
<1>4. TurnInv
  BY DEF ToolchainInit, TurnInv, Done
<1>5. Holding = {}
  BY DEF ToolchainInit, Holding
<1>6. AtMostJobs
  BY <1>5, FS_EmptySet, ToolchainAssumption DEF AtMostJobs
<1> QED BY <1>2, <1>3, <1>4, <1>6 DEF ToolchainInv

\* A step that moves one goroutine, in the terms of the sets of the invariant.
LEMMA TypeKept == ToolchainInv /\ [ToolchainNext]_toolVars => ToolchainTypeOK'
<1> SUFFICES ASSUME ToolchainInv, [ToolchainNext]_toolVars PROVE ToolchainTypeOK'
  OBVIOUS
<1> USE DEF ToolchainTypeOK, Steps
<1>0. ToolchainTypeOK
  BY DEF ToolchainInv
<1>1. ASSUME NEW gnoroot \in {"unset", "view", "checkout"}, NEW ok \in BOOLEAN,
             Prepare(gnoroot, ok)
      PROVE  ToolchainTypeOK'
  BY <1>0, <1>1 DEF Prepare
<1>2. ASSUME NEW d \in dirs, Acquire(d) PROVE ToolchainTypeOK'
  BY <1>0, <1>2 DEF Acquire
<1>3. ASSUME NEW d \in dirs, Lock(d) PROVE ToolchainTypeOK'
  <2>1. printed' \in Seq(dirs)
    BY <1>0, <1>3, AppendProperties DEF Lock
  <2> QED BY <1>0, <1>3, <2>1 DEF Lock
<1>4. ASSUME NEW d \in dirs, Unlock(d) PROVE ToolchainTypeOK'
  BY <1>0, <1>4 DEF Unlock, Noted
<1>5. ASSUME NEW d \in dirs, NEW how \in {"ok", "bad"}, GnoExits(d, how)
      PROVE  ToolchainTypeOK'
  BY <1>0, <1>5 DEF GnoExits
<1>6. ASSUME NEW d \in dirs, NEW how \in {"ok", "bad"}, RunNext(d, how)
      PROVE  ToolchainTypeOK'
  <2>1. printed' \in Seq(dirs)
    BY <1>0, <1>6, AppendProperties DEF RunNext
  <2>2. failed' \in SUBSET dirs
    BY <1>6 DEF RunNext
  <2> QED BY <1>0, <1>6, <2>1, <2>2 DEF RunNext
<1>7. CASE Wait
  BY <1>0, <1>7 DEF Wait
<1>8. CASE UNCHANGED toolVars
  BY <1>0, <1>8 DEF toolVars
<1> QED BY <1>1, <1>2, <1>3, <1>4, <1>5, <1>6, <1>7, <1>8 DEF ToolchainNext

LEMMA PoolKept ==
    ASSUME ToolchainInv, [ToolchainNext]_toolVars, Parallel
    PROVE  PoolInv'
<1> USE DEF PoolInv, Done, Bad
<1>0. PoolInv /\ ToolchainTypeOK /\ NoDir \notin dirs
  BY DirsAreFinite DEF ToolchainInv, ToolchainTypeOK
<1>1. ASSUME NEW gnoroot \in {"unset", "view", "checkout"}, NEW ok \in BOOLEAN,
             Prepare(gnoroot, ok)
      PROVE  PoolInv'
  BY <1>0, <1>1 DEF Prepare
<1>2. ASSUME NEW d \in dirs, Acquire(d) PROVE PoolInv'
  BY <1>0, <1>2 DEF Acquire, ToolchainTypeOK, Ready
<1>3. ASSUME NEW d \in dirs, Lock(d), Unlocked PROVE PoolInv'
  BY <1>0, <1>3 DEF Lock, ToolchainTypeOK, Unlocked
<1>4. ASSUME NEW d \in dirs, Unlock(d) PROVE PoolInv'
  <2>1. lock = d /\ read = failed /\ step[d] = "reporting" /\ exit[d] \in {"ok", "bad"}
    BY <1>0, <1>4 DEF Unlock, ToolchainTypeOK
  <2>2. failed' = Done' \cap Bad'
    BY <1>0, <1>4, <2>1 DEF Unlock, Noted, ToolchainTypeOK
  <2>3. verdict \notin {"ok", "failed"}
    BY <1>0, <2>1
  <2> QED BY <1>0, <1>4, <2>1, <2>2, <2>3 DEF Unlock, ToolchainTypeOK
<1>5. ASSUME NEW d \in dirs, NEW how \in {"ok", "bad"}, GnoExits(d, how)
      PROVE  PoolInv'
  BY <1>0, <1>5 DEF GnoExits, ToolchainTypeOK
<1>6. CASE Wait
  BY <1>0, <1>6 DEF Wait, ToolchainTypeOK
<1>7. CASE UNCHANGED toolVars
  BY <1>0, <1>7 DEF toolVars
<1>8. \A d \in dirs : Lock(d) => Unlocked
  BY DEF Lock
<1> QED BY <1>1, <1>2, <1>3, <1>4, <1>5, <1>6, <1>7, <1>8 DEF ToolchainNext, RunNext

LEMMA TurnKept ==
    ASSUME ToolchainInv, [ToolchainNext]_toolVars, ~Parallel
    PROVE  TurnInv'
<1> USE DEF TurnInv, Done, Bad
<1>0. TurnInv /\ ToolchainTypeOK
  BY DEF ToolchainInv
<1>1. ASSUME NEW gnoroot \in {"unset", "view", "checkout"}, NEW ok \in BOOLEAN,
             Prepare(gnoroot, ok)
      PROVE  TurnInv'
  BY <1>0, <1>1 DEF Prepare
<1>2. ASSUME NEW d \in dirs, NEW how \in {"ok", "bad"}, RunNext(d, how)
      PROVE  TurnInv'
  BY <1>0, <1>2 DEF RunNext, Ready, ToolchainTypeOK
<1>3. ASSUME NEW d \in dirs PROVE ~Acquire(d) /\ ~Lock(d) /\ ~Unlock(d)
  BY <1>0 DEF Acquire, Lock, Unlock
<1>4. ~Wait /\ \A d \in dirs, how \in {"ok", "bad"} : ~GnoExits(d, how)
  BY DEF Wait, GnoExits
<1>5. CASE UNCHANGED toolVars
  BY <1>0, <1>5 DEF toolVars
<1> QED BY <1>1, <1>2, <1>3, <1>4, <1>5 DEF ToolchainNext

LEMMA SlotsKept == ToolchainInv /\ [ToolchainNext]_toolVars => AtMostJobs'
<1> SUFFICES ASSUME ToolchainInv, [ToolchainNext]_toolVars PROVE AtMostJobs'
  OBVIOUS
<1>0. /\ ToolchainTypeOK /\ AtMostJobs /\ Jobs \in Nat
      /\ IsFiniteSet(Holding) /\ Cardinality(Holding) \in Nat
  BY DirsAreFinite, ToolchainAssumption DEF ToolchainInv, ToolchainTypeOK, Holding
<1>1. ASSUME Holding' \subseteq Holding PROVE AtMostJobs'
  <2>1. Cardinality(Holding') <= Cardinality(Holding)
    BY <1>0, <1>1, FS_Subset
  <2>2. Cardinality(Holding') \in Nat
    BY <1>0, <1>1, FS_Subset, FS_CardinalityType
  <2> QED BY <1>0, <2>1, <2>2 DEF AtMostJobs
<1>2. ASSUME NEW d \in dirs, Acquire(d) PROVE AtMostJobs'
  <2>1. Holding' = Holding \cup {d} /\ d \notin Holding
    BY <1>0, <1>2 DEF Acquire, Holding, ToolchainTypeOK
  <2>2. Cardinality(Holding') = Cardinality(Holding) + 1
    BY <1>0, <2>1, FS_AddElement
  <2>3. Cardinality(Holding) < Jobs
    BY <1>2 DEF Acquire, HasSlot
  <2> QED BY <1>0, <2>2, <2>3 DEF AtMostJobs
<1>3. ASSUME NEW d \in dirs, Lock(d) \/ Unlock(d) PROVE Holding' \subseteq Holding
  BY <1>0, <1>3 DEF Lock, Unlock, Holding, ToolchainTypeOK
<1>4. ASSUME NEW d \in dirs, NEW how \in {"ok", "bad"}, GnoExits(d, how) \/ RunNext(d, how)
      PROVE  Holding' \subseteq Holding
  BY <1>0, <1>4 DEF GnoExits, RunNext, Holding, ToolchainTypeOK
<1>5. ASSUME UNCHANGED <<dirs, step>> PROVE Holding' \subseteq Holding
  BY <1>5 DEF Holding
<1>6. ASSUME NEW gnoroot \in {"unset", "view", "checkout"}, NEW ok \in BOOLEAN,
             Prepare(gnoroot, ok)
      PROVE  UNCHANGED <<dirs, step>>
  BY <1>6 DEF Prepare
<1>7. Wait \/ UNCHANGED toolVars => UNCHANGED <<dirs, step>>
  BY DEF Wait, toolVars
<1> QED BY <1>1, <1>2, <1>3, <1>4, <1>5, <1>6, <1>7 DEF ToolchainNext

LEMMA StepsKeepIt == ToolchainInv /\ [ToolchainNext]_toolVars => ToolchainInv'
<1> SUFFICES ASSUME ToolchainInv, [ToolchainNext]_toolVars PROVE ToolchainInv'
  OBVIOUS
<1>1. dirs' = dirs
  BY DEF ToolchainNext, toolVars, Prepare, Acquire, Lock, Unlock, GnoExits, RunNext, Wait
<1>2. Parallel' <=> Parallel
  BY <1>1 DEF Parallel
<1> QED BY <1>2, TypeKept, PoolKept, TurnKept, SlotsKept DEF ToolchainInv

LEMMA SoundMeansHonest == ToolchainInv => NoFalseGreen
<1> SUFFICES ASSUME ToolchainInv PROVE NoFalseGreen
  OBVIOUS
<1>1. CASE Parallel
  BY <1>1 DEF ToolchainInv, ToolchainTypeOK, PoolInv, Done, Bad, NoFalseGreen
<1>2. CASE ~Parallel
  BY <1>2 DEF ToolchainInv, ToolchainTypeOK, TurnInv, Done, Bad, NoFalseGreen
<1> QED BY <1>1, <1>2

\* Whatever is started in whatever order, the state of runGno stays well formed.
THEOREM ToolchainTypeCorrect == ToolchainSpec => []ToolchainTypeOK
<1>1. ToolchainInv => ToolchainTypeOK
  BY DEF ToolchainInv
<1> QED BY <1>1, StartsSound, StepsKeepIt, PTL DEF ToolchainSpec

\* runGno never has more than -j processes at a time, for any number of packages.
THEOREM PoolIsBounded == ToolchainSpec => []AtMostJobs
<1>1. ToolchainInv => AtMostJobs
  BY DEF ToolchainInv
<1> QED BY <1>1, StartsSound, StepsKeepIt, PTL DEF ToolchainSpec

\* Green means every package was run and is clean; red names the packages that failed,
\* and with a pool every one of them: no append to the shared list is lost.
THEOREM VerdictIsHonest == ToolchainSpec => []NoFalseGreen
<1> QED BY SoundMeansHonest, StartsSound, StepsKeepIt, PTL DEF ToolchainSpec

-----------------------------------------------------------------------------
(* topoOrder: any finite set of contracts, whatever they import. *)

Out == {order[i] : i \in DOMAIN order}

\* indeg counts the imports that are not out yet, ready holds whoever has none, and the
\* order so far is as long as what it has put out.
TopoInv ==
    /\ TopoTypeOK
    /\ \A c \in Contracts : indeg[c] = Cardinality(deps(c) \ Out)
    /\ ready = {c \in Contracts \ Out : deps(c) \subseteq Out}
    /\ \A i \in DOMAIN order : deps(order[i]) \subseteq {order[j] : j \in 1 .. i - 1}
    /\ \A i, j \in DOMAIN order : order[i] = order[j] => i = j
    /\ Len(order) = Cardinality(Out)
    /\ sorted = "ordered" => Out = Contracts
    /\ sorted = "cycle" => ready = {} /\ Out # Contracts

LEMMA DepsAreFinite ==
    ASSUME NEW c \in Contracts, NEW S
    PROVE  /\ IsFiniteSet(deps(c) \ S)
           /\ Cardinality(deps(c) \ S) \in 0 .. Cardinality(Contracts)
           /\ Cardinality(deps(c) \ S) = 0 <=> deps(c) \subseteq S
<1>1. IsFiniteSet(Contracts) /\ deps(c) \ S \subseteq Contracts
  BY TopoAssumption DEF deps
<1>2. IsFiniteSet(deps(c) \ S) /\ Cardinality(deps(c) \ S) <= Cardinality(Contracts)
  BY <1>1, FS_Subset
<1>3. Cardinality(deps(c) \ S) \in Nat /\ Cardinality(Contracts) \in Nat
  BY <1>1, <1>2, FS_CardinalityType
<1>4. Cardinality(deps(c) \ S) = 0 <=> deps(c) \ S = {}
  BY <1>2, FS_EmptySet
<1> QED BY <1>2, <1>3, <1>4

LEMMA OrderStarts == TopoInit => TopoInv
<1> SUFFICES ASSUME TopoInit PROVE TopoInv
  OBVIOUS
<1>1. order = <<>> /\ DOMAIN order = {} /\ Len(order) = 0 /\ Out = {} /\ sorted = "running"
  BY DEF TopoInit, Out
<1>2. \A c \in Contracts : indeg[c] = Cardinality(deps(c))
  BY DEF TopoInit
<1>3. \A c \in Contracts : deps(c) \ Out = deps(c)
  BY <1>1
<1>4. \A c \in Contracts : indeg[c] = Cardinality(deps(c) \ Out)
  BY <1>2, <1>3
<1>5. indeg \in [Contracts -> 0 .. Cardinality(Contracts)]
  <2>1. \A c \in Contracts : indeg[c] \in 0 .. Cardinality(Contracts)
    BY <1>4, DepsAreFinite
  <2>2. indeg = [c \in Contracts |-> indeg[c]]
    BY DEF TopoInit
  <2> QED BY <2>1, <2>2
<1>6. ready = {c \in Contracts \ Out : deps(c) \subseteq Out}
  <2>1. ready = {c \in Contracts : indeg[c] = 0}
    BY DEF TopoInit
  <2>2. \A c \in Contracts : indeg[c] = 0 <=> deps(c) \subseteq Out
    BY <1>4, DepsAreFinite
  <2> QED BY <2>1, <2>2, <1>1
<1>7. TopoTypeOK
  BY <1>1, <1>5, <1>6 DEF TopoInit, TopoTypeOK
<1>8. Len(order) = Cardinality(Out)
  BY <1>1, FS_EmptySet
<1> QED BY <1>1, <1>4, <1>6, <1>7, <1>8 DEF TopoInv

LEMMA PopKeepsIt ==
    ASSUME TopoInv, NEW p \in Contracts, Pop(p)
    PROVE  TopoInv'
<1>0. /\ TopoTypeOK /\ p \notin Out /\ deps(p) \subseteq Out /\ Out \subseteq Contracts
      /\ order \in Seq(Contracts) /\ imports' = imports /\ sorted = "running"
      /\ sorted' = sorted
  BY DEF TopoInv, Pop, TopoTypeOK, Out
<1>1. /\ order' = Append(order, p) /\ order' \in Seq(Contracts)
      /\ Len(order') = Len(order) + 1 /\ DOMAIN order' = 1 .. Len(order) + 1
      /\ \A i \in 1 .. Len(order) : order'[i] = order[i]
      /\ order'[Len(order) + 1] = p /\ DOMAIN order = 1 .. Len(order) /\ Len(order) \in Nat
  BY <1>0, AppendProperties DEF Pop
<1>2. Out' = Out \cup {p}
  BY <1>1 DEF Out
<1>3. \A c \in Contracts : deps(c)' = deps(c)
  BY <1>0 DEF deps
<1>4. \A c \in Contracts : indeg'[c] = Cardinality(deps(c) \ Out')
  <2> SUFFICES ASSUME NEW c \in Contracts PROVE indeg'[c] = Cardinality(deps(c) \ Out')
    OBVIOUS
  <2>1. indeg[c] = Cardinality(deps(c) \ Out) /\ indeg[c] \in Nat
    BY <1>0 DEF TopoInv, TopoTypeOK
  <2>2. CASE p \in deps(c)
    <3>1. indeg'[c] = indeg[c] - 1
      BY <2>2 DEF Pop, dependents
    <3>2. deps(c) \ Out' = (deps(c) \ Out) \ {p} /\ p \in deps(c) \ Out
      BY <1>0, <1>2, <2>2
    <3>3. IsFiniteSet(deps(c) \ Out)
      BY DepsAreFinite
    <3>4. Cardinality((deps(c) \ Out) \ {p}) = Cardinality(deps(c) \ Out) - 1
      BY <3>2, <3>3, FS_RemoveElement
    <3> QED BY <2>1, <3>1, <3>2, <3>4
  <2>3. CASE p \notin deps(c)
    <3>1. indeg'[c] = indeg[c]
      BY <2>3 DEF Pop, dependents
    <3>2. deps(c) \ Out' = deps(c) \ Out
      BY <1>2, <2>3
    <3> QED BY <2>1, <3>1, <3>2
  <2> QED BY <2>2, <2>3
<1>5. \A c \in Contracts : indeg'[c] = 0 <=> deps(c) \subseteq Out'
  BY <1>4, DepsAreFinite
<1>6. ready' = {c \in Contracts \ Out' : deps(c) \subseteq Out'}
  <2>1. ready' = (ready \ {p}) \cup {c \in dependents(p) : indeg'[c] = 0}
    BY DEF Pop
  <2>2. ready = {c \in Contracts \ Out : deps(c) \subseteq Out}
    BY DEF TopoInv
  <2>3. \A c \in dependents(p) : c \in Contracts /\ p \in deps(c) /\ c # p
    BY DEF dependents, deps
  <2>4. \A c \in Out : deps(c) \subseteq Out
    <3> SUFFICES ASSUME NEW i \in DOMAIN order PROVE deps(order[i]) \subseteq Out
      BY DEF Out
    <3>1. deps(order[i]) \subseteq {order[j] : j \in 1 .. i - 1}
      BY DEF TopoInv
    <3>2. \A j \in 1 .. i - 1 : j \in DOMAIN order
      BY <1>1
    <3> QED BY <3>1, <3>2 DEF Out
  <2>5. \A c \in dependents(p) : c \notin Out'
    BY <1>0, <1>2, <2>3, <2>4
  <2>6. \A c \in Contracts \ Out' : deps(c) \subseteq Out' /\ p \notin deps(c) => deps(c) \subseteq Out
    BY <1>2
  <2>7. \A c \in Contracts : p \in deps(c) => c \in dependents(p)
    BY DEF dependents
  <2> QED BY <1>2, <1>5, <2>1, <2>2, <2>3, <2>5, <2>6, <2>7
<1>7. \A i \in DOMAIN order' : deps(order'[i]) \subseteq {order'[j] : j \in 1 .. i - 1}
  <2> SUFFICES ASSUME NEW i \in DOMAIN order'
               PROVE  deps(order'[i]) \subseteq {order'[j] : j \in 1 .. i - 1}
    OBVIOUS
  <2>1. \A j \in 1 .. i - 1 : order'[j] = order[j]
    BY <1>1
  <2>2. {order'[j] : j \in 1 .. i - 1} = {order[j] : j \in 1 .. i - 1}
    BY <2>1
  <2>3. CASE i \in DOMAIN order
    BY <1>1, <2>2, <2>3 DEF TopoInv
  <2>4. CASE i = Len(order) + 1
    <3>1. {order[j] : j \in 1 .. i - 1} = Out
      BY <1>1, <2>4 DEF Out
    <3> QED BY <1>0, <1>1, <2>2, <2>4, <3>1
  <2>5. i \in DOMAIN order \/ i = Len(order) + 1
    <3>1. i \in 1 .. Len(order) + 1 /\ DOMAIN order = 1 .. Len(order) /\ Len(order) \in Nat
      BY <1>1
    <3> QED BY <3>1
  <2> QED BY <2>3, <2>4, <2>5
<1>8. \A i, j \in DOMAIN order' : order'[i] = order'[j] => i = j
  <2>1. \A i \in DOMAIN order : order[i] # p
    BY <1>0 DEF Out
  <2>2. \A i, j \in DOMAIN order : order[i] = order[j] => i = j
    BY DEF TopoInv
  <2> QED BY <1>1, <2>1, <2>2
<1>9. Len(order') = Cardinality(Out')
  <2>1. IsFiniteSet(Out)
    BY <1>0, TopoAssumption, FS_Subset
  <2>2. Cardinality(Out \cup {p}) = Cardinality(Out) + 1
    BY <1>0, <2>1, FS_AddElement
  <2> QED BY <1>1, <1>2, <2>2 DEF TopoInv
<1>10. TopoTypeOK'
  <2>1. indeg' \in [Contracts -> 0 .. Cardinality(Contracts)]
    <3>1. ASSUME NEW c \in Contracts PROVE indeg'[c] \in 0 .. Cardinality(Contracts)
      <4>1. Cardinality(deps(c) \ Out') \in 0 .. Cardinality(Contracts)
        BY DepsAreFinite
      <4>2. indeg'[c] = Cardinality(deps(c) \ Out')
        BY ONLY <1>4, c \in Contracts
      <4> QED BY ONLY <4>1, <4>2
    <3>2. indeg' = [c \in Contracts |-> indeg'[c]]
      BY DEF Pop
    <3> QED BY <3>1, <3>2
  <2> QED BY <1>0, <1>1, <1>6, <2>1 DEF TopoTypeOK
<1>11. (\A c \in Contracts : indeg[c] = Cardinality(deps(c) \ Out))'
  BY <1>3, <1>4
<1>12. (ready = {c \in Contracts \ Out : deps(c) \subseteq Out})'
  BY <1>3, <1>6
<1>13. (\A i \in DOMAIN order : deps(order[i]) \subseteq {order[j] : j \in 1 .. i - 1})'
  <2>1. \A i \in DOMAIN order' : order'[i] \in Contracts
    BY <1>1
  <2> QED BY <1>0, <1>7 DEF deps
<1> QED BY <1>0, <1>8, <1>9, <1>10, <1>11, <1>12, <1>13 DEF TopoInv

LEMMA FinishKeepsIt ==
    ASSUME TopoInv, Finish
    PROVE  TopoInv'
<1>1. UNCHANGED <<imports, indeg, ready, order>> /\ ready = {}
  BY DEF Finish
<1>2. Out' = Out /\ Out \subseteq Contracts
  BY <1>1 DEF Out, TopoInv, TopoTypeOK
<1>3. sorted' \in {"ordered", "cycle"}
  BY DEF Finish
<1>4. sorted' = "ordered" => Out' = Contracts
  <2>1. sorted' = "ordered" => Cardinality(Out) = Cardinality(Contracts)
    BY DEF Finish, TopoInv
  <2> QED BY <1>2, <2>1, TopoAssumption, FS_Subset
<1>5. sorted' = "cycle" => Out' # Contracts
  BY <1>2 DEF Finish, TopoInv
<1>6. TopoTypeOK'
  BY <1>1, <1>3 DEF TopoTypeOK, TopoInv
<1> QED BY <1>1, <1>2, <1>4, <1>5, <1>6 DEF TopoInv, deps

LEMMA OrderIsKept == TopoInv /\ [TopoNext]_topoVars => TopoInv'
<1> SUFFICES ASSUME TopoInv, [TopoNext]_topoVars PROVE TopoInv'
  OBVIOUS
<1>1. CASE UNCHANGED topoVars
  <2>1. UNCHANGED <<imports, indeg, ready, order, sorted>>
    BY <1>1 DEF topoVars
  <2>2. Out' = Out /\ \A c : deps(c)' = deps(c)
    BY <2>1 DEF Out, deps
  <2>3. TopoTypeOK'
    BY <2>1 DEF TopoTypeOK, TopoInv
  <2> QED BY <2>1, <2>2, <2>3 DEF TopoInv
<1> QED BY <1>1, PopKeepsIt, FinishKeepsIt DEF TopoNext

\* Contracts that are left when nobody is ready all wait for one another.
LEMMA SoundOrder == TopoInv => OrderIsSound
<1> SUFFICES ASSUME TopoInv PROVE OrderIsSound
  OBVIOUS
<1>1. \A i \in DOMAIN order : (imports[order[i]] \cap Contracts) \ {order[i]}
                                 \subseteq {order[j] : j \in 1 .. i - 1}
  BY DEF TopoInv, deps
<1>2. IsInjective(order)
  BY DEF TopoInv, IsInjective
<1>3. sorted = "ordered" => ToSet(order) = Contracts
  BY DEF TopoInv, ToSet, Out
<1>4. ASSUME sorted = "cycle"
      PROVE  \E S \in SUBSET Contracts \ {{}} : \A c \in S : (imports[c] \cap S) \ {c} # {}
  <2> DEFINE S == Contracts \ Out
  <2>1. S # {} /\ S \subseteq Contracts
    BY <1>4 DEF TopoInv, TopoTypeOK, Out
  <2>2. \A c \in S : ~(deps(c) \subseteq Out)
    BY <1>4 DEF TopoInv
  <2>3. \A c \in S : (imports[c] \cap S) \ {c} # {}
    BY <2>2 DEF deps
  <2> QED BY <2>1, <2>3
<1> QED BY <1>1, <1>2, <1>3, <1>4 DEF OrderIsSound

\* For any finite set of contracts, whatever they import: nothing comes before what it
\* imports or comes twice, an order is complete, and "cycle" is said of a cycle.
THEOREM TopoOrderIsSound == TopoSpec => []OrderIsSound
<1> QED BY OrderStarts, OrderIsKept, SoundOrder, PTL DEF TopoSpec

-----------------------------------------------------------------------------
(* `gnocontracts vendor`: the imports of any workspace are closed, over any runs,
   edits, refusals and interruptions. *)

Working == {"walk", "copy", "fetch", "done"}

\* What is known to be needed: provided already, pending, or in progress.
Accounted == job.provided \cup job.pending \cup {job.at}

\* While a run lasts, what it takes for provided is provided, what is needed is known,
\* and nothing that is provided is fetched again.
VendorInv ==
    /\ VendorTypeOK
    /\ job.pc \in Working =>
          /\ job.provided = Provided(vendor)
          /\ job.pending \cap job.provided = {}
          /\ job.pc \in {"copy", "fetch"} => job.at \in Paths \ job.provided
          /\ job.pc \in {"walk", "done"} => job.at = NoPath
          /\ job.pc = "done" => job.pending = {}
          /\ Halves(vendor) = {} =>
                /\ OfOurs \subseteq Accounted
                /\ \A q \in Listed(vendor) : tree.imports[q] \subseteq Accounted

LEMMA TreesAreTyped ==
    ASSUME tree \in Trees
    PROVE  /\ \A p \in Paths : tree.imports[p] \subseteq Paths /\ tree.tests[p] \subseteq Paths
           /\ OfOurs \subseteq Paths
<1>1. tree \in [imports : [Paths -> SUBSET Paths], tests : [Paths -> SUBSET Paths]]
  BY VendorAssumption
<1>2. \A p \in Paths : tree.imports[p] \subseteq Paths /\ tree.tests[p] \subseteq Paths
  BY <1>1
<1>3. OfOurs \subseteq Paths
  BY <1>2, VendorAssumption DEF OfOurs
<1> QED BY <1>2, <1>3

LEMMA Bounds == Queries \in Nat \ {0} /\ FetchAttempts \in Nat \ {0} /\ NoPath \notin Paths
BY VendorAssumption

\* The fields of a command in progress.
JobRecords == [pc : {"idle", "walk", "copy", "fetch", "done", "failed"}, rpc : BOOLEAN,
         provided : SUBSET Paths, pending : SUBSET Paths, at : Paths \cup {NoPath},
         left : 0 .. Queries, tries : 0 .. FetchAttempts]

LEMMA RestingJobs == Idle \in JobRecords /\ Failed \in JobRecords
<1>1. 0 \in 0 .. Queries /\ 0 \in 0 .. FetchAttempts
  BY Bounds
<1> QED BY <1>1 DEF Idle, Failed, JobRecords

\* Idle states have nothing to keep.
LEMMA RestIsSound ==
    ASSUME VendorTypeOK', job'.pc \notin Working
    PROVE  VendorInv'
BY DEF VendorInv, Working

LEMMA VendorStarts == VendorInit => VendorInv
<1> SUFFICES ASSUME VendorInit PROVE VendorInv
  OBVIOUS
<1>1. VendorTypeOK
  BY VendorAssumption DEF VendorInit, VendorTypeOK, Idle, Copies
<1> QED BY <1>1 DEF VendorInit, VendorInv, Idle, Working

LEMMA StartKeepsIt ==
    ASSUME VendorInv, NEW refresh \in BOOLEAN, NEW rpc \in BOOLEAN, StartVendor(refresh, rpc)
    PROVE  VendorInv'
<1>0. VendorTypeOK /\ tree \in Trees /\ tree' = tree
  BY DEF VendorInv, VendorTypeOK, StartVendor
<1>1. vendor' \in [Paths -> Copies]
  BY <1>0 DEF StartVendor, Wiped, VendorTypeOK, Copies
<1>2. PICK seen \in SUBSET Paths :
          job' = [Idle EXCEPT !.pc = "walk", !.rpc = rpc, !.provided = Provided(vendor'),
                     !.pending = (OfOurs \cup OfVendored(vendor', seen)) \ Provided(vendor')]
  BY DEF StartVendor
<1>3. /\ job'.pc = "walk" /\ job'.provided = Provided(vendor') /\ job'.at = NoPath
      /\ job'.pending = (OfOurs \cup OfVendored(vendor', seen)) \ Provided(vendor')
      /\ job'.left = 0 /\ job'.tries = 0
  BY <1>2 DEF Idle
<1>4. OfVendored(vendor', seen) \subseteq Paths
  BY <1>0, TreesAreTyped DEF OfVendored, Shown, Listed
<1>5. Provided(vendor') \subseteq Paths
  BY VendorAssumption DEF Provided, Listed
<1>6. VendorTypeOK'
  <2>1. job'.pending \subseteq Paths
    BY <1>0, <1>3, <1>4, TreesAreTyped
  <2>2. job' = [Idle EXCEPT !.pc = "walk", !.rpc = rpc, !.provided = Provided(vendor'),
                            !.pending = job'.pending]
    BY <1>2, <1>3
  <2>3. job' \in JobRecords
    BY <1>5, <2>1, <2>2, RestingJobs DEF JobRecords
  <2> QED BY <1>0, <1>1, <2>3 DEF VendorTypeOK, JobRecords
<1>7. OfOurs' = OfOurs /\ Provided(vendor)' = Provided(vendor')
  BY <1>0 DEF OfOurs, Provided, Listed
<1>8. OfOurs' \subseteq Accounted'
  BY <1>3, <1>7 DEF Accounted
<1>9. ASSUME Halves(vendor') = {}, NEW q \in Listed(vendor')
      PROVE  tree'.imports[q] \subseteq Accounted'
  <2>1. Shown(q, vendor', seen) = tree.imports[q]
    BY <1>9 DEF Shown, Halves, Listed
  <2>2. tree.imports[q] \subseteq OfVendored(vendor', seen)
    BY <2>1 DEF OfVendored
  <2> QED BY <1>0, <1>3, <2>2 DEF Accounted
<1>10. Halves(vendor)' = Halves(vendor') /\ Listed(vendor)' = Listed(vendor')
  BY DEF Halves, Listed
<1> QED BY <1>3, <1>6, <1>7, <1>8, <1>9, <1>10 DEF VendorInv, Working

LEMMA TakeKeepsIt ==
    ASSUME VendorInv, NEW p \in Paths, Take(p)
    PROVE  VendorInv'
<1>0. /\ VendorTypeOK /\ tree' = tree /\ vendor' = vendor
      /\ job.pc = "walk" /\ p \in job.pending
  BY DEF VendorInv, Take
<1>1. CASE job'.pc \in {"copy", "fetch"}
  <2>1. /\ job'.at = p /\ job'.pending = job.pending \ {p} /\ job'.provided = job.provided
        /\ job' \in [pc : {"idle", "walk", "copy", "fetch", "done", "failed"}, rpc : BOOLEAN,
                     provided : SUBSET Paths, pending : SUBSET Paths,
                     at : Paths \cup {NoPath}, left : 0 .. Queries,
                     tries : 0 .. FetchAttempts]
    <3>1. job' # Failed
      BY <1>1 DEF Failed, Idle
    <3>2. CASE job' = [job EXCEPT !.pc = "copy", !.at = p, !.pending = @ \ {p}]
      BY <1>0, <3>2 DEF VendorTypeOK
    <3>3. CASE job' = [job EXCEPT !.pc = "fetch", !.at = p, !.pending = @ \ {p},
                                  !.left = Queries, !.tries = FetchAttempts]
      <4>1. job \in JobRecords /\ Queries \in 0 .. Queries /\ FetchAttempts \in 0 .. FetchAttempts
        BY <1>0, Bounds DEF VendorTypeOK, JobRecords
      <4>2. job' \in JobRecords
        BY <3>3, <4>1 DEF JobRecords
      <4>3. job'.at = p /\ job'.pending = job.pending \ {p} /\ job'.provided = job.provided
        BY <3>3, <4>1 DEF JobRecords
      <4> QED BY <4>2, <4>3 DEF JobRecords
    <3> QED BY <3>1, <3>2, <3>3 DEF Take
  <2>2. VendorTypeOK'
    BY <1>0, <2>1 DEF VendorTypeOK
  <2>3. Accounted' = Accounted \cup {p} \/ Accounted' \cup {job.at} = Accounted
    BY <1>0, <2>1 DEF Accounted
  <2>4. job.at = NoPath /\ NoPath \notin Paths
    BY <1>0, VendorAssumption DEF VendorInv, Working
  <2>5. \A S \in SUBSET Paths : S \subseteq Accounted => S \subseteq Accounted'
    BY <1>0, <2>1, <2>4 DEF Accounted
  <2>6. /\ Halves(vendor)' = Halves(vendor) /\ Listed(vendor)' = Listed(vendor)
        /\ Provided(vendor)' = Provided(vendor) /\ OfOurs' = OfOurs
    BY <1>0 DEF Halves, Listed, Provided, OfOurs
  <2>7. /\ OfOurs \subseteq Paths /\ \A q \in Listed(vendor) : tree.imports[q] \subseteq Paths
    BY <1>0, TreesAreTyped DEF VendorTypeOK, Listed
  <2>8. p \notin job.provided
    BY <1>0 DEF VendorInv, Working
  <2> QED BY <1>0, <1>1, <2>1, <2>2, <2>5, <2>6, <2>7, <2>8 DEF VendorInv, Working
<1>2. CASE job' = Failed
  <2>1. VendorTypeOK'
    BY <1>0, <1>2, RestingJobs DEF VendorTypeOK, JobRecords
  <2> QED BY <1>2, <2>1, RestIsSound DEF Failed, Idle, Working
<1>3. job' = Failed \/ job'.pc \in {"copy", "fetch"}
  <2>1. job' = [job EXCEPT !.pc = "copy", !.at = p, !.pending = @ \ {p}] => job'.pc = "copy"
    BY <1>0 DEF VendorTypeOK
  <2>2. job' = [job EXCEPT !.pc = "fetch", !.at = p, !.pending = @ \ {p}, !.left = Queries,
                           !.tries = FetchAttempts] => job'.pc = "fetch"
    BY <1>0 DEF VendorTypeOK
  <2> QED BY <2>1, <2>2 DEF Take
<1> QED BY <1>1, <1>2, <1>3

LEMMA QueryKeepsIt ==
    ASSUME VendorInv, NEW answer \in Answers, Query(answer)
    PROVE  VendorInv'
<1>0. VendorTypeOK /\ job.pc = "fetch" /\ tree' = tree /\ vendor' = vendor
  BY DEF VendorInv, Query
<1>1. CASE job' = Failed
  <2>1. VendorTypeOK'
    BY <1>0, <1>1, RestingJobs DEF VendorTypeOK, JobRecords
  <2> QED BY <1>1, <2>1, RestIsSound DEF Failed, Idle, Working
<1>2. CASE job' # Failed
  <2>1. /\ job'.pc \in {"copy", "fetch"} /\ job'.at = job.at
        /\ job'.pending = job.pending /\ job'.provided = job.provided
        /\ VendorTypeOK'
    <3>0. /\ job \in JobRecords /\ 0 \in 0 .. Queries
          /\ Queries \in 0 .. Queries /\ FetchAttempts \in 0 .. FetchAttempts
      BY <1>0, Bounds DEF VendorTypeOK, JobRecords
    <3>1. ASSUME NEW left \in 0 .. Queries, job' = [job EXCEPT !.pc = "copy", !.left = left]
          PROVE  /\ job' \in JobRecords /\ job'.pc = "copy" /\ job'.at = job.at
                 /\ job'.pending = job.pending /\ job'.provided = job.provided
      BY <3>0, <3>1 DEF JobRecords
    <3>2. ASSUME NEW left \in 0 .. Queries,
                 job' = [job EXCEPT !.left = left, !.tries = FetchAttempts]
          PROVE  /\ job' \in JobRecords /\ job'.pc = "fetch" /\ job'.at = job.at
                 /\ job'.pending = job.pending /\ job'.provided = job.provided
      BY <1>0, <3>0, <3>2 DEF JobRecords
    <3>3. ASSUME NEW tries \in 0 .. FetchAttempts, job' = [job EXCEPT !.tries = tries]
          PROVE  /\ job' \in JobRecords /\ job'.pc = "fetch" /\ job'.at = job.at
                 /\ job'.pending = job.pending /\ job'.provided = job.provided
      BY <1>0, <3>0, <3>3 DEF JobRecords
    <3>4. /\ job.left > 1 => job.left - 1 \in 0 .. Queries
          /\ job.tries > 1 => job.tries - 1 \in 0 .. FetchAttempts
      BY <3>0, Bounds DEF JobRecords
    <3>5. \/ job' = [job EXCEPT !.pc = "copy", !.left = 0]
          \/ job.left > 1 /\ job' = [job EXCEPT !.left = @ - 1, !.tries = FetchAttempts]
          \/ job.tries > 1 /\ job' = [job EXCEPT !.tries = @ - 1]
      BY <1>2 DEF Query
    <3>6. /\ job' \in JobRecords /\ job'.pc \in {"copy", "fetch"} /\ job'.at = job.at
          /\ job'.pending = job.pending /\ job'.provided = job.provided
      BY <3>0, <3>1, <3>2, <3>3, <3>4, <3>5
    <3> QED BY <1>0, <3>6 DEF VendorTypeOK, JobRecords
  <2>2. /\ Halves(vendor)' = Halves(vendor) /\ Listed(vendor)' = Listed(vendor)
        /\ Provided(vendor)' = Provided(vendor) /\ OfOurs' = OfOurs /\ Accounted' = Accounted
    BY <1>0, <2>1 DEF Halves, Listed, Provided, OfOurs, Accounted
  <2> QED BY <1>0, <2>1, <2>2 DEF VendorInv, Working
<1> QED BY <1>1, <1>2

LEMMA CopyKeepsIt ==
    ASSUME VendorInv, Copy
    PROVE  VendorInv'
<1> DEFINE provided == job.provided \cup {job.at}
<1>0. /\ VendorTypeOK /\ job.pc = "copy" /\ tree \in Trees /\ tree' = tree
      /\ job.at \in Paths \ job.provided /\ job.provided = Provided(vendor)
      /\ vendor \in [Paths -> Copies]
  BY DEF VendorInv, Copy, Working, VendorTypeOK
<1>1. /\ vendor' = [vendor EXCEPT ![job.at] = "whole"]
      /\ job'.pc = "walk" /\ job'.at = NoPath /\ job'.provided = provided
      /\ job'.pending = (job.pending \cup tree.imports[job.at]) \ provided
      /\ VendorTypeOK'
  <2>1. tree.imports[job.at] \subseteq Paths
    BY <1>0, TreesAreTyped
  <2>2. vendor' \in [Paths -> Copies] /\ vendor' = [vendor EXCEPT ![job.at] = "whole"]
    BY <1>0 DEF Copy, Copies
  <2>3. job' = [job EXCEPT !.pc = "walk", !.at = NoPath, !.left = 0, !.tries = 0,
                  !.provided = provided,
                  !.pending = (@ \cup tree.imports[job.at]) \ provided]
    BY DEF Copy
  <2>4. job \in JobRecords
    BY <1>0 DEF VendorTypeOK, JobRecords
  <2>5. job' \in JobRecords
    <3>1. 0 \in 0 .. Queries /\ 0 \in 0 .. FetchAttempts
      BY Bounds
    <3>2. provided \subseteq Paths /\ (job.pending \cup tree.imports[job.at]) \ provided \subseteq Paths
      BY <1>0, <2>1, <2>4 DEF JobRecords
    <3> QED BY <2>3, <2>4, <3>1, <3>2 DEF JobRecords
  <2>6. /\ job'.pc = "walk" /\ job'.at = NoPath /\ job'.provided = provided
        /\ job'.pending = (job.pending \cup tree.imports[job.at]) \ provided
    BY <2>3, <2>4 DEF JobRecords
  <2> QED BY <1>0, <2>2, <2>5, <2>6 DEF VendorTypeOK, JobRecords
<1>2. vendor'[job.at] = "whole" /\ \A p \in Paths \ {job.at} : vendor'[p] = vendor[p]
  BY <1>0, <1>1
<1>3. Listed(vendor)' = Listed(vendor) \cup {job.at}
  BY <1>0, <1>2 DEF Listed
<1>4. Provided(vendor)' = job'.provided
  BY <1>0, <1>1, <1>3 DEF Provided
<1>5. Halves(vendor)' = {} => Halves(vendor) = {}
  <2>1. job.at \notin Listed(vendor)
    BY <1>0 DEF Provided
  <2> QED BY <1>2, <2>1 DEF Halves, Listed
<1>6. OfOurs' = OfOurs
  BY <1>0 DEF OfOurs
<1>7. Accounted \subseteq Accounted' /\ tree.imports[job.at] \subseteq Accounted'
  BY <1>1 DEF Accounted
<1>8. Halves(vendor) = {} =>
         OfOurs \subseteq Accounted /\ \A q \in Listed(vendor) : tree.imports[q] \subseteq Accounted
  BY <1>0 DEF VendorInv, Working
<1> QED BY <1>0, <1>1, <1>3, <1>4, <1>5, <1>6, <1>7, <1>8 DEF VendorInv, Working

LEMMA FinishVendorKeepsIt ==
    ASSUME VendorInv, FinishVendor
    PROVE  VendorInv'
<1>0. VendorTypeOK /\ job.pc = "walk" /\ job.pending = {} /\ tree' = tree /\ vendor' = vendor
  BY DEF VendorInv, FinishVendor
<1>1. /\ job'.pc = "done" /\ job'.at = job.at /\ job'.pending = job.pending
      /\ job'.provided = job.provided /\ VendorTypeOK'
  BY <1>0 DEF VendorTypeOK, FinishVendor
<1>2. /\ Halves(vendor)' = Halves(vendor) /\ Listed(vendor)' = Listed(vendor)
      /\ Provided(vendor)' = Provided(vendor) /\ OfOurs' = OfOurs /\ Accounted' = Accounted
  BY <1>0, <1>1 DEF Halves, Listed, Provided, OfOurs, Accounted
<1> QED BY <1>0, <1>1, <1>2 DEF VendorInv, Working

LEMMA VendorIsKept == VendorInv /\ [VendorNext]_vendorVars => VendorInv'
<1> SUFFICES ASSUME VendorInv, [VendorNext]_vendorVars PROVE VendorInv'
  OBVIOUS
<1>0. VendorTypeOK
  BY DEF VendorInv
<1>1. CASE Interrupt
  <2>1. vendor' \in [Paths -> Copies]
    <3>1. CASE UNCHANGED vendor
      BY <1>0, <3>1 DEF VendorTypeOK
    <3>2. ASSUME NEW c \in {"none", "unlisted", "half"},
                 vendor' = [vendor EXCEPT ![job.at] = c]
          PROVE  vendor' \in [Paths -> Copies]
      BY <1>0, <3>2 DEF VendorTypeOK, Copies
    <3> QED BY <1>1, <3>1, <3>2 DEF Interrupt
  <2>2. job' = Idle /\ tree' = tree
    BY <1>1 DEF Interrupt
  <2>3. VendorTypeOK' /\ job'.pc \notin Working
    BY <1>0, <2>1, <2>2, RestingJobs DEF VendorTypeOK, JobRecords, Idle, Working
  <2> QED BY <2>3, RestIsSound
<1>2. CASE Return
  <2>1. VendorTypeOK' /\ job'.pc \notin Working
    BY <1>0, <1>2, RestingJobs DEF Return, VendorTypeOK, JobRecords, Idle, Working
  <2> QED BY <2>1, RestIsSound
<1>3. CASE EditSources
  <2>1. VendorTypeOK' /\ job'.pc \notin Working
    BY <1>0, <1>3 DEF EditSources, VendorTypeOK, Working
  <2> QED BY <2>1, RestIsSound
<1>4. CASE UNCHANGED vendorVars
  <2>1. tree' = tree /\ vendor' = vendor /\ job' = job
    BY <1>4 DEF vendorVars
  <2>2. /\ VendorTypeOK' /\ Halves(vendor)' = Halves(vendor) /\ Listed(vendor)' = Listed(vendor)
        /\ Provided(vendor)' = Provided(vendor) /\ OfOurs' = OfOurs /\ Accounted' = Accounted
    BY <1>0, <2>1 DEF VendorTypeOK, Halves, Listed, Provided, OfOurs, Accounted
  <2> QED BY <2>1, <2>2 DEF VendorInv
<1> QED BY <1>1, <1>2, <1>3, <1>4, StartKeepsIt, TakeKeepsIt, QueryKeepsIt, CopyKeepsIt,
           FinishVendorKeepsIt DEF VendorNext

LEMMA KnownMeansResolved == VendorInv => SelfContained
<1> SUFFICES ASSUME VendorInv, job.pc = "done", Halves(vendor) = {}
             PROVE  /\ \A p \in OfOurs : Resolves(p)
                    /\ \A q \in Listed(vendor) : \A p \in tree.imports[q] : Resolves(p)
  BY DEF SelfContained
<1>1. tree \in Trees /\ Accounted = Provided(vendor) \cup {NoPath} /\ NoPath \notin Paths
  BY VendorAssumption DEF VendorInv, VendorTypeOK, Working, Accounted
<1>2. \A p \in Provided(vendor) : Resolves(p)
  BY DEF Provided, Listed, Halves, Resolves
<1>3. \A S \in SUBSET Paths : S \subseteq Accounted => \A p \in S : Resolves(p)
  BY <1>1, <1>2
<1>4. OfOurs \subseteq Paths /\ \A q \in Listed(vendor) : tree.imports[q] \subseteq Paths
  BY <1>1, TreesAreTyped DEF Listed
<1>5. OfOurs \subseteq Accounted /\ \A q \in Listed(vendor) : tree.imports[q] \subseteq Accounted
  BY DEF VendorInv, Working
<1> QED BY <1>3, <1>4, <1>5

\* Whatever was fetched, refused, interrupted or edited before, a vendor run that ends
\* well leaves every import resolved, unless a write was cut in two.
THEOREM VendorIsSelfContained == VendorSpec => []SelfContained
<1> QED BY VendorStarts, VendorIsKept, KnownMeansResolved, PTL DEF VendorSpec
-----------------------------------------------------------------------------
(* Pull requests: what lands was judged for what it is, whatever lands in between. *)

ModLines == [v : Versions \cup {Absent}, answered : BOOLEAN]

\* A pinned version is older than the one its directory declares.
Below(b, m) == b.dirs[m[1]].v \in Versions /\ m[2] < b.dirs[m[1]].v
TreeSound(b) ==
    /\ b.dirs \in [Dirs -> ModLines]
    /\ \A m \in DOMAIN b.pins : m \in Package /\ Below(b, m)

\* No directory goes, and none goes back to an older version.
GrowsTo(a, b) ==
    \A d \in Dirs : a.dirs[d].v # Absent =>
       b.dirs[d].v \in Versions /\ a.dirs[d].v <= b.dirs[d].v

\* The private question is answered, or mainnet has decided.
Settled(l, d) == l.v # Absent => l.answered \/ <<d, l.v>> \in deployed["mainnet"]

\* While it is edited or waits to be merged, a branch is what its main branch became.
Going(b) == b.pc \in {"open", "green"}
BranchSound(b) ==
    /\ b.pc \in {"none", "open", "green", "merged"}
    /\ b = [pc |-> b.pc, from |-> b.from, tree |-> b.tree, tip |-> b.tip, wrote |-> b.wrote,
            warned |-> b.warned, review |-> b.review, row |-> b.row, judged |-> b.judged]
    /\ b.tip \in Nat
    /\ Going(b) =>
          /\ b.tree = Tree(b.tree) /\ TreeSound(b.tree)
          /\ b.from.dirs \in [Dirs -> ModLines]
          /\ GrowsTo(b.from, b.tree) /\ GrowsTo(b.from, base)

\* What the checks found stays true until the branch changes.
ChecksHold(b) ==
    /\ \A d \in Dirs : Settled(b.judged[d], d)
    /\ ~ b.warned => \A m \in NewPins(b.from, b.tree) : b.tree.pins[m] \in base.commits
    /\ ~ b.review => \A d \in b.wrote : \E o \in b.row : o[1] = d /\ o \in deployed["mainnet"]

BranchOK(b) == BranchSound(b) /\ (b.pc = "green" => ChecksHold(b))

MergesInv ==
    /\ TreeSound(base)
    /\ deployed \in [Networks2 -> SUBSET Package]
    /\ \A d \in Dirs \ base.unread : Settled(base.dirs[d], d)
    /\ \A f \in frozen : f[2] \/ f[3]
    /\ DOMAIN catalog \subseteq Package
    /\ \A m \in DOMAIN catalog : /\ catalog[m].superseded => Below(base, m)
                                 /\ liveOnMainnet(m) => m \in deployed["mainnet"]
    /\ branch = [p \in PRs |-> branch[p]]
    /\ \A p \in PRs : BranchOK(branch[p])

\* A branch pins to commits of main or to its own; main pins to its own, or to those of a
\* branch that is gone: two sides that pin alike pin to a commit of main.
PinsKnown(p, b) ==
    /\ b.from.commits \subseteq base.commits
    /\ \A m \in NewPins(b.from, b.tree) :
          \/ b.tree.pins[m] \in base.commits
          \/ \E i \in 1 .. b.tip : b.tree.pins[m] = <<p, i>>
Lost(c) == \E p \in PRs, i \in Nat : c = <<p, i>> /\ branch[p].pc = "merged"
PinsStand ==
    /\ <<"main", 0>> \in base.commits
    /\ \A m \in DOMAIN base.pins : base.pins[m] \in base.commits \/ Lost(base.pins[m])
    /\ \A p \in PRs : Going(branch[p]) => PinsKnown(p, branch[p])

PullRequestInv == MergesInv /\ PinsStand

LEMMA VersionFacts ==
    /\ Versions \subseteq Nat /\ IsFiniteSet(Versions) /\ 0 \in Versions
    /\ Absent \notin Versions /\ "mainnet" \in Networks2
    /\ Deployed0 \subseteq Package /\ Standing0 \in [Dirs -> Versions \cup {Absent}]
BY PullRequestAssumption DEF Package

LEMMA VersionOrder ==
    \A u, v, w \in Versions : /\ u <= u /\ (u <= v /\ v <= w => u <= w)
                              /\ (u < v /\ v <= w => u < w) /\ (u <= v => ~ (v < u))
<1> SUFFICES ASSUME NEW u \in Nat, NEW v \in Nat, NEW w \in Nat
             PROVE  /\ u <= u /\ (u <= v /\ v <= w => u <= w)
                    /\ (u < v /\ v <= w => u < w) /\ (u <= v => ~ (v < u))
  BY VersionFacts
<1> QED OBVIOUS

LEMMA ByLineIs ==
    ASSUME NEW old, NEW mine, NEW theirs
    PROVE  /\ mine # old => ByLine(old, mine, theirs) = mine
           /\ mine = old => ByLine(old, mine, theirs) = theirs
BY DEF ByLine

LEMMA GrowsOn ==
    ASSUME NEW a, NEW b, NEW c, GrowsTo(a, b), GrowsTo(b, c),
           \A d \in Dirs : a.dirs[d].v \in Versions \cup {Absent}
    PROVE  GrowsTo(a, c)
<1> SUFFICES ASSUME NEW d \in Dirs, a.dirs[d].v # Absent
             PROVE  c.dirs[d].v \in Versions /\ a.dirs[d].v <= c.dirs[d].v
  BY DEF GrowsTo
<1>1. b.dirs[d].v \in Versions /\ a.dirs[d].v <= b.dirs[d].v
  BY DEF GrowsTo
<1>2. b.dirs[d].v # Absent
  BY <1>1, VersionFacts
<1>3. c.dirs[d].v \in Versions /\ b.dirs[d].v <= c.dirs[d].v
  BY <1>2 DEF GrowsTo
<1> QED BY <1>1, <1>3, VersionOrder

\* What a merge would give: no older than main or than the branch, and sound.
LEMMA MergeIsSound ==
    ASSUME MergesInv, NEW p \in PRs, InProgress(p), Mergeable(p)
    PROVE  /\ TreeSound(Merged(p)) /\ Merged(p) = Tree(Merged(p))
           /\ GrowsTo(base, Merged(p)) /\ Merged(p).dirs \in [Dirs -> ModLines]
<1> DEFINE t == branch[p].tree
           from == branch[p].from
           new == Merged(p)
           V(d) == ByLine(from.dirs[d].v, t.dirs[d].v, base.dirs[d].v)
           A(d) == ByLine(from.dirs[d].answered, t.dirs[d].answered, base.dirs[d].answered)
<1>1. /\ TreeSound(t) /\ TreeSound(base) /\ from.dirs \in [Dirs -> ModLines]
      /\ GrowsTo(from, t) /\ GrowsTo(from, base)
  BY DEF MergesInv, BranchOK, BranchSound, Going, InProgress
<1>2. /\ new.dirs = [d \in Dirs |-> [v |-> V(d), answered |-> A(d)]]
      /\ new = [dirs |-> new.dirs, pins |-> new.pins]
      /\ DOMAIN new.pins = DOMAIN base.pins \cup NewPins(from, t)
  BY DEF Merged
<1>3. \A d \in Dirs : from.dirs[d].v # Absent =>
         ~ Clash(from.dirs[d].v, t.dirs[d].v, base.dirs[d].v)
  BY DEF Mergeable
<1>4. \A d \in Dirs : from.dirs[d].v = Absent =>
         ~ Clash(from.dirs[d], t.dirs[d], base.dirs[d])
  BY DEF Mergeable
<1>5. \A m \in NewPins(from, t) : m \in DOMAIN t.pins
  BY DEF NewPins
<1> HIDE DEF t, from, new, V, A
<1>6. \A d \in Dirs : /\ t.dirs[d].v # from.dirs[d].v => V(d) = t.dirs[d].v
                      /\ t.dirs[d].v = from.dirs[d].v => V(d) = base.dirs[d].v
                      /\ A(d) \in {t.dirs[d].answered, base.dirs[d].answered}
  BY ByLineIs DEF V, A
<1>7. /\ \A d \in Dirs : /\ t.dirs[d].v \in Versions \cup {Absent}
                         /\ base.dirs[d].v \in Versions \cup {Absent}
                         /\ from.dirs[d].v \in Versions \cup {Absent}
                         /\ t.dirs[d].answered \in BOOLEAN
                         /\ base.dirs[d].answered \in BOOLEAN
  BY <1>1 DEF TreeSound, ModLines
<1>8. new.dirs \in [Dirs -> ModLines] /\ \A d \in Dirs : new.dirs[d].v = V(d)
  <2>1. \A d \in Dirs : [v |-> V(d), answered |-> A(d)] \in ModLines
    BY <1>6, <1>7 DEF ModLines
  <2> QED BY <1>2, <2>1
<1>9. GrowsTo(base, new)
  <2> SUFFICES ASSUME NEW d \in Dirs, base.dirs[d].v # Absent
               PROVE  V(d) \in Versions /\ base.dirs[d].v <= V(d)
    BY <1>8 DEF GrowsTo
  <2>1. base.dirs[d].v \in Versions /\ base.dirs[d].v <= base.dirs[d].v
    BY <1>7, VersionOrder
  <2>2. CASE t.dirs[d].v = from.dirs[d].v
    BY <1>6, <2>1, <2>2
  <2>3. CASE t.dirs[d].v # from.dirs[d].v /\ base.dirs[d].v # from.dirs[d].v
    <3>1. t.dirs[d].v = base.dirs[d].v
      BY <1>3, <1>4, <2>3 DEF Clash
    <3> QED BY <1>6, <2>1, <2>3, <3>1
  <2>4. CASE t.dirs[d].v # from.dirs[d].v /\ base.dirs[d].v = from.dirs[d].v
    <3>1. t.dirs[d].v \in Versions /\ from.dirs[d].v <= t.dirs[d].v
      BY <1>1, <2>4 DEF GrowsTo
    <3> QED BY <1>6, <2>4, <3>1
  <2> QED BY <2>2, <2>3, <2>4
<1>10. GrowsTo(t, new)
  <2> SUFFICES ASSUME NEW d \in Dirs, t.dirs[d].v # Absent
               PROVE  V(d) \in Versions /\ t.dirs[d].v <= V(d)
    BY <1>8 DEF GrowsTo
  <2>1. CASE t.dirs[d].v # from.dirs[d].v
    BY <1>6, <1>7, <2>1, VersionOrder
  <2>2. CASE t.dirs[d].v = from.dirs[d].v
    <3>1. base.dirs[d].v \in Versions /\ from.dirs[d].v <= base.dirs[d].v
      BY <1>1, <2>2 DEF GrowsTo
    <3> QED BY <1>6, <2>2, <3>1
  <2> QED BY <2>1, <2>2
<1>11. ASSUME NEW u, TreeSound(u), GrowsTo(u, new), NEW m \in DOMAIN u.pins
       PROVE  m \in Package /\ Below(new, m)
  <2>1. m \in Package /\ Below(u, m)
    BY <1>11 DEF TreeSound
  <2>2. m[1] \in Dirs /\ m[2] \in Versions /\ u.dirs[m[1]].v # Absent
    BY <2>1, VersionFacts DEF Package, Below
  <2>3. new.dirs[m[1]].v \in Versions /\ u.dirs[m[1]].v <= new.dirs[m[1]].v
    BY <1>11, <2>2 DEF GrowsTo
  <2> QED BY <2>1, <2>2, <2>3, VersionOrder DEF Below
<1>12. \A m \in DOMAIN new.pins : m \in Package /\ Below(new, m)
  BY <1>1, <1>2, <1>5, <1>9, <1>10, <1>11
<1>13. TreeSound(new) /\ new = Tree(new)
  BY <1>2, <1>8, <1>12 DEF TreeSound, Tree
<1> QED BY <1>8, <1>9, <1>13 DEF new

\* A branch whose checks start over is sound when its tree is.
LEMMA UncheckedRecord ==
    ASSUME NEW from, NEW t, NEW tip, NEW wrote
    PROVE  Unchecked(from, t, tip, wrote) =
              [pc |-> "open", from |-> from, tree |-> t, tip |-> tip, wrote |-> wrote,
               warned |-> FALSE, review |-> FALSE, row |-> {}, judged |-> <<>>]
<1>1. PICK at, x, y, row, j, f, e, n, w :
         /\ NoBranch = [pc |-> at, from |-> f, tree |-> e, tip |-> n, wrote |-> w,
                        warned |-> x, review |-> y, row |-> row, judged |-> j]
         /\ x = FALSE /\ y = FALSE /\ row = {} /\ j = <<>>
  BY DEF NoBranch
<1>2. Unchecked(from, t, tip, wrote) =
         [NoBranch EXCEPT !.pc = "open", !.from = from, !.tree = t, !.tip = tip,
                          !.wrote = wrote]
  BY DEF Unchecked
<1>3. Unchecked(from, t, tip, wrote) =
         [pc |-> "open", from |-> from, tree |-> t, tip |-> tip, wrote |-> wrote,
          warned |-> x, review |-> y, row |-> row, judged |-> j]
  BY <1>1, <1>2
<1> QED BY <1>1, <1>3

LEMMA UncheckedIsSound ==
    ASSUME NEW from, NEW t, NEW tip \in Nat, NEW wrote,
           t = Tree(t), TreeSound(t), from.dirs \in [Dirs -> ModLines],
           GrowsTo(from, t), GrowsTo(from, base)
    PROVE  BranchOK(Unchecked(from, t, tip, wrote))
<1> PICK c : c = Unchecked(from, t, tip, wrote)
  OBVIOUS
<1>1. c = [pc |-> "open", from |-> from, tree |-> t, tip |-> tip, wrote |-> wrote,
           warned |-> FALSE, review |-> FALSE, row |-> {}, judged |-> <<>>]
  BY UncheckedRecord
<1>2. BranchOK(c)
  BY <1>1 DEF BranchOK, BranchSound, Going
<1> QED BY <1>2

\* Nothing but a branch changes, and it is sound again.
LEMMA BranchStep ==
    ASSUME MergesInv, NEW p \in PRs, NEW c, SetBranch(p, c), BranchOK(c),
           UNCHANGED <<base, deployed, frozen, catalog>>
    PROVE  MergesInv'
<1>1. \A q \in PRs : branch'[q] = IF q = p THEN c ELSE branch[q]
  BY DEF MergesInv, SetBranch
<1>2. branch' = [q \in PRs |-> branch'[q]]
  BY DEF MergesInv, SetBranch
<1>3. ASSUME NEW q \in PRs PROVE BranchOK(branch[q])'
  <2>1. BranchOK(branch'[q])
    BY <1>1 DEF MergesInv
  <2> QED BY <2>1 DEF BranchOK, BranchSound, ChecksHold, Settled, TreeSound, GrowsTo, Below,
                      Going
<1> QED BY <1>2, <1>3 DEF MergesInv, TreeSound, Settled, Below, liveOnMainnet

\* An edit keeps what it starts from: the branch is sound again, and unchecked.
LEMMA EditIsSound ==
    ASSUME MergesInv, NEW p \in PRs, InProgress(p), NEW t, NEW wrote,
           t = Tree(t), TreeSound(t), GrowsTo(branch[p].tree, t),
           Edited(p, t, wrote)
    PROVE  MergesInv'
<1> DEFINE b == branch[p]
           c == Unchecked(b.from, t, b.tip + 1, b.wrote \cup wrote)
<1>1. SetBranch(p, c) /\ UNCHANGED <<base, deployed, frozen, catalog>>
  BY DEF Edited
<1>2. /\ b.from.dirs \in [Dirs -> ModLines] /\ b.tip + 1 \in Nat
      /\ GrowsTo(b.from, b.tree) /\ GrowsTo(b.from, base)
  BY DEF MergesInv, BranchOK, BranchSound, Going, InProgress
<1>3. \A d \in Dirs : b.from.dirs[d].v \in Versions \cup {Absent}
  BY <1>2 DEF ModLines
<1>4. GrowsTo(b.from, t)
  BY <1>2, <1>3, GrowsOn
<1> HIDE DEF b
<1>5. BranchOK(c)
  BY <1>2, <1>4, UncheckedIsSound
<1> QED BY <1>1, <1>5, BranchStep

LEMMA CheckedRecord ==
    ASSUME NEW b, NEW c, NEW x, NEW y, NEW r, NEW j,
           b = [pc |-> b.pc, from |-> b.from, tree |-> b.tree, tip |-> b.tip,
                wrote |-> b.wrote, warned |-> b.warned, review |-> b.review, row |-> b.row,
                judged |-> b.judged],
           c = [b EXCEPT !.pc = "green", !.warned = x, !.review = y, !.row = r, !.judged = j]
    PROVE  c = [pc |-> "green", from |-> b.from, tree |-> b.tree, tip |-> b.tip,
                wrote |-> b.wrote, warned |-> x, review |-> y, row |-> r, judged |-> j]
<1> PICK at, from, edit, tip, w, warned, review, row, judged :
      b = [pc |-> at, from |-> from, tree |-> edit, tip |-> tip, wrote |-> w,
           warned |-> warned, review |-> review, row |-> row, judged |-> judged]
  OBVIOUS
<1> QED OBVIOUS

LEMMA OpenKeepsIt == ASSUME MergesInv, NEW p \in PRs, OpenPull(p) PROVE MergesInv'
<1>1. TreeSound(base) /\ TreeSound(Tree(base)) /\ Tree(base) = Tree(Tree(base))
  <2>1. Tree(base) = Tree(Tree(base)) /\ Tree(base).dirs = base.dirs /\ Tree(base).pins = base.pins
    BY DEF Tree
  <2> QED BY <2>1 DEF MergesInv, TreeSound, Below
<1>2. GrowsTo(base, base) /\ GrowsTo(base, Tree(base))
  <2>1. \A d \in Dirs : base.dirs[d].v \in Versions \cup {Absent}
    BY <1>1 DEF TreeSound, ModLines
  <2> QED BY <2>1, VersionOrder DEF GrowsTo, Tree
<1>3. BranchOK(Unchecked(base, Tree(base), 0, {}))
  BY <1>1, <1>2, UncheckedIsSound DEF TreeSound
<1> QED BY <1>3, BranchStep DEF OpenPull

LEMMA TreeOf ==
    ASSUME MergesInv, NEW p \in PRs, InProgress(p)
    PROVE  /\ branch[p].tree = [dirs |-> branch[p].tree.dirs, pins |-> branch[p].tree.pins]
           /\ TreeSound(branch[p].tree) /\ branch[p].tree.dirs \in [Dirs -> ModLines]
           /\ GrowsTo(branch[p].tree, branch[p].tree)
<1>1. branch[p].tree = Tree(branch[p].tree) /\ TreeSound(branch[p].tree)
  BY DEF MergesInv, BranchOK, BranchSound, Going, InProgress
<1>2. \A d \in Dirs : branch[p].tree.dirs[d].v \in Versions \cup {Absent}
  BY <1>1 DEF TreeSound, ModLines
<1> QED BY <1>1, <1>2, VersionOrder DEF TreeSound, GrowsTo, Tree

LEMMA LineShapes ==
    ASSUME NEW l \in ModLines
    PROVE  /\ \A yes \in BOOLEAN : /\ [l EXCEPT !.answered = yes] \in ModLines
                                   /\ [l EXCEPT !.answered = yes].v = l.v
           /\ \A n \in Versions : /\ [l EXCEPT !.v = n] \in ModLines
                                  /\ [l EXCEPT !.v = n].v = n
BY DEF ModLines

LEMMA AnswerShape ==
    ASSUME NEW t, t = [dirs |-> t.dirs, pins |-> t.pins], NEW d, NEW x
    PROVE  [t EXCEPT !.dirs[d].answered = x] =
              [dirs |-> [t.dirs EXCEPT ![d] = [t.dirs[d] EXCEPT !.answered = x]],
               pins |-> t.pins]
<1> PICK dd, pp : t = [dirs |-> dd, pins |-> pp]
  OBVIOUS
<1> QED OBVIOUS

LEMMA LineShape ==
    ASSUME NEW t, t = [dirs |-> t.dirs, pins |-> t.pins], NEW d, NEW x
    PROVE  [t EXCEPT !.dirs[d] = x] = [dirs |-> [t.dirs EXCEPT ![d] = x], pins |-> t.pins]
<1> PICK dd, pp : t = [dirs |-> dd, pins |-> pp]
  OBVIOUS
<1> QED OBVIOUS

LEMMA PinsShape ==
    ASSUME NEW t, t = [dirs |-> t.dirs, pins |-> t.pins], NEW x
    PROVE  [t EXCEPT !.pins = x] = [dirs |-> t.dirs, pins |-> x]
<1> PICK dd, pp : t = [dirs |-> dd, pins |-> pp]
  OBVIOUS
<1> QED OBVIOUS

\* One line of one package changes; what its directory pins is still older.
LEMMA OneDirectory ==
    ASSUME NEW t, NEW d \in Dirs, NEW l \in ModLines, NEW u, NEW pins,
           TreeSound(t), u = [dirs |-> [t.dirs EXCEPT ![d] = l], pins |-> pins],
           t.dirs[d].v # Absent => l.v \in Versions /\ t.dirs[d].v <= l.v,
           \A m \in DOMAIN pins : \/ m \in DOMAIN t.pins
                                  \/ m \in Package /\ m[1] = d /\ l.v \in Versions /\ m[2] < l.v
    PROVE  u = Tree(u) /\ TreeSound(u) /\ GrowsTo(t, u)
<1>1. /\ u.dirs \in [Dirs -> ModLines] /\ u.pins = pins
      /\ \A e \in Dirs : u.dirs[e] = IF e = d THEN l ELSE t.dirs[e]
      /\ u = Tree(u)
  BY DEF TreeSound, Tree
<1>2. GrowsTo(t, u)
  <2>1. \A e \in Dirs : t.dirs[e].v \in Versions \cup {Absent}
    BY DEF TreeSound, ModLines
  <2> QED BY <1>1, <2>1, VersionOrder DEF GrowsTo
<1>3. ASSUME NEW m \in DOMAIN pins PROVE m \in Package /\ Below(u, m)
  <2>1. CASE m \in DOMAIN t.pins
    <3>1. m \in Package /\ Below(t, m)
      BY <2>1 DEF TreeSound
    <3>2. m[1] \in Dirs /\ m[2] \in Versions /\ t.dirs[m[1]].v # Absent
      BY <3>1, VersionFacts DEF Package, Below
    <3>3. u.dirs[m[1]].v \in Versions /\ t.dirs[m[1]].v <= u.dirs[m[1]].v
      BY <1>2, <3>2 DEF GrowsTo
    <3> QED BY <3>1, <3>2, <3>3, VersionOrder DEF Below
  <2>2. CASE m \notin DOMAIN t.pins
    BY <1>1, <1>3, <2>2 DEF Below
  <2> QED BY <2>1, <2>2
<1> QED BY <1>1, <1>2, <1>3 DEF TreeSound
LEMMA CodeKeepsIt ==
    ASSUME MergesInv, NEW p \in PRs, InProgress(p), NEW d \in Dirs, WriteCode(p, d)
    PROVE  MergesInv'
<1>1. Edited(p, branch[p].tree, {d})
  BY DEF WriteCode
<1>2. branch[p].tree = Tree(branch[p].tree)
  BY TreeOf DEF Tree
<1> QED BY <1>1, <1>2, TreeOf, EditIsSound

LEMMA AnswerKeepsIt ==
    ASSUME MergesInv, NEW p \in PRs, InProgress(p), NEW d \in Dirs,
           NEW yes \in BOOLEAN, AnswerPrivate(p, d, yes)
    PROVE  MergesInv'
<1> DEFINE t == branch[p].tree
           l == [t.dirs[d] EXCEPT !.answered = yes]
           u == [t EXCEPT !.dirs[d].answered = yes]
<1>0. TreeSound(t)
  BY TreeOf
<1>1. t.dirs[d] \in ModLines /\ t.dirs[d].v # Absent /\ Edited(p, u, {})
  BY TreeOf DEF AnswerPrivate
<1>2. l \in ModLines /\ l.v = t.dirs[d].v
  BY <1>1, LineShapes
<1>3. u = [dirs |-> [t.dirs EXCEPT ![d] = l], pins |-> t.pins]
  <2>1. t = [dirs |-> t.dirs, pins |-> t.pins]
    BY TreeOf
  <2> HIDE DEF t
  <2> QED BY ONLY <2>1, AnswerShape
<1> HIDE DEF u, l, t
<1>4. l.v \in Versions /\ t.dirs[d].v <= l.v
  BY <1>1, <1>2, VersionOrder DEF ModLines
<1>5. u = Tree(u) /\ TreeSound(u) /\ GrowsTo(t, u)
  BY <1>0, <1>2, <1>3, <1>4, OneDirectory
<1> QED BY <1>1, <1>5, EditIsSound DEF t

LEMMA CreateKeepsIt ==
    ASSUME MergesInv, NEW p \in PRs, InProgress(p), NEW d \in Dirs,
           NEW yes \in BOOLEAN, CreatePackage(p, d, yes)
    PROVE  MergesInv'
<1> DEFINE t == branch[p].tree
           l == [v |-> 0, answered |-> yes]
           u == [t EXCEPT !.dirs[d] = l]
<1>0. TreeSound(t)
  BY TreeOf
<1>1. t.dirs[d].v = Absent /\ Edited(p, u, {d})
  BY DEF CreatePackage
<1>2. l \in ModLines
  BY VersionFacts DEF ModLines
<1>3. u = [dirs |-> [t.dirs EXCEPT ![d] = l], pins |-> t.pins]
  <2>1. t = [dirs |-> t.dirs, pins |-> t.pins]
    BY TreeOf
  <2> HIDE DEF t, l
  <2> QED BY ONLY <2>1, LineShape
<1> HIDE DEF u, l, t
<1>4. u = Tree(u) /\ TreeSound(u) /\ GrowsTo(t, u)
  BY <1>0, <1>1, <1>2, <1>3, OneDirectory
<1> QED BY <1>1, <1>4, EditIsSound DEF t

LEMMA BumpKeepsIt ==
    ASSUME MergesInv, NEW p \in PRs, InProgress(p), NEW d \in Dirs,
           NEW commit, BumpTo(p, d, commit)
    PROVE  MergesInv'
<1> DEFINE t == branch[p].tree
           old == t.dirs[d].v
           l == [t.dirs[d] EXCEPT !.v = old + 1]
           pins == [m \in DOMAIN t.pins \cup {<<d, old>>} |->
                      IF m = <<d, old>> THEN commit ELSE t.pins[m]]
           u == [dirs |-> [t.dirs EXCEPT ![d].v = old + 1], pins |-> pins]
<1>0. TreeSound(t)
  BY TreeOf
<1>1. t.dirs[d] \in ModLines /\ old # Absent /\ old + 1 \in Versions /\ Edited(p, u, {})
  BY TreeOf DEF BumpTo
<1>2. l \in ModLines /\ l.v = old + 1 /\ old \in Versions /\ old <= old + 1 /\ old < old + 1
  <2>1. old \in Versions
    BY <1>1 DEF ModLines
  <2>2. \A n \in Nat : n <= n + 1 /\ n < n + 1
    OBVIOUS
  <2>3. old <= old + 1 /\ old < old + 1
    BY <2>1, <2>2, VersionFacts
  <2> QED BY <1>1, <2>1, <2>3, LineShapes
<1>3. u = [dirs |-> [t.dirs EXCEPT ![d] = l], pins |-> pins]
  OBVIOUS
<1>4. \A m \in DOMAIN pins : \/ m \in DOMAIN t.pins
                             \/ m = <<d, old>> /\ m \in Package /\ m[1] = d /\ m[2] = old
  BY <1>2 DEF Package
<1> HIDE DEF u, l, pins, old
<1>5. \A m \in DOMAIN pins : \/ m \in DOMAIN t.pins
                             \/ m \in Package /\ m[1] = d /\ l.v \in Versions /\ m[2] < l.v
  BY <1>1, <1>2, <1>4
<1>6. t.dirs[d].v # Absent => l.v \in Versions /\ t.dirs[d].v <= l.v
  BY <1>1, <1>2 DEF old
<1> HIDE DEF t
<1>7. u = Tree(u) /\ TreeSound(u) /\ GrowsTo(t, u)
  BY <1>0, <1>2, <1>3, <1>5, <1>6, OneDirectory
<1> QED BY <1>1, <1>7, EditIsSound DEF t

LEMMA ResyncKeepsIt ==
    ASSUME MergesInv, NEW p \in PRs, InProgress(p), Resync(p)
    PROVE  MergesInv'
<1> DEFINE t == branch[p].tree
           pins == [m \in DOMAIN t.pins |->
                      IF t.pins[m] \in Commits(p) THEN <<"main", 0>> ELSE t.pins[m]]
           u == [t EXCEPT !.pins = [m \in DOMAIN @ |->
                      IF @[m] \in Commits(p) THEN <<"main", 0>> ELSE @[m]]]
<1>1. Edited(p, u, {})
  BY DEF Resync
<1>2. u = [dirs |-> t.dirs, pins |-> pins] /\ DOMAIN pins = DOMAIN t.pins
  BY TreeOf, PinsShape
<1> HIDE DEF u, pins
<1>3. u = Tree(u) /\ TreeSound(u) /\ GrowsTo(t, u)
  BY <1>2, TreeOf DEF Tree, TreeSound, Below, GrowsTo
<1> QED BY <1>1, <1>3, EditIsSound
LEMMA UpdateKeepsIt ==
    ASSUME MergesInv, NEW p \in PRs, InProgress(p), UpdateBranch(p)
    PROVE  MergesInv'
<1>1. /\ TreeSound(Merged(p)) /\ Merged(p) = Tree(Merged(p)) /\ GrowsTo(base, Merged(p))
  BY MergeIsSound DEF UpdateBranch
<1>2. base.dirs \in [Dirs -> ModLines] /\ GrowsTo(base, base)
  <2>1. base.dirs \in [Dirs -> ModLines]
    BY DEF MergesInv, TreeSound
  <2>2. \A d \in Dirs : base.dirs[d].v \in Versions \cup {Absent}
    BY <2>1 DEF ModLines
  <2> QED BY <2>1, <2>2, VersionOrder DEF GrowsTo
<1>3. branch[p].tip \in Nat
  BY DEF MergesInv, BranchOK, BranchSound
<1>4. BranchOK(Unchecked(base, Merged(p), branch[p].tip, branch[p].wrote))
  BY <1>1, <1>2, <1>3, UncheckedIsSound
<1> QED BY <1>4, BranchStep DEF UpdateBranch

\* The last row of a directory is one of its rows.
LEMMA LastRow ==
    ASSUME MergesInv, NEW d, Rows(d) # {}
    PROVE  byDir(d) \in Rows(d)
<1> DEFINE Top(T) == \E n \in T : \A o \in T : PathOrder[o] <= PathOrder[n]
           Good == {T \in SUBSET Versions : T # {} => Top(T)}
           S == {m[2] : m \in Rows(d)}
<1>1. \A n \in Versions : PathOrder[n] \in Nat
  BY PullRequestAssumption
<1>2. \A T \in SUBSET Versions : T \in Good
  <2>1. {} \in Good
    OBVIOUS
  <2>2. ASSUME NEW T \in SUBSET Versions, T # {}, \A x \in T : T \ {x} \in Good
        PROVE  T \in Good
    <3>1. PICK x \in T : TRUE
      BY <2>2
    <3>2. CASE T \ {x} = {}
      <4>1. \A o \in T : o = x
        BY <3>2
      <4>2. PathOrder[x] <= PathOrder[x]
        BY <1>1, <3>1
      <4> QED BY <3>1, <4>1, <4>2
    <3>3. CASE T \ {x} # {}
      <4>1. PICK n \in T \ {x} : \A o \in T \ {x} : PathOrder[o] <= PathOrder[n]
        BY <2>2, <3>3
      <4>2. x \in Versions /\ n \in T /\ PathOrder[x] \in Nat
            /\ \A o \in T : PathOrder[o] \in Nat
        BY <1>1, <3>1, <4>1
      <4>3. CASE PathOrder[x] <= PathOrder[n]
        BY <4>1, <4>2, <4>3
      <4>4. CASE ~ (PathOrder[x] <= PathOrder[n])
        <5>1. \A o \in T : PathOrder[o] <= PathOrder[x]
          BY <4>1, <4>2, <4>4
        <5> QED BY <3>1, <5>1
      <4> QED BY <4>3, <4>4
    <3> QED BY <3>2, <3>3
  <2> HIDE DEF Good
  <2> QED BY <2>1, <2>2, VersionFacts, SubsetInduction
<1>3. \A m \in Rows(d) : m[2] \in Versions
  BY DEF Rows, Package, MergesInv
<1>4. S \in SUBSET Versions /\ S # {}
  BY <1>3
<1>5. Top(S)
  BY <1>2, <1>4
<1>6. PICK m \in Rows(d) : \A o \in Rows(d) : PathOrder[o[2]] <= PathOrder[m[2]]
  BY <1>5
<1> QED BY <1>6 DEF byDir
\* A check that passes has judged what would land.
LEMMA GuardSettles ==
    ASSUME MergesInv, NEW p \in PRs, InProgress(p), Mergeable(p), guardPrivate(Merged(p))
    PROVE  \A d \in Dirs : Settled(Merged(p).dirs[d], d)
<1> DEFINE new == Merged(p)
<1> SUFFICES ASSUME NEW d \in Dirs, new.dirs[d].v # Absent, ~ new.dirs[d].answered
             PROVE  <<d, new.dirs[d].v>> \in deployed["mainnet"]
  BY DEF Settled
<1>1. new.dirs \in [Dirs -> ModLines] /\ GrowsTo(base, new)
  BY MergeIsSound
<1> DEFINE m == <<d, new.dirs[d].v>>
<1>2. decided(m)
  BY DEF guardPrivate
<1> HIDE DEF new
<1>3. m[1] = d /\ m[2] = new.dirs[d].v /\ m[2] \in Versions
  BY <1>1 DEF ModLines
<1> HIDE DEF m
<1>4. CASE catalog[m].superseded
  <2>1. base.dirs[d].v \in Versions /\ m[2] < base.dirs[d].v
    BY <1>2, <1>3, <1>4 DEF MergesInv, decided, Below
  <2>2. base.dirs[d].v <= new.dirs[d].v
    BY <1>1, <2>1, VersionFacts DEF GrowsTo
  <2> QED BY <1>3, <2>1, <2>2, VersionOrder
<1>5. CASE liveOnMainnet(m)
  BY <1>2, <1>5 DEF MergesInv, decided, m
<1> QED BY <1>2, <1>4, <1>5 DEF decided

\* Two sides that pin alike pin to a commit of main.
LEMMA AlikeIsKnown ==
    ASSUME PinsStand, NEW p \in PRs, Going(branch[p]),
           NEW m \in NewPins(branch[p].from, branch[p].tree), m \in DOMAIN base.pins,
           branch[p].tree.pins[m] = base.pins[m]
    PROVE  base.pins[m] \in base.commits
<1> SUFFICES ASSUME base.pins[m] \notin base.commits PROVE FALSE
  OBVIOUS
<1>1. PICK i \in 1 .. branch[p].tip : base.pins[m] = <<p, i>>
  BY DEF PinsStand, PinsKnown
<1>2. PICK q \in PRs, j \in Nat : base.pins[m] = <<q, j>> /\ branch[q].pc = "merged"
  BY DEF PinsStand, Lost
<1>3. p = q
  BY <1>1, <1>2
<1> QED BY <1>2, <1>3 DEF Going

LEMMA ChecksKeepIt ==
    ASSUME MergesInv, PinsStand, NEW p \in PRs, RunChecks(p)
    PROVE  MergesInv'
<1> DEFINE b == branch[p]
           row == {byDir(d) : d \in {d \in b.wrote : Rows(d) # {}}}
           seen == Merged(p).dirs
           c == [b EXCEPT !.pc = "green", !.warned = unsafe(p) # {},
                          !.review = Permanent(p) # {}, !.row = row, !.judged = seen]
<1>1. /\ SetBranch(p, c) /\ UNCHANGED <<base, deployed, frozen, catalog>>
      /\ b.pc = "open" /\ Mergeable(p) /\ guardPrivate(Merged(p))
  BY DEF RunChecks
<1>2. InProgress(p) /\ Going(b)
  BY <1>1 DEF InProgress, Going
<1>3. /\ b = [pc |-> b.pc, from |-> b.from, tree |-> b.tree, tip |-> b.tip, wrote |-> b.wrote,
              warned |-> b.warned, review |-> b.review, row |-> b.row, judged |-> b.judged]
      /\ b.tree = Tree(b.tree) /\ TreeSound(b.tree) /\ b.tip \in Nat
      /\ b.from.dirs \in [Dirs -> ModLines]
      /\ GrowsTo(b.from, b.tree) /\ GrowsTo(b.from, base)
  BY <1>1 DEF MergesInv, BranchOK, BranchSound, Going
<1>4. \A d \in Dirs : Settled(seen[d], d)
  BY <1>1, <1>2, GuardSettles
<1>5. unsafe(p) = {} => \A m \in NewPins(b.from, b.tree) : b.tree.pins[m] \in base.commits
  <2> SUFFICES ASSUME unsafe(p) = {}, NEW m \in NewPins(b.from, b.tree)
               PROVE  b.tree.pins[m] \in base.commits
    OBVIOUS
  <2>1. Merged(p).pins[m] = b.tree.pins[m] /\ m \in DOMAIN Merged(p).pins
    BY DEF Merged
  <2>2. CASE m \in DOMAIN base.pins /\ b.tree.pins[m] = base.pins[m]
    BY <1>2, <2>2, AlikeIsKnown
  <2>3. CASE m \notin DOMAIN base.pins \/ b.tree.pins[m] # base.pins[m]
    <3>1. m \in NewPins(base, Merged(p))
      <4> HIDE DEF b
      <4> QED BY <2>1, <2>3 DEF NewPins
    <3> QED BY <2>1, <3>1 DEF unsafe, isAncestor
  <2> QED BY <2>2, <2>3
<1>6. Permanent(p) = {} =>
        \A d \in b.wrote : \E o \in row : o[1] = d /\ o \in deployed["mainnet"]
  <2> SUFFICES ASSUME Permanent(p) = {}, NEW d \in b.wrote
               PROVE  \E o \in row : o[1] = d /\ o \in deployed["mainnet"]
    OBVIOUS
  <2>1. Rows(d) # {} /\ liveOnMainnet(byDir(d))
    BY DEF Permanent
  <2>2. byDir(d) \in Rows(d)
    BY <2>1, LastRow
  <2>3. byDir(d) \in DOMAIN catalog /\ byDir(d)[1] = d
    BY <2>2 DEF Rows
  <2>4. byDir(d) \in deployed["mainnet"]
    BY <2>1, <2>3 DEF MergesInv
  <2> QED BY <2>1, <2>3, <2>4
<1>7. c = [b EXCEPT !.pc = "green", !.warned = unsafe(p) # {},
                    !.review = Permanent(p) # {}, !.row = row, !.judged = seen]
  OBVIOUS
<1> HIDE DEF b, c, row, seen
<1>8. c = [pc |-> "green", from |-> b.from, tree |-> b.tree, tip |-> b.tip, wrote |-> b.wrote,
           warned |-> unsafe(p) # {}, review |-> Permanent(p) # {}, row |-> row,
           judged |-> seen]
  BY <1>3, <1>7, CheckedRecord
<1>9. /\ c = [pc |-> c.pc, from |-> c.from, tree |-> c.tree, tip |-> c.tip, wrote |-> c.wrote,
              warned |-> c.warned, review |-> c.review, row |-> c.row, judged |-> c.judged]
      /\ c.pc = "green" /\ c.tree = b.tree /\ c.from = b.from /\ c.wrote = b.wrote
      /\ (c.warned <=> unsafe(p) # {}) /\ (c.review <=> Permanent(p) # {}) /\ c.row = row
      /\ c.judged = seen /\ c.tip = b.tip
  BY <1>8
<1>10. BranchSound(c)
  BY <1>3, <1>9 DEF BranchSound, Going
<1>11. ChecksHold(c)
  BY <1>4, <1>5, <1>6, <1>9 DEF ChecksHold
<1> QED BY <1>1, <1>10, <1>11, BranchStep DEF BranchOK

\* The main branch after a merge.
LEMMA MergeLands ==
    ASSUME MergesInv, NEW p \in PRs, Squash(p)
    PROVE  /\ base'.dirs = Merged(p).dirs /\ base'.pins = Merged(p).pins
           /\ base.commits \subseteq base'.commits
           /\ TreeSound(base') /\ GrowsTo(base, base')
           /\ \A q \in PRs : branch'[q] = IF q = p THEN [NoBranch EXCEPT !.pc = "merged"]
                                          ELSE branch[q]
           /\ branch' = [q \in PRs |-> branch'[q]]
<1>1. /\ base'.dirs = Merged(p).dirs /\ base'.pins = Merged(p).pins
      /\ base.commits \subseteq base'.commits
  BY DEF Squash
<1>2. TreeSound(Merged(p)) /\ GrowsTo(base, Merged(p))
  BY MergeIsSound DEF Squash, InProgress
<1>3. TreeSound(base') /\ GrowsTo(base, base')
  BY <1>1, <1>2 DEF TreeSound, GrowsTo, Below
<1>4. branch = [q \in PRs |-> branch[q]]
      /\ branch' = [branch EXCEPT ![p] = [NoBranch EXCEPT !.pc = "merged"]]
  BY DEF MergesInv, Squash, SetBranch
<1> QED BY <1>1, <1>3, <1>4

LEMMA SquashKeepsIt ==
    ASSUME MergesInv, NEW p \in PRs, Squash(p)
    PROVE  MergesInv'
<1>1. /\ branch[p].pc = "green" /\ InProgress(p) /\ Mergeable(p)
      /\ UNCHANGED <<deployed, frozen, catalog>> /\ base'.unread = StillUnread(p)
  BY DEF Squash, InProgress
<1>2. \A d \in Dirs \ base'.unread : Settled(base'.dirs[d], d)
  <2> SUFFICES ASSUME NEW d \in Dirs, d \notin StillUnread(p)
               PROVE  Settled(Merged(p).dirs[d], d)
    BY <1>1, MergeLands
  <2>1. CASE Merged(p).dirs[d] = branch[p].judged[d]
    BY <1>1, <2>1 DEF MergesInv, BranchOK, ChecksHold
  <2>2. CASE d \notin base.unread /\ Merged(p).dirs[d] = base.dirs[d]
    BY <2>2 DEF MergesInv
  <2> QED BY <2>1, <2>2 DEF StillUnread
<1>3. \A m \in DOMAIN catalog : Below(base, m) => Below(base', m)
  <2> SUFFICES ASSUME NEW m \in DOMAIN catalog, Below(base, m) PROVE Below(base', m)
    OBVIOUS
  <2>1. m[1] \in Dirs /\ m[2] \in Versions
    BY DEF MergesInv, Package
  <2>2. base.dirs[m[1]].v \in Versions /\ m[2] < base.dirs[m[1]].v
    BY DEF Below
  <2>3. base'.dirs[m[1]].v \in Versions /\ base.dirs[m[1]].v <= base'.dirs[m[1]].v
    BY <2>1, <2>2, MergeLands, VersionFacts DEF GrowsTo
  <2> QED BY <2>1, <2>2, <2>3, VersionOrder DEF Below
<1>4. ASSUME NEW q \in PRs PROVE BranchOK(branch[q])'
  <2>1. CASE q = p
    <3>1. branch'[q] = [NoBranch EXCEPT !.pc = "merged"]
      BY <2>1, MergeLands
    <3>2. branch'[q] = [pc |-> "merged", from |-> <<>>, tree |-> <<>>, tip |-> 0, wrote |-> {},
                        warned |-> FALSE, review |-> FALSE, row |-> {}, judged |-> <<>>]
      BY <3>1 DEF NoBranch
    <3> QED BY <3>2 DEF BranchOK, BranchSound, Going
  <2>2. CASE q # p
    <3>1. branch'[q] = branch[q] /\ BranchOK(branch[q])
      BY <2>2, MergeLands DEF MergesInv
    <3>2. Going(branch[q]) => GrowsTo(branch[q].from, base')
      <4> SUFFICES ASSUME Going(branch[q]) PROVE GrowsTo(branch[q].from, base')
        OBVIOUS
      <4>1. GrowsTo(branch[q].from, base) /\ branch[q].from.dirs \in [Dirs -> ModLines]
        BY <3>1 DEF BranchOK, BranchSound
      <4>2. \A d \in Dirs : branch[q].from.dirs[d].v \in Versions \cup {Absent}
        BY <4>1 DEF ModLines
      <4> QED BY <4>1, <4>2, GrowsOn, MergeLands
    <3>3. BranchSound(branch[q])'
      BY <3>1, <3>2 DEF BranchOK, BranchSound, Going, TreeSound, GrowsTo, Below
    <3>4. branch[q].pc = "green" => ChecksHold(branch[q])'
      BY <1>1, <3>1, MergeLands DEF BranchOK, ChecksHold, Settled
    <3> QED BY <3>1, <3>3, <3>4 DEF BranchOK
  <2> QED BY <2>1, <2>2
<1>5. (\A d \in Dirs \ base.unread : Settled(base.dirs[d], d))'
  BY <1>1, <1>2 DEF Settled
<1> QED BY <1>1, <1>3, <1>4, <1>5, MergeLands
        DEF MergesInv, TreeSound, Below, liveOnMainnet

LEMMA PublishKeepsIt ==
    ASSUME MergesInv, NEW n \in Networks2, NEW d \in Dirs, PublishPackage(n, d)
    PROVE  MergesInv'
<1> DEFINE m == <<d, base.dirs[d].v>>
<1>1. /\ base.dirs[d].v # Absent /\ m \notin deployed[n]
      /\ deployed' = [deployed EXCEPT ![n] = @ \cup {m}]
      /\ frozen' = IF n = "mainnet"
                   THEN frozen \cup {<<m, base.dirs[d].answered, d \in base.unread>>}
                   ELSE frozen
      /\ UNCHANGED <<base, branch, catalog>>
  BY DEF PublishPackage
<1>2. m \in Package
  BY <1>1 DEF MergesInv, TreeSound, ModLines, Package
<1>3. /\ deployed' \in [Networks2 -> SUBSET Package]
      /\ deployed["mainnet"] \subseteq deployed'["mainnet"]
  BY <1>1, <1>2, VersionFacts DEF MergesInv
<1>4. \A f \in frozen' : f[2] \/ f[3]
  <2>1. n = "mainnet" => base.dirs[d].answered \/ d \in base.unread
    BY <1>1 DEF MergesInv, Settled
  <2>2. ASSUME n = "mainnet", NEW f \in frozen', f \notin frozen PROVE f[2] \/ f[3]
    <3>1. f = <<m, base.dirs[d].answered, d \in base.unread>>
      BY <1>1, <2>2
    <3>2. f[2] = base.dirs[d].answered /\ f[3] = (d \in base.unread)
      BY <3>1
    <3> QED BY <2>1, <2>2, <3>2
  <2> QED BY <1>1, <2>2 DEF MergesInv
<1> HIDE DEF m
<1>5. (\A e \in Dirs \ base.unread : Settled(base.dirs[e], e))'
  BY <1>1, <1>3 DEF MergesInv, Settled
<1>6. \A p \in PRs : BranchOK(branch[p])'
  <2> SUFFICES ASSUME NEW p \in PRs PROVE BranchOK(branch[p])'
    OBVIOUS
  <2>1. BranchOK(branch[p]) /\ branch'[p] = branch[p]
    BY <1>1 DEF MergesInv
  <2>2. BranchSound(branch[p])'
    BY <1>1, <2>1 DEF BranchOK, BranchSound, Going, TreeSound, GrowsTo, Below
  <2>3. branch[p].pc = "green" => ChecksHold(branch[p])'
    BY <1>1, <1>3, <2>1 DEF BranchOK, ChecksHold, Settled
  <2> QED BY <2>1, <2>2, <2>3 DEF BranchOK
<1> QED BY <1>1, <1>3, <1>4, <1>5, <1>6 DEF MergesInv, TreeSound, Below, liveOnMainnet

LEMMA CatalogIsRight ==
    ASSUME TreeSound(base)
    PROVE  /\ DOMAIN CatalogOf(base) \subseteq Package
           /\ \A m \in DOMAIN CatalogOf(base) :
                 /\ CatalogOf(base)[m].superseded => Below(base, m)
                 /\ "mainnet" \in CatalogOf(base)[m].uploaded => m \in deployed["mainnet"]
<1> DEFINE inTree == {<<d, base.dirs[d].v>> : d \in {d \in Dirs : base.dirs[d].v # Absent}}
<1>1. inTree \subseteq Package
  BY DEF TreeSound, ModLines, Package
<1>2. /\ DOMAIN CatalogOf(base) = inTree \cup DOMAIN base.pins
      /\ \A m \in DOMAIN CatalogOf(base) :
            /\ CatalogOf(base)[m].superseded = (m \notin inTree)
            /\ CatalogOf(base)[m].uploaded = {n \in Networks2 : m \in deployed[n]}
  BY DEF CatalogOf
<1> HIDE DEF inTree
<1> QED BY <1>1, <1>2 DEF TreeSound

\* What is asked of a branch depends on main and on mainnet only.
LEMMA BranchesStand ==
  ASSUME NEW b, UNCHANGED <<base, deployed>>, BranchOK(b)
  PROVE  BranchOK(b)'
<1>1. /\ BranchSound(b)'
  BY DEF BranchOK, BranchSound, Going
<1>2. ASSUME b.pc = "green" PROVE ChecksHold(b)'
  <2>1. \A d \in Dirs : Settled(b.judged[d], d)' <=> Settled(b.judged[d], d)
    BY DEF Settled
  <2>2. ChecksHold(b)
    BY <1>2 DEF BranchOK
  <2>3. (\A d \in Dirs : Settled(b.judged[d], d))'
    BY <2>1, <2>2 DEF ChecksHold
  <2>4. (~ b.warned => \A m \in NewPins(b.from, b.tree) : b.tree.pins[m] \in base.commits)'
    BY <2>2 DEF ChecksHold
  <2>5. (~ b.review =>
            \A d \in b.wrote : \E o \in b.row : o[1] = d /\ o \in deployed["mainnet"])'
    BY <2>2 DEF ChecksHold
  <2> QED BY <2>3, <2>4, <2>5 DEF ChecksHold
<1> QED BY <1>1, <1>2 DEF BranchOK

LEMMA RegenerateKeepsIt == MergesInv /\ Regenerate => MergesInv'
<1> SUFFICES ASSUME MergesInv, Regenerate PROVE MergesInv'
  OBVIOUS
<1>1. catalog' = CatalogOf(base) /\ UNCHANGED <<base, branch, deployed, frozen>>
  BY DEF Regenerate
<1>2. /\ DOMAIN catalog' \subseteq Package
      /\ \A m \in DOMAIN catalog' : /\ catalog'[m].superseded => Below(base, m)
                                    /\ "mainnet" \in catalog'[m].uploaded
                                         => m \in deployed["mainnet"]
  BY <1>1, CatalogIsRight DEF MergesInv
<1>3. ASSUME NEW p \in PRs PROVE BranchOK(branch[p])'
  <2> PICK b : b = branch[p]
    OBVIOUS
  <2>1. BranchOK(b)'
    BY <1>1, BranchesStand DEF MergesInv
  <2> QED BY <1>1, <2>1 DEF BranchOK, BranchSound, ChecksHold
<1> QED BY <1>1, <1>2, <1>3
        DEF MergesInv, TreeSound, Below, liveOnMainnet, Settled

LEMMA MergesStart == PullRequestInit => MergesInv
<1> SUFFICES ASSUME PullRequestInit PROVE MergesInv
  OBVIOUS
<1>1. /\ base.dirs = [d \in Dirs |-> Fresh(Standing0[d])] /\ base.pins = NoPins
      /\ deployed = [n \in Networks2 |-> IF n = "mainnet" THEN Deployed0 ELSE {}]
      /\ frozen = {} /\ catalog = CatalogOf(base)
      /\ branch = [p \in PRs |-> NoBranch]
  BY DEF PullRequestInit
<1>2. TreeSound(base)
  BY <1>1, VersionFacts DEF TreeSound, ModLines, Fresh, NoPins
<1>3. \A d \in Dirs : Settled(base.dirs[d], d)
  <2> SUFFICES ASSUME NEW d \in Dirs, base.dirs[d].v # Absent PROVE base.dirs[d].answered
    BY DEF Settled
  <2>1. base.dirs[d] = Fresh(Standing0[d])
    BY <1>1
  <2>2. CASE Standing0[d] = Absent
    <3>1. base.dirs[d] = [v |-> Absent, answered |-> FALSE]
      BY <2>1, <2>2 DEF Fresh
    <3> QED BY <3>1
  <2>3. CASE Standing0[d] # Absent
    <3>1. base.dirs[d] = [v |-> Standing0[d], answered |-> TRUE]
      BY <2>1, <2>3 DEF Fresh
    <3> QED BY <3>1
  <2> QED BY <2>2, <2>3
<1>4. BranchOK(NoBranch)
  BY DEF BranchOK, BranchSound, Going, NoBranch
<1>5. deployed \in [Networks2 -> SUBSET Package]
  BY <1>1, VersionFacts
<1> QED BY <1>1, <1>2, <1>3, <1>4, <1>5, CatalogIsRight DEF MergesInv, liveOnMainnet

LEMMA MergesAreKept ==
    ASSUME MergesInv, PinsStand, [PullRequestNext]_prVars
    PROVE  MergesInv'
<1>1. CASE UNCHANGED prVars
  <2>1. UNCHANGED <<base, branch, deployed, frozen, catalog>>
    BY <1>1 DEF prVars
  <2>2. ASSUME NEW p \in PRs PROVE BranchOK(branch[p])'
    <3> PICK b : b = branch[p]
      OBVIOUS
    <3>1. BranchOK(b)'
      BY <2>1, BranchesStand DEF MergesInv
    <3> QED BY <2>1, <3>1 DEF BranchOK, BranchSound, ChecksHold
  <2>3. (\A d \in Dirs \ base.unread : Settled(base.dirs[d], d))'
    BY <2>1 DEF MergesInv, Settled
  <2>4. (\A m \in DOMAIN catalog : /\ catalog[m].superseded => Below(base, m)
                                   /\ liveOnMainnet(m) => m \in deployed["mainnet"])'
    BY <2>1 DEF MergesInv, Below, liveOnMainnet
  <2>5. TreeSound(base)'
    BY <2>1 DEF MergesInv
  <2> QED BY <2>1, <2>2, <2>3, <2>4, <2>5 DEF MergesInv
<1>2. CASE Regenerate
  BY <1>2, RegenerateKeepsIt
<1>3. ASSUME NEW p \in PRs, OpenPull(p) \/ RunChecks(p) \/ Squash(p) PROVE MergesInv'
  BY <1>3, OpenKeepsIt, ChecksKeepIt, SquashKeepsIt
<1>4. ASSUME NEW p \in PRs, InProgress(p), Resync(p) \/ UpdateBranch(p) PROVE MergesInv'
  BY <1>4, ResyncKeepsIt, UpdateKeepsIt
<1>5. ASSUME NEW p \in PRs, InProgress(p), NEW d \in Dirs, WriteCode(p, d)
      PROVE  MergesInv'
  BY <1>5, CodeKeepsIt
<1>6. ASSUME NEW p \in PRs, InProgress(p), NEW d \in Dirs, NEW yes \in BOOLEAN,
             AnswerPrivate(p, d, yes) \/ CreatePackage(p, d, yes)
      PROVE  MergesInv'
  BY <1>6, AnswerKeepsIt, CreateKeepsIt
<1>7. ASSUME NEW p \in PRs, InProgress(p), NEW d \in Dirs, NEW commit, BumpTo(p, d, commit)
      PROVE  MergesInv'
  BY <1>7, BumpKeepsIt
<1>8. ASSUME NEW n \in Networks2, NEW d \in Dirs, PublishPackage(n, d) PROVE MergesInv'
  BY <1>8, PublishKeepsIt
<1> QED BY <1>1, <1>2, <1>3, <1>4, <1>5, <1>6, <1>7, <1>8 DEF PullRequestNext

LEMMA RequestsStart == PullRequestInit => PullRequestInv
<1> SUFFICES ASSUME PullRequestInit PROVE PinsStand
  BY MergesStart DEF PullRequestInv
<1>1. base.pins = NoPins /\ base.commits = {<<"main", 0>>} /\ branch = [p \in PRs |-> NoBranch]
  BY DEF PullRequestInit
<1>2. DOMAIN NoPins = {} /\ ~ Going(NoBranch)
  BY DEF NoPins, NoBranch, Going
<1> QED BY <1>1, <1>2 DEF PinsStand

\* A branch changes, and main does not.
LEMMA PinStep ==
    ASSUME MergesInv, PinsStand, NEW p \in PRs, NEW c, SetBranch(p, c),
           UNCHANGED <<base, deployed, frozen, catalog>>,
           branch[p].pc # "merged", PinsKnown(p, c)
    PROVE  PinsStand'
<1>1. \A q \in PRs : branch'[q] = IF q = p THEN c ELSE branch[q]
  BY DEF MergesInv, SetBranch
<1>2. \A x : Lost(x) => Lost(x)'
  BY <1>1 DEF Lost
<1>3. \A q \in PRs : Going(branch'[q]) => PinsKnown(q, branch'[q])
  BY <1>1 DEF PinsStand
<1>4. \A q \in PRs : (Going(branch[q]) => PinsKnown(q, branch[q]))'
  BY <1>3 DEF PinsKnown, Going
<1> QED BY <1>2, <1>4 DEF PinsStand

LEMMA EditPins ==
    ASSUME MergesInv, PinsStand, NEW p \in PRs, InProgress(p), NEW t, NEW wrote,
           Edited(p, t, wrote),
           \A m \in NewPins(branch[p].from, t) :
              \/ m \in NewPins(branch[p].from, branch[p].tree)
                 /\ t.pins[m] = branch[p].tree.pins[m]
              \/ t.pins[m] \in base.commits \cup Commits(p)
    PROVE  PinsStand'
<1> DEFINE b == branch[p]
           c == Unchecked(b.from, t, b.tip + 1, b.wrote \cup wrote)
<1>1. /\ SetBranch(p, c) /\ UNCHANGED <<base, deployed, frozen, catalog>>
      /\ c.from = b.from /\ c.tree = t /\ c.tip = b.tip + 1
  BY UncheckedRecord DEF Edited
<1>2. b.tip \in Nat /\ b.pc # "merged" /\ Going(b) /\ PinsKnown(p, b)
  BY DEF MergesInv, PinsStand, BranchOK, BranchSound, InProgress, Going
<1>3. Commits(p) = {<<p, i>> : i \in 1 .. b.tip}
  BY DEF Commits
<1> HIDE DEF b, c
<1>4. \A i \in 1 .. b.tip : i \in 1 .. b.tip + 1
  BY <1>2
<1>5. ASSUME NEW m \in NewPins(b.from, t)
      PROVE  t.pins[m] \in base.commits \/ \E i \in 1 .. b.tip + 1 : t.pins[m] = <<p, i>>
  <2>1. CASE m \in NewPins(b.from, b.tree) /\ t.pins[m] = b.tree.pins[m]
    BY <1>2, <1>4, <2>1 DEF PinsKnown
  <2>2. CASE t.pins[m] \in base.commits \cup Commits(p)
    BY <1>3, <1>4, <2>2
  <2> QED BY <1>5, <2>1, <2>2 DEF b
<1>6. PinsKnown(p, c)
  BY <1>1, <1>2, <1>5 DEF PinsKnown
<1> QED BY <1>1, <1>2, <1>6, PinStep DEF b

\* Every edit but a bump or a sync leaves the pins alone.
LEMMA PlainEditPins ==
    ASSUME MergesInv, PinsStand, NEW p \in PRs, InProgress(p), NEW t, NEW wrote,
           Edited(p, t, wrote), t.pins = branch[p].tree.pins
    PROVE  PinsStand'
<1>1. \A m \in NewPins(branch[p].from, t) :
         m \in NewPins(branch[p].from, branch[p].tree) /\ t.pins[m] = branch[p].tree.pins[m]
  BY DEF NewPins
<1> QED BY <1>1, EditPins

LEMMA EditsPinKnown ==
    ASSUME MergesInv, PinsStand, NEW p \in PRs, InProgress(p), NEW d \in Dirs
    PROVE  /\ WriteCode(p, d) => PinsStand'
           /\ \A yes \in BOOLEAN : AnswerPrivate(p, d, yes) \/ CreatePackage(p, d, yes)
                 => PinsStand'
           /\ \A commit \in branch[p].from.commits \cup Commits(p) :
                 BumpTo(p, d, commit) => PinsStand'
<1> DEFINE t == branch[p].tree
           from == branch[p].from
<1>1. t = [dirs |-> t.dirs, pins |-> t.pins]
  BY TreeOf
<1>2. WriteCode(p, d) => PinsStand'
  BY PlainEditPins DEF WriteCode
<1>3. ASSUME NEW yes \in BOOLEAN, AnswerPrivate(p, d, yes) PROVE PinsStand'
  <2> DEFINE u == [t EXCEPT !.dirs[d].answered = yes]
  <2>1. Edited(p, u, {})
    BY <1>3 DEF AnswerPrivate
  <2>2. u.pins = t.pins
    <3> HIDE DEF t
    <3> QED BY <1>1, AnswerShape
  <2> QED BY <2>1, <2>2, PlainEditPins
<1>4. ASSUME NEW yes \in BOOLEAN, CreatePackage(p, d, yes) PROVE PinsStand'
  <2> DEFINE l == [v |-> 0, answered |-> yes]
             u == [t EXCEPT !.dirs[d] = l]
  <2>1. Edited(p, u, {d})
    BY <1>4 DEF CreatePackage
  <2>2. u.pins = t.pins
    <3> HIDE DEF t, l
    <3> QED BY <1>1, LineShape
  <2> QED BY <2>1, <2>2, PlainEditPins
<1>5. ASSUME NEW commit \in from.commits \cup Commits(p), BumpTo(p, d, commit) PROVE PinsStand'
  <2> DEFINE old == <<d, t.dirs[d].v>>
             u == [dirs |-> [t.dirs EXCEPT ![d].v = t.dirs[d].v + 1],
                   pins |-> [m \in DOMAIN t.pins \cup {old} |->
                               IF m = old THEN commit ELSE t.pins[m]]]
  <2>1. Edited(p, u, {})
    BY <1>5 DEF BumpTo
  <2>2. /\ DOMAIN u.pins = DOMAIN t.pins \cup {old} /\ u.pins[old] = commit
        /\ \A m \in DOMAIN t.pins : m # old => u.pins[m] = t.pins[m]
    OBVIOUS
  <2>3. commit \in base.commits \cup Commits(p)
    BY <1>5 DEF PinsStand, PinsKnown, Going, InProgress
  <2> HIDE DEF u, old, t, from
  <2>4. \A m \in NewPins(from, u) : \/ m \in NewPins(from, t) /\ u.pins[m] = t.pins[m]
                                    \/ u.pins[m] \in base.commits \cup Commits(p)
    BY <2>2, <2>3 DEF NewPins
  <2> QED BY <2>1, <2>4, EditPins DEF t, from
<1> QED BY <1>2, <1>3, <1>4, <1>5

LEMMA ResyncPinsKnown ==
    ASSUME MergesInv, PinsStand, NEW p \in PRs, InProgress(p), Resync(p)
    PROVE  PinsStand'
<1> DEFINE t == branch[p].tree
           from == branch[p].from
           pins == [m \in DOMAIN t.pins |->
                      IF t.pins[m] \in Commits(p) THEN <<"main", 0>> ELSE t.pins[m]]
           u == [t EXCEPT !.pins = [m \in DOMAIN @ |->
                    IF @[m] \in Commits(p) THEN <<"main", 0>> ELSE @[m]]]
<1>1. Edited(p, u, {})
  BY DEF Resync
<1>2. u = [dirs |-> t.dirs, pins |-> pins]
  BY TreeOf, PinsShape
<1>3. /\ DOMAIN u.pins = DOMAIN t.pins
      /\ \A m \in DOMAIN t.pins : u.pins[m] = <<"main", 0>> \/ u.pins[m] = t.pins[m]
  <2> HIDE DEF u
  <2> QED BY <1>2
<1>4. <<"main", 0>> \in base.commits
  BY DEF PinsStand
<1> HIDE DEF u, pins, t, from
<1>5. \A m \in NewPins(from, u) : \/ m \in NewPins(from, t) /\ u.pins[m] = t.pins[m]
                                  \/ u.pins[m] \in base.commits \cup Commits(p)
  BY <1>3, <1>4 DEF NewPins
<1> QED BY <1>1, <1>5, EditPins DEF t, from

LEMMA OpenAndUpdatePinKnown ==
    ASSUME MergesInv, PinsStand, NEW p \in PRs
    PROVE  /\ OpenPull(p) => PinsStand'
           /\ InProgress(p) /\ UpdateBranch(p) => PinsStand'
<1>1. ASSUME OpenPull(p) PROVE PinsStand'
  <2> DEFINE c == Unchecked(base, Tree(base), 0, {})
  <2>1. c.from = base /\ c.tree = Tree(base) /\ branch[p].pc # "merged"
    BY <1>1, UncheckedRecord DEF OpenPull
  <2>2. SetBranch(p, c) /\ UNCHANGED <<base, deployed, frozen, catalog>>
    BY <1>1 DEF OpenPull
  <2>3. NewPins(base, Tree(base)) = {}
    BY DEF NewPins, Tree
  <2> HIDE DEF c
  <2>4. PinsKnown(p, c)
    BY <2>1, <2>3 DEF PinsKnown
  <2> QED BY <2>1, <2>2, <2>4, PinStep
<1>2. ASSUME InProgress(p), UpdateBranch(p) PROVE PinsStand'
  <2> DEFINE b == branch[p]
             c == Unchecked(base, Merged(p), b.tip, b.wrote)
             mine == NewPins(b.from, b.tree)
  <2>1. /\ c.from = base /\ c.tree = Merged(p) /\ c.tip = b.tip /\ b.pc # "merged"
        /\ PinsKnown(p, b)
    BY <1>2, UncheckedRecord DEF InProgress, PinsStand, Going
  <2>2. SetBranch(p, c) /\ UNCHANGED <<base, deployed, frozen, catalog>>
    BY <1>2 DEF UpdateBranch
  <2>3. Merged(p).pins = [m \in DOMAIN base.pins \cup mine |-> IF m \in mine
                            THEN b.tree.pins[m] ELSE base.pins[m]]
    BY DEF Merged
  <2> HIDE DEF c, mine, b
  <2>4. \A m \in NewPins(base, Merged(p)) : m \in mine /\ Merged(p).pins[m] = b.tree.pins[m]
    BY <2>3 DEF NewPins
  <2>5. PinsKnown(p, c)
    BY <2>1, <2>4 DEF PinsKnown, mine
  <2> QED BY <2>1, <2>2, <2>5, PinStep DEF b
<1> QED BY <1>1, <1>2

LEMMA ChecksPinKnown ==
    ASSUME MergesInv, PinsStand, NEW p \in PRs, RunChecks(p)
    PROVE  PinsStand'
<1> DEFINE b == branch[p]
           x == unsafe(p) # {}
           y == Permanent(p) # {}
           r == {byDir(d) : d \in {d \in b.wrote : Rows(d) # {}}}
           j == Merged(p).dirs
           c == [b EXCEPT !.pc = "green", !.warned = x, !.review = y, !.row = r,
                          !.judged = j]
<1>1. SetBranch(p, c) /\ UNCHANGED <<base, deployed, frozen, catalog>> /\ b.pc = "open"
  BY DEF RunChecks
<1>2. /\ b = [pc |-> b.pc, from |-> b.from, tree |-> b.tree, tip |-> b.tip, wrote |-> b.wrote,
              warned |-> b.warned, review |-> b.review, row |-> b.row, judged |-> b.judged]
      /\ PinsKnown(p, b)
  BY <1>1 DEF MergesInv, BranchOK, BranchSound, PinsStand, Going
<1>3. c = [b EXCEPT !.pc = "green", !.warned = x, !.review = y, !.row = r, !.judged = j]
  OBVIOUS
<1> HIDE DEF b, x, y, r, j, c
<1>4. c.from = b.from /\ c.tree = b.tree /\ c.tip = b.tip
  <2>1. c = [pc |-> "green", from |-> b.from, tree |-> b.tree, tip |-> b.tip,
             wrote |-> b.wrote, warned |-> x, review |-> y, row |-> r, judged |-> j]
    BY <1>2, <1>3, CheckedRecord
  <2> QED BY <2>1
<1>5. PinsKnown(p, c)
  BY <1>2, <1>4 DEF PinsKnown
<1> QED BY <1>1, <1>5, PinStep DEF b

LEMMA SquashPinsKnown ==
    ASSUME MergesInv, PinsStand, NEW p \in PRs, Squash(p)
    PROVE  PinsStand'
<1> DEFINE b == branch[p]
           mine == NewPins(b.from, b.tree)
<1>1. PinsKnown(p, b) /\ b.tip \in Nat
  BY DEF Squash, PinsStand, Going, MergesInv, BranchOK, BranchSound
<1>2. base'.pins = [m \in DOMAIN base.pins \cup mine |-> IF m \in mine
                      THEN b.tree.pins[m] ELSE base.pins[m]]
  BY MergeLands DEF Merged
<1>3. /\ base.commits \subseteq base'.commits
      /\ \A q \in PRs : branch'[q] = IF q = p THEN [NoBranch EXCEPT !.pc = "merged"]
                                     ELSE branch[q]
  BY MergeLands
<1>4. branch'[p].pc = "merged"
  BY <1>3 DEF NoBranch
<1> HIDE DEF b, mine
<1>5. \A x : Lost(x) => Lost(x)'
  BY <1>3, <1>4 DEF Lost
<1>6. \A i \in 1 .. b.tip : Lost(<<p, i>>)'
  BY <1>1, <1>4 DEF Lost
<1>7. \A m \in mine : \A x : x = b.tree.pins[m] => x \in base'.commits \/ Lost(x)'
  BY <1>1, <1>3, <1>6 DEF PinsKnown, mine
<1>8. \A m \in DOMAIN base.pins : \A x : x = base.pins[m] => x \in base'.commits \/ Lost(x)'
  BY <1>3, <1>5 DEF PinsStand
<1>9. \A m \in DOMAIN base'.pins : \A x :
         x = base'.pins[m] => x \in base'.commits \/ Lost(x)'
  BY <1>2, <1>7, <1>8
<1>10. (\A m \in DOMAIN base.pins : base.pins[m] \in base.commits \/ Lost(base.pins[m]))'
  BY <1>9
<1>11. ASSUME NEW q \in PRs, NEW c, c = branch'[q], Going(c) PROVE PinsKnown(q, c)'
  <2>1. c = branch[q]
    BY <1>3, <1>4, <1>11 DEF Going
  <2>2. PinsKnown(q, c)
    BY <1>11, <2>1 DEF PinsStand
  <2> QED BY <1>3, <2>2 DEF PinsKnown
<1>12. ASSUME NEW q \in PRs PROVE (Going(branch[q]) => PinsKnown(q, branch[q]))'
  <2> PICK c : c = branch'[q]
    OBVIOUS
  <2>1. Going(c) => PinsKnown(q, c)'
    BY <1>11
  <2> QED BY <2>1 DEF Going, PinsKnown
<1> QED BY <1>3, <1>10, <1>12 DEF PinsStand

LEMMA PinsStayKnown ==
    ASSUME MergesInv, PinsStand, [PullRequestNext]_prVars
    PROVE  PinsStand'
<1>1. ASSUME UNCHANGED <<base, branch>> PROVE PinsStand'
  BY <1>1 DEF PinsStand, PinsKnown, Lost, Going
<1>2. CASE UNCHANGED prVars
  BY <1>1, <1>2 DEF prVars
<1>3. CASE Regenerate
  BY <1>1, <1>3 DEF Regenerate
<1>4. ASSUME NEW p \in PRs, OpenPull(p) \/ RunChecks(p) \/ Squash(p) PROVE PinsStand'
  BY <1>4, OpenAndUpdatePinKnown, ChecksPinKnown, SquashPinsKnown
<1>5. ASSUME NEW p \in PRs, InProgress(p), UpdateBranch(p) PROVE PinsStand'
  BY <1>5, OpenAndUpdatePinKnown
<1>6. ASSUME NEW p \in PRs, InProgress(p), Resync(p) PROVE PinsStand'
  BY <1>6, ResyncPinsKnown
<1>7. ASSUME NEW p \in PRs, InProgress(p), NEW d \in Dirs,
             \/ WriteCode(p, d)
             \/ \E yes \in BOOLEAN : AnswerPrivate(p, d, yes) \/ CreatePackage(p, d, yes)
             \/ \E commit \in branch[p].from.commits \cup Commits(p) : BumpTo(p, d, commit)
      PROVE  PinsStand'
  BY <1>7, EditsPinKnown
<1>8. ASSUME NEW n \in Networks2, NEW d \in Dirs, PublishPackage(n, d) PROVE PinsStand'
  BY <1>1, <1>8 DEF PublishPackage
<1> QED BY <1>2, <1>3, <1>4, <1>5, <1>6, <1>7, <1>8 DEF PullRequestNext

LEMMA RequestsAreKept == PullRequestInv /\ [PullRequestNext]_prVars => PullRequestInv'
BY MergesAreKept, PinsStayKnown DEF PullRequestInv

\* A realm that reaches mainnet unanswered ships a gnomod.toml that no check has read:
\* what one did read is answered when it ships, whatever was merged between the check and
\* its own merge, and whatever catalog it read (pr.go, guard_private.go).
THEOREM UnansweredIsUnread == PullRequestSpec => []UnansweredWasUnread
<1>1. PullRequestInv => UnansweredWasUnread
  BY DEF PullRequestInv, MergesInv, UnansweredWasUnread
<1> QED BY RequestsStart, RequestsAreKept, <1>1, PTL DEF PullRequestSpec

LEMMA OnlySquashLands ==
    ASSUME MergesInv, [PullRequestNext]_prVars, NEW p \in PRs, Landed(p)
    PROVE  Squash(p)
<1>1. CASE UNCHANGED prVars
  BY <1>1 DEF prVars, Landed
<1>2. ASSUME NEW q \in PRs, NEW c, SetBranch(q, c), c.pc # "merged" PROVE FALSE
  BY <1>2 DEF SetBranch, Landed, MergesInv
<1>3. ASSUME NEW q \in PRs, NEW from, NEW t, NEW tip, NEW wrote,
             SetBranch(q, Unchecked(from, t, tip, wrote))
      PROVE  FALSE
  <2>1. Unchecked(from, t, tip, wrote).pc = "open"
    BY UncheckedRecord
  <2> QED BY <1>2, <1>3, <2>1
<1>4. CASE Regenerate
  BY <1>4 DEF Regenerate, Landed
<1>5. ASSUME NEW q \in PRs, OpenPull(q) \/ UpdateBranch(q) PROVE FALSE
  BY <1>3, <1>5 DEF OpenPull, UpdateBranch
<1>6. ASSUME NEW q \in PRs, RunChecks(q) PROVE FALSE
  <2> DEFINE x == unsafe(q) # {}
             y == Permanent(q) # {}
             r == {byDir(d) : d \in {d \in branch[q].wrote : Rows(d) # {}}}
             j == Merged(q).dirs
             c == [branch[q] EXCEPT !.pc = "green", !.warned = x, !.review = y, !.row = r,
                                    !.judged = j]
  <2>1. branch[q] = [pc |-> branch[q].pc, from |-> branch[q].from, tree |-> branch[q].tree,
                     tip |-> branch[q].tip, wrote |-> branch[q].wrote,
                     warned |-> branch[q].warned, review |-> branch[q].review,
                     row |-> branch[q].row, judged |-> branch[q].judged]
    BY DEF MergesInv, BranchOK, BranchSound
  <2>2. SetBranch(q, c)
    BY <1>6 DEF RunChecks
  <2>3. c = [branch[q] EXCEPT !.pc = "green", !.warned = x, !.review = y, !.row = r,
                              !.judged = j]
    OBVIOUS
  <2> HIDE DEF x, y, r, j, c
  <2>4. c.pc = "green"
    BY <2>1, <2>3, CheckedRecord
  <2> QED BY <1>2, <2>2, <2>4
<1>7. ASSUME NEW q \in PRs, Squash(q) PROVE q = p
  BY <1>7, MergeLands DEF Landed
<1>8. ASSUME NEW q \in PRs, Resync(q) PROVE FALSE
  BY <1>3, <1>8 DEF Resync, Edited
<1>9. ASSUME NEW q \in PRs, NEW d \in Dirs, WriteCode(q, d) PROVE FALSE
  BY <1>3, <1>9 DEF WriteCode, Edited
<1>10. ASSUME NEW q \in PRs, NEW d \in Dirs, NEW yes \in BOOLEAN,
              AnswerPrivate(q, d, yes) \/ CreatePackage(q, d, yes)
       PROVE  FALSE
  BY <1>3, <1>10 DEF AnswerPrivate, CreatePackage, Edited
<1>11. ASSUME NEW q \in PRs, NEW d \in Dirs, NEW commit, BumpTo(q, d, commit) PROVE FALSE
  BY <1>3, <1>11 DEF BumpTo, Edited
<1>12. ASSUME NEW n \in Networks2, NEW d \in Dirs, PublishPackage(n, d) PROVE FALSE
  BY <1>12 DEF PublishPackage, Landed
<1> QED BY <1>1, <1>4, <1>5, <1>6, <1>7, <1>8, <1>9, <1>10, <1>11, <1>12 DEF PullRequestNext

LEMMA LandedPinsResolve ==
  ASSUME PullRequestInv, [PullRequestNext]_prVars
  PROVE  \A p \in PRs : Landed(p) /\ ~branch[p].warned =>
            \A m \in NewPins(base, base') : base'.pins[m] \in base'.commits
<1> SUFFICES ASSUME NEW p \in PRs, Landed(p), ~branch[p].warned,
                    NEW m \in NewPins(base, base')
             PROVE  base'.pins[m] \in base'.commits
  OBVIOUS
<1>1. Squash(p) /\ branch[p].pc = "green"
  BY OnlySquashLands DEF Landed, PullRequestInv
<1>2. ChecksHold(branch[p]) /\ MergesInv
  BY <1>1 DEF PullRequestInv, MergesInv, BranchOK
<1> DEFINE mine == NewPins(branch[p].from, branch[p].tree)
<1>3. base'.pins = [k \in DOMAIN base.pins \cup mine |-> IF k \in mine
                      THEN branch[p].tree.pins[k] ELSE base.pins[k]]
  BY <1>1, <1>2, MergeLands DEF Merged
<1>4. \A k \in mine : branch[p].tree.pins[k] \in base.commits
  BY <1>2 DEF ChecksHold
<1>5. base.commits \subseteq base'.commits
  BY <1>1, <1>2, MergeLands
<1> HIDE DEF mine
<1>6. m \in mine
  BY <1>3 DEF NewPins
<1> QED BY <1>3, <1>4, <1>5, <1>6

\* A pin that lands on main without a warning resolves from main, although the commits
\* of the branch are gone and others were merged since the report (report_lock.go).
THEOREM PinsDoSurvive == PullRequestSpec => PinsSurvive
BY RequestsStart, RequestsAreKept, LandedPinsResolve, PTL DEF PullRequestSpec, PinsSurvive

LEMMA LandedIsReviewed ==
  ASSUME PullRequestInv, [PullRequestNext]_prVars
  PROVE  \A p \in PRs : Landed(p) =>
            \A d \in branch[p].wrote :
               LET m == <<d, base'.dirs[d].v>>
               IN  m \notin deployed["mainnet"] =>
                      branch[p].review \/ \E o \in branch[p].row : o[1] = d /\ o # m
<1> SUFFICES ASSUME NEW p \in PRs, Landed(p), NEW d \in branch[p].wrote, NEW m,
                    m \notin deployed["mainnet"], ~ branch[p].review
             PROVE  \E o \in branch[p].row : o[1] = d /\ o # m
  OBVIOUS
<1>1. ChecksHold(branch[p])
  BY DEF PullRequestInv, MergesInv, BranchOK, Landed
<1> QED BY <1>1 DEF ChecksHold

\* What is merged with new contract code and is not live on mainnet was advised to be
\* reviewed, or was looked up as another version (review_advice.go).
THEOREM PermanentGetsReviewed == PullRequestSpec => PermanentIsReviewed
BY RequestsStart, RequestsAreKept, LandedIsReviewed, PTL DEF PullRequestSpec, PermanentIsReviewed
-----------------------------------------------------------------------------
(* The ratchets: a row lands as it was judged. *)

\* A tree and its baseline, whatever the baseline says.
SideSound(m) ==
    /\ m = [sheet |-> m.sheet, baseline |-> m.baseline]
    /\ m.sheet = [k \in Debts |-> m.sheet[k]]
    /\ \A k \in Debts : m.sheet[k] \in [Lines(k) -> MarksOf(guard)]
    /\ DOMAIN m.baseline \subseteq Debts
    /\ \A k \in DOMAIN m.baseline : m.baseline[k] \in Nat \ {0}

\* One row is at its baseline, and what is left out of it gives its reason.
RowHolds(m, k) ==
    /\ RowOf(m.baseline, k) = counted(m.sheet, k)
    /\ HitLines(m.sheet, k) # {} /\ k \notin DOMAIN m.baseline =>
          \E l \in Lines(k) : m.sheet[k][l] = "reasoned"

\* The merge of a pull request, of what it started from, its tip and main.
RowMix(o, t, m, k) == TakeFrom(RowOf(o.baseline, k), RowOf(t.baseline, k), RowOf(m.baseline, k))
LineMix(o, t, m, k) ==
    [l \in Lines(k) |-> TakeFrom(o.sheet[k][l], t.sheet[k][l], m.sheet[k][l])]
Mix(o, t, m) ==
    [sheet |-> [k \in Debts |-> LineMix(o, t, m, k)],
     baseline |-> [k \in {k \in Debts : RowMix(o, t, m, k) > 0} |-> RowMix(o, t, m, k)]]

InReview(c) == c.pc \in {"open", "green"}
\* What passed holds wherever main has not changed since.
PatchSound(c) ==
    /\ c = [pc |-> c.pc, onto |-> c.onto, tip |-> c.tip, edits |-> c.edits, since |-> c.since]
    /\ InReview(c) => SideSound(c.onto) /\ SideSound(c.tip)
    /\ c.pc = "green" =>
          \A k \in Debts \ c.since : RowHolds(Mix(c.onto, c.tip, mainline), k)

RatchetInv ==
    /\ guard \in Guards
    /\ SideSound(mainline)
    /\ patch = [p \in Changes |-> patch[p]]
    /\ \A p \in Changes : PatchSound(patch[p])
    /\ \A k \in Debts \ raced : RowHolds(mainline, k)

\* A finite set of naturals that is not empty has a greatest member.
LEMMA GreatestIsThere ==
    ASSUME NEW S \in SUBSET Nat, IsFiniteSet(S), S # {}
    PROVE  Max(S) \in S
<1> DEFINE Top(T) == \E n \in T : \A o \in T : n >= o
           Good == {T \in SUBSET S : T # {} => Top(T)}
<1>1. {} \in Good
  OBVIOUS
<1>2. ASSUME NEW T \in SUBSET S, T # {}, \A x \in T : T \ {x} \in Good
      PROVE  T \in Good
  <2>1. PICK x \in T : TRUE
    BY <1>2
  <2>2. x \in Nat /\ \A o \in T : o \in Nat
    BY <2>1
  <2>3. CASE T \ {x} = {}
    BY <2>1, <2>2, <2>3
  <2>4. CASE T \ {x} # {}
    <3>1. PICK n \in T \ {x} : \A o \in T \ {x} : n >= o
      BY <1>2, <2>4
    <3>2. CASE n >= x
      BY <2>1, <2>2, <3>1, <3>2
    <3>3. CASE ~ (n >= x)
      <4>1. \A o \in T : x >= o
        BY <2>1, <2>2, <3>1, <3>3
      <4> QED BY <2>1, <4>1
    <3> QED BY <3>2, <3>3
  <2> QED BY <2>3, <2>4
<1> HIDE DEF Good
<1>3. S \in Good
  BY <1>1, <1>2, SubsetInduction
<1> QED BY <1>3 DEF Good, Max

LEMMA RowSizes ==
    /\ Debts = GuardRules \X GuardFiles
    /\ \A k \in Debts : LinesOf[k] \in Nat /\ Lines(k) \subseteq Nat /\ IsFiniteSet(Lines(k))
<1>1. \A k \in Debts : LinesOf[k] \in Nat
  BY RatchetAssumption DEF Debts
<1>2. \A k \in Debts : IsFiniteSet(1 .. LinesOf[k])
  BY <1>1, FS_Interval
<1> QED BY <1>1, <1>2 DEF Debts, Lines

LEMMA CountIsNat ==
    ASSUME guard \in Guards, NEW s, NEW k \in Debts
    PROVE  counted(s, k) \in Nat
<1>1. IsFiniteSet(HitLines(s, k))
  BY RowSizes, FS_Subset DEF HitLines
<1>2. \A T \in SUBSET HitLines(s, k) : Cardinality(T) \in Nat
  BY <1>1, FS_Subset, FS_CardinalityType
<1>3. /\ Cardinality(HitLines(s, k)) \in Nat
      /\ Cardinality({l \in HitLines(s, k) : ~ignored(s[k][l])}) \in Nat
  BY <1>2
<1> QED BY <1>3 DEF counted, Guards

\* What passes is at its baseline, row by row.
LEMMA PassingRows ==
    ASSUME guard \in Guards, NEW m, SideSound(m), passes(m.sheet, m.baseline), NEW k \in Debts
    PROVE  RowHolds(m, k)
<1> DEFINE s == m.sheet
           b == m.baseline
           found == counts(s)
           n == counted(s, k)
<1>1. n \in Nat
  BY CountIsNat
<1>2. /\ k \in DOMAIN found <=> n > 0
      /\ k \in DOMAIN found => found[k] = n
  BY DEF counts
<1>3. /\ k \in DOMAIN found => k \in DOMAIN b /\ ~ (found[k] > b[k])
      /\ k \in DOMAIN b => k \in DOMAIN found /\ ~ (found[k] < b[k])
  BY DEF passes, appeared, grew, shrank
<1>4. k \in DOMAIN b => b[k] \in Nat
  BY DEF SideSound
<1>5. RowOf(b, k) = n
  <2> HIDE DEF n, found, b
  <2>1. CASE k \in DOMAIN b
    BY <1>1, <1>2, <1>3, <1>4, <2>1 DEF RowOf
  <2>2. CASE k \notin DOMAIN b
    BY <1>1, <1>2, <1>3, <2>2 DEF RowOf
  <2> QED BY <2>1, <2>2
<1>6. ASSUME HitLines(s, k) # {}, k \notin DOMAIN b
      PROVE  \E l \in Lines(k) : s[k][l] = "reasoned"
  <2>1. n = 0
    BY <1>5, <1>6 DEF RowOf
  <2>2. IsFiniteSet(HitLines(s, k)) /\ IsFiniteSet(Commented(s, k)) /\ Commented(s, k) \subseteq Nat
        /\ Commented(s, k) \subseteq Lines(k)
    BY RowSizes, FS_Subset DEF HitLines, Commented
  <2>3. CASE guard = "gnovet"
    <3> DEFINE T == {l \in HitLines(s, k) : ~ignored(s[k][l])}
    <3>1. Cardinality(T) = 0
      BY <2>1, <2>3 DEF counted
    <3>2. T = {}
      BY <2>2, <3>1, FS_Subset, FS_EmptySet
    <3> QED BY <1>6, <3>2 DEF ignored, HitLines
  <2>4. CASE guard = "audit"
    <3>1. Cardinality(HitLines(s, k)) = 0
      BY <2>1, <2>4 DEF counted
    <3> QED BY <1>6, <2>2, <3>1, FS_EmptySet
  <2>5. CASE guard = "tables"
    <3>1. Commented(s, k) # {}
      BY <1>6, <2>1, <2>5 DEF counted
    <3>2. Max(Commented(s, k)) \in Commented(s, k)
      BY <2>2, <3>1, GreatestIsThere
    <3>3. k \notin thin(s)
      BY <2>5 DEF passes
    <3>4. s[k][Max(Commented(s, k))] # "thin"
      BY <3>1, <3>3 DEF thin
    <3> QED BY <2>2, <3>2, <3>4 DEF Commented
  <2> QED BY <2>3, <2>4, <2>5 DEF Guards
<1> QED BY <1>5, <1>6 DEF RowHolds

LEMMA MergeIsMix ==
    \A p \in Changes : MergeOf(p) = Mix(patch[p].onto, patch[p].tip, mainline)
BY DEF MergeOf, Mix, RowMix, LineMix

LEMMA RowIsNat ==
    ASSUME NEW m, SideSound(m), NEW k
    PROVE  /\ RowOf(m.baseline, k) \in Nat
           /\ k \in DOMAIN m.baseline <=> RowOf(m.baseline, k) # 0
BY DEF SideSound, RowOf

LEMMA MixRows ==
    ASSUME NEW o, NEW t, NEW m, SideSound(o), SideSound(t), SideSound(m)
    PROVE  /\ SideSound(Mix(o, t, m))
           /\ \A k \in Debts : /\ Mix(o, t, m).sheet[k] = LineMix(o, t, m, k)
                               /\ RowOf(Mix(o, t, m).baseline, k) = RowMix(o, t, m, k)
<1> DEFINE x == Mix(o, t, m)
<1>1. \A k \in Debts : RowMix(o, t, m, k) \in Nat
  BY RowIsNat DEF RowMix, TakeFrom
<1>2. \A k \in Debts : LineMix(o, t, m, k) \in [Lines(k) -> MarksOf(guard)]
  <2> SUFFICES ASSUME NEW k \in Debts
               PROVE  LineMix(o, t, m, k) \in [Lines(k) -> MarksOf(guard)]
    OBVIOUS
  <2>1. /\ o.sheet[k] \in [Lines(k) -> MarksOf(guard)] /\ t.sheet[k] \in [Lines(k) -> MarksOf(guard)]
        /\ m.sheet[k] \in [Lines(k) -> MarksOf(guard)]
    BY DEF SideSound
  <2> QED BY <2>1 DEF LineMix, TakeFrom
<1>3. /\ x = [sheet |-> x.sheet, baseline |-> x.baseline]
      /\ x.sheet = [k \in Debts |-> LineMix(o, t, m, k)]
      /\ x.baseline = [k \in {k \in Debts : RowMix(o, t, m, k) > 0} |-> RowMix(o, t, m, k)]
  BY DEF Mix
<1> HIDE DEF x
<1>4. SideSound(x)
  BY <1>1, <1>2, <1>3 DEF SideSound
<1>5. \A k \in Debts : RowOf(x.baseline, k) = RowMix(o, t, m, k)
  BY <1>1, <1>3 DEF RowOf
<1>6. \A k \in Debts : x.sheet[k] = LineMix(o, t, m, k)
  BY <1>3
<1> QED BY <1>4, <1>5, <1>6 DEF x

\* A row is what its lines and its count are.
LEMMA AlikeRows ==
    ASSUME NEW m, NEW n, SideSound(m), SideSound(n), NEW k \in Debts,
           m.sheet[k] = n.sheet[k], RowOf(m.baseline, k) = RowOf(n.baseline, k),
           RowHolds(m, k)
    PROVE  RowHolds(n, k)
<1>1. k \in DOMAIN m.baseline <=> k \in DOMAIN n.baseline
  BY RowIsNat
<1>2. HitLines(m.sheet, k) = HitLines(n.sheet, k) /\ Commented(m.sheet, k) = Commented(n.sheet, k)
  BY DEF HitLines, Commented
<1>3. counted(m.sheet, k) = counted(n.sheet, k)
  BY <1>2 DEF counted
<1> QED BY <1>1, <1>2, <1>3 DEF RowHolds

LEMMA RatchetStarts == RatchetInit => RatchetInv
<1> SUFFICES ASSUME RatchetInit PROVE RatchetInv
  OBVIOUS
<1> DEFINE s == [k \in Debts |-> [l \in Lines(k) |->
                    IF k \in OldDebts /\ l = 1 THEN "hit" ELSE "clean"]]
<1>1. /\ guard \in Guards /\ mainline = [sheet |-> s, baseline |-> counts(s)]
      /\ patch = [p \in Changes |-> NoPatch] /\ raced = {}
  BY DEF RatchetInit
<1>2. /\ \A k \in Debts : s[k] \in [Lines(k) -> MarksOf(guard)] /\ Commented(s, k) = {}
      /\ s = [k \in Debts |-> s[k]]
  BY DEF MarksOf, Marks, Commented
<1> HIDE DEF s
<1>3. /\ DOMAIN counts(s) \subseteq Debts
      /\ \A k \in DOMAIN counts(s) : counts(s)[k] \in Nat \ {0}
  <2>1. \A k \in Debts : counted(s, k) \in Nat
    BY <1>1, CountIsNat
  <2> QED BY <2>1 DEF counts
<1>4. mainline.sheet = s /\ mainline.baseline = counts(s)
  BY <1>1
<1>5. SideSound(mainline)
  BY <1>1, <1>2, <1>3, <1>4 DEF SideSound
<1>6. passes(s, counts(s))
  BY <1>2, <1>3 DEF passes, appeared, grew, shrank, thin
<1>7. \A k \in Debts : RowHolds(mainline, k)
  BY <1>1, <1>4, <1>5, <1>6, PassingRows
<1> QED BY <1>1, <1>5, <1>7 DEF RatchetInv, PatchSound, InReview, NoPatch

\* Only one pull request changes: it has not been judged, or it has just been.
LEMMA OnePatch ==
    ASSUME RatchetInv, NEW p \in Changes, NEW c, patch' = [patch EXCEPT ![p] = c],
           UNCHANGED <<guard, mainline, raced>>, PatchSound(c)
    PROVE  RatchetInv'
<1>1. \A q \in Changes : patch'[q] = IF q = p THEN c ELSE patch[q]
  BY DEF RatchetInv
<1>2. patch' = [q \in Changes |-> patch'[q]]
  BY DEF RatchetInv
<1>3. ASSUME NEW q \in Changes PROVE PatchSound(patch[q])'
  <2>1. PatchSound(patch'[q])
    BY <1>1 DEF RatchetInv
  <2>2. guard' = guard /\ mainline' = mainline
    OBVIOUS
  <2> PICK d : d = patch'[q]
    OBVIOUS
  <2>3. /\ d = [pc |-> d.pc, onto |-> d.onto, tip |-> d.tip, edits |-> d.edits, since |-> d.since]
        /\ InReview(d) => SideSound(d.onto)' /\ SideSound(d.tip)'
    BY <2>1, <2>2 DEF PatchSound, SideSound, InReview
  <2>4. ASSUME d.pc = "green", NEW k \in Debts \ d.since
        PROVE  RowHolds(Mix(d.onto, d.tip, mainline), k)'
    <3> PICK m : m = Mix(d.onto, d.tip, mainline)
      OBVIOUS
    <3>1. RowHolds(m, k)
      BY <2>1, <2>4 DEF PatchSound
    <3>2. counted(m.sheet, k)' = counted(m.sheet, k)
      BY <2>2 DEF counted
    <3>3. RowHolds(m, k)'
      BY <3>1, <3>2 DEF RowHolds
    <3>4. m = Mix(d.onto, d.tip, mainline)'
      BY <2>2
    <3> QED BY <3>3, <3>4 DEF RowHolds
  <2>5. PatchSound(d)'
    BY <2>3, <2>4 DEF PatchSound
  <2> QED BY <2>5 DEF PatchSound
<1> QED BY <1>2, <1>3 DEF RatchetInv, SideSound, RowHolds, counted

LEMMA PatchRecord ==
    ASSUME NEW b,
           b = [pc |-> b.pc, onto |-> b.onto, tip |-> b.tip, edits |-> b.edits, since |-> b.since],
           NEW c, NEW t
    PROVE  /\ c = [b EXCEPT !.pc = "open", !.tip = t, !.edits = b.edits + 1, !.since = {}] =>
                 c = [pc |-> "open", onto |-> b.onto, tip |-> t, edits |-> b.edits + 1,
                      since |-> {}]
           /\ c = [b EXCEPT !.pc = "green", !.since = {}] =>
                 c = [pc |-> "green", onto |-> b.onto, tip |-> b.tip, edits |-> b.edits,
                      since |-> {}]
           /\ c = [b EXCEPT !.since = t] =>
                 c = [pc |-> b.pc, onto |-> b.onto, tip |-> b.tip, edits |-> b.edits,
                      since |-> t]
           /\ c = [b EXCEPT !.pc = "open", !.onto = t, !.tip = t] =>
                 c = [pc |-> "open", onto |-> t, tip |-> t, edits |-> b.edits,
                      since |-> b.since]
<1> PICK at, onto, tip, edits, since :
      b = [pc |-> at, onto |-> onto, tip |-> tip, edits |-> edits, since |-> since]
  OBVIOUS
<1> QED OBVIOUS

LEMMA StartKeepsRows ==
    ASSUME RatchetInv, NEW p \in Changes, StartPatch(p)
    PROVE  RatchetInv'
<1> DEFINE c == [NoPatch EXCEPT !.pc = "open", !.onto = mainline, !.tip = mainline]
<1>1. patch' = [patch EXCEPT ![p] = c] /\ UNCHANGED <<guard, mainline, raced>>
  BY DEF StartPatch
<1>2. NoPatch = [pc |-> NoPatch.pc, onto |-> NoPatch.onto, tip |-> NoPatch.tip,
                 edits |-> NoPatch.edits, since |-> NoPatch.since]
  BY DEF NoPatch
<1>3. c = [NoPatch EXCEPT !.pc = "open", !.onto = mainline, !.tip = mainline]
  OBVIOUS
<1> HIDE DEF c
<1>4. c = [pc |-> "open", onto |-> mainline, tip |-> mainline, edits |-> NoPatch.edits,
           since |-> NoPatch.since]
  BY <1>2, <1>3, PatchRecord
<1>5. /\ c = [pc |-> c.pc, onto |-> c.onto, tip |-> c.tip, edits |-> c.edits, since |-> c.since]
      /\ c.pc = "open" /\ c.onto = mainline /\ c.tip = mainline
  BY <1>4
<1>6. PatchSound(c)
  BY <1>5 DEF PatchSound, InReview, RatchetInv
<1> QED BY <1>1, <1>6, OnePatch

LEMMA CommitKeepsRows ==
    ASSUME RatchetInv, NEW p \in Changes, InReview(patch[p]), NEW t, SideSound(t), Commit(p, t)
    PROVE  RatchetInv'
<1> DEFINE b == patch[p]
           c == [b EXCEPT !.pc = "open", !.tip = t, !.edits = b.edits + 1, !.since = {}]
<1>1. b = [pc |-> b.pc, onto |-> b.onto, tip |-> b.tip, edits |-> b.edits, since |-> b.since]
      /\ SideSound(b.onto)
  BY DEF RatchetInv, PatchSound
<1>2. patch' = [patch EXCEPT ![p] = c] /\ UNCHANGED <<guard, mainline, raced>>
  BY DEF Commit
<1>3. c = [b EXCEPT !.pc = "open", !.tip = t, !.edits = b.edits + 1, !.since = {}]
  OBVIOUS
<1> HIDE DEF b, c
<1>4. c = [pc |-> "open", onto |-> b.onto, tip |-> t, edits |-> b.edits + 1, since |-> {}]
  BY <1>1, <1>3, PatchRecord
<1>5. /\ c = [pc |-> c.pc, onto |-> c.onto, tip |-> c.tip, edits |-> c.edits, since |-> c.since]
      /\ c.pc = "open" /\ c.onto = b.onto /\ c.tip = t
  BY <1>4
<1>6. PatchSound(c)
  BY <1>1, <1>5 DEF PatchSound, InReview
<1> QED BY <1>2, <1>6, OnePatch

LEMMA MarkKeepsRows ==
    ASSUME RatchetInv, NEW p \in Changes, InReview(patch[p]), NEW k \in Debts,
           NEW mark \in MarksOf(guard), NEW l \in Lines(k), MarkLine(p, k, l, mark)
    PROVE  RatchetInv'
<1> DEFINE o == patch[p].tip
           f == [o.sheet[k] EXCEPT ![l] = mark]
           t == [o EXCEPT !.sheet[k][l] = mark]
<1>1. SideSound(o)
  BY DEF RatchetInv, PatchSound
<1>2. Commit(p, t)
  BY DEF MarkLine
<1>3. t = [sheet |-> [o.sheet EXCEPT ![k] = f], baseline |-> o.baseline]
  <2>1. o = [sheet |-> o.sheet, baseline |-> o.baseline]
    BY <1>1 DEF SideSound
  <2> HIDE DEF o
  <2> QED BY <2>1
<1>4. f \in [Lines(k) -> MarksOf(guard)]
  BY <1>1 DEF SideSound
<1> HIDE DEF o, t, f
<1>5. t.sheet = [o.sheet EXCEPT ![k] = f]
      /\ t.baseline = o.baseline /\ t = [sheet |-> t.sheet, baseline |-> t.baseline]
  BY <1>3
<1>6. o.sheet = [i \in Debts |-> o.sheet[i]]
  BY <1>1 DEF SideSound
<1>7. t.sheet = [i \in Debts |-> IF i = k THEN f ELSE o.sheet[i]]
  BY <1>5, <1>6
<1>8. t.sheet = [i \in Debts |-> t.sheet[i]]
      /\ \A j \in Debts : t.sheet[j] = IF j = k THEN f ELSE o.sheet[j]
  BY <1>7
<1>9. SideSound(t)
  BY <1>1, <1>4, <1>5, <1>8 DEF SideSound
<1> QED BY <1>2, <1>9, CommitKeepsRows

LEMMA RecordKeepsRows ==
    ASSUME RatchetInv, NEW p \in Changes, InReview(patch[p]), NEW visited, Record(p, visited)
    PROVE  RatchetInv'
<1> DEFINE o == patch[p].tip
           found == counts(o.sheet)
           b == [k \in DOMAIN found \cap visited |-> found[k]]
           t == [o EXCEPT !.baseline = b]
<1>1. SideSound(o)
  BY DEF RatchetInv, PatchSound
<1>2. Commit(p, t)
  BY DEF Record
<1>3. DOMAIN found \subseteq Debts /\ \A k \in DOMAIN found : found[k] \in Nat \ {0}
  <2>1. \A k \in Debts : counted(o.sheet, k) \in Nat
    BY CountIsNat DEF RatchetInv
  <2> QED BY <2>1 DEF counts
<1>4. DOMAIN b \subseteq Debts /\ \A k \in DOMAIN b : b[k] \in Nat \ {0}
  BY <1>3
<1>5. t = [sheet |-> o.sheet, baseline |-> b]
  <2>1. o = [sheet |-> o.sheet, baseline |-> o.baseline]
    BY <1>1 DEF SideSound
  <2> HIDE DEF o, b
  <2> QED BY <2>1
<1> HIDE DEF o, t, b, found
<1>6. t.sheet = o.sheet /\ t.baseline = b /\ t = [sheet |-> t.sheet, baseline |-> t.baseline]
  BY <1>5
<1>7. SideSound(t)
  BY <1>1, <1>4, <1>6 DEF SideSound
<1> QED BY <1>2, <1>7, CommitKeepsRows

LEMMA JudgeKeepsRows ==
    ASSUME RatchetInv, NEW p \in Changes, Judge(p)
    PROVE  RatchetInv'
<1> DEFINE b == patch[p]
           c == [b EXCEPT !.pc = "green", !.since = {}]
<1>1. b = [pc |-> b.pc, onto |-> b.onto, tip |-> b.tip, edits |-> b.edits, since |-> b.since]
      /\ SideSound(b.onto) /\ SideSound(b.tip)
  BY DEF RatchetInv, PatchSound, Judge, InReview
<1>2. patch' = [patch EXCEPT ![p] = c] /\ UNCHANGED <<guard, mainline, raced>>
  BY DEF Judge
<1>3. LET m == Mix(b.onto, b.tip, mainline) IN SideSound(m) /\ passes(m.sheet, m.baseline)
  BY <1>1, MergeIsMix, MixRows DEF Judge, RatchetInv
<1>4. \A k \in Debts : RowHolds(Mix(b.onto, b.tip, mainline), k)
  BY <1>3, PassingRows DEF RatchetInv
<1>5. c = [b EXCEPT !.pc = "green", !.since = {}]
  OBVIOUS
<1> HIDE DEF b, c
<1>6. c = [pc |-> "green", onto |-> b.onto, tip |-> b.tip, edits |-> b.edits, since |-> {}]
  BY <1>1, <1>5, PatchRecord
<1>7. /\ c = [pc |-> c.pc, onto |-> c.onto, tip |-> c.tip, edits |-> c.edits, since |-> c.since]
      /\ c.pc = "green" /\ c.onto = b.onto /\ c.tip = b.tip
  BY <1>6
<1>8. PatchSound(c)
  BY <1>1, <1>4, <1>7 DEF PatchSound
<1> QED BY <1>2, <1>8, OnePatch

LEMMA LandKeepsRows ==
    ASSUME RatchetInv, NEW p \in Changes, LandPatch(p)
    PROVE  RatchetInv'
<1> DEFINE o == patch[p].onto
           t == patch[p].tip
           new == Mix(o, t, mainline)
           moved == TouchedRows(mainline, new)
<1>1. /\ patch[p].pc = "green" /\ guard' = guard /\ mainline' = new
      /\ patch' = [q \in Changes |->
                     CASE q = p -> [NoPatch EXCEPT !.pc = "landed"]
                       [] q # p /\ patch[q].pc = "green" ->
                             [patch[q] EXCEPT !.since = @ \cup moved]
                       [] OTHER -> patch[q]]
      /\ raced' = raced \cup (TouchedRows(o, t) \cap patch[p].since)
  BY MergeIsMix DEF LandPatch
<1>2. SideSound(o) /\ SideSound(t) /\ SideSound(mainline) /\ PatchSound(patch[p])
  BY <1>1 DEF RatchetInv, PatchSound, InReview
<1>3. /\ SideSound(new)
      /\ \A k \in Debts : new.sheet[k] = LineMix(o, t, mainline, k)
                          /\ RowOf(new.baseline, k) = RowMix(o, t, mainline, k)
  BY <1>2, MixRows
<1>4. \A k \in Debts \ raced' : RowHolds(new, k)
  <2> SUFFICES ASSUME NEW k \in Debts, k \notin raced' PROVE RowHolds(new, k)
    OBVIOUS
  <2>1. CASE k \notin patch[p].since
    BY <1>1, <1>2, <2>1 DEF PatchSound
  <2>2. CASE k \in patch[p].since
    <3>1. k \notin TouchedRows(o, t) /\ k \notin raced
      BY <1>1, <2>2
    <3>2. o.sheet[k] = t.sheet[k] /\ RowOf(o.baseline, k) = RowOf(t.baseline, k)
      BY <3>1 DEF TouchedRows
    <3>3. mainline.sheet[k] \in [Lines(k) -> MarksOf(guard)]
      BY <1>2 DEF SideSound
    <3> HIDE DEF o, t, new
    <3>4. LineMix(o, t, mainline, k) = mainline.sheet[k]
          /\ RowMix(o, t, mainline, k) = RowOf(mainline.baseline, k)
      BY <3>2, <3>3 DEF LineMix, RowMix, TakeFrom
    <3>5. RowHolds(mainline, k)
      BY <3>1 DEF RatchetInv
    <3> QED BY <1>2, <1>3, <3>4, <3>5, AlikeRows
  <2> QED BY <2>1, <2>2
<1>5. ASSUME NEW q \in Changes, q # p, patch[q].pc = "green",
             NEW k \in Debts, k \notin patch[q].since, k \notin moved
      PROVE  RowHolds(Mix(patch[q].onto, patch[q].tip, new), k)
  <2> DEFINE a == patch[q].onto
             b == patch[q].tip
  <2>1. SideSound(a) /\ SideSound(b) /\ RowHolds(Mix(a, b, mainline), k)
    BY <1>5 DEF RatchetInv, PatchSound, InReview
  <2>2. new.sheet[k] = mainline.sheet[k] /\ RowOf(new.baseline, k) = RowOf(mainline.baseline, k)
    BY <1>5 DEF TouchedRows
  <2> HIDE DEF a, b, new
  <2>3. /\ LineMix(a, b, new, k) = LineMix(a, b, mainline, k)
        /\ RowMix(a, b, new, k) = RowMix(a, b, mainline, k)
    BY <2>2 DEF LineMix, RowMix
  <2>4. /\ SideSound(Mix(a, b, new)) /\ SideSound(Mix(a, b, mainline))
        /\ Mix(a, b, new).sheet[k] = Mix(a, b, mainline).sheet[k]
        /\ RowOf(Mix(a, b, new).baseline, k) = RowOf(Mix(a, b, mainline).baseline, k)
    BY <1>2, <1>3, <2>1, <2>3, MixRows
  <2>5. RowHolds(Mix(a, b, new), k)
    BY <2>1, <2>4, AlikeRows
  <2> QED BY <2>5 DEF a, b
<1> HIDE DEF o, t, new, moved
<1>6. \A k \in Debts \ raced' : RowHolds(mainline, k)'
  BY <1>1, <1>4 DEF RowHolds, counted
<1>7. SideSound(mainline)'
  BY <1>1, <1>3 DEF SideSound
<1>8. ASSUME NEW q \in Changes PROVE PatchSound(patch[q])'
  <2> PICK d : d = patch'[q]
    OBVIOUS
  <2>1. PatchSound(patch[q])
    BY DEF RatchetInv
  <2>2. CASE q = p
    <3>1. d = [NoPatch EXCEPT !.pc = "landed"]
      BY <1>1, <2>2
    <3>2. d = [pc |-> "landed", onto |-> <<>>, tip |-> <<>>, edits |-> 0, since |-> {}]
      BY <3>1 DEF NoPatch
    <3>3. PatchSound(d)'
      BY <3>2 DEF PatchSound, InReview
    <3> QED BY <3>3 DEF PatchSound
  <2>3. CASE q # p /\ patch[q].pc = "green"
    <3>1. d = [patch[q] EXCEPT !.since = patch[q].since \cup moved]
      BY <1>1, <2>3
    <3>2. d = [pc |-> patch[q].pc, onto |-> patch[q].onto, tip |-> patch[q].tip,
               edits |-> patch[q].edits, since |-> patch[q].since \cup moved]
      BY <2>1, <3>1, PatchRecord DEF PatchSound
    <3>3. /\ d = [pc |-> d.pc, onto |-> d.onto, tip |-> d.tip, edits |-> d.edits,
                  since |-> d.since]
          /\ d.pc = "green" /\ d.onto = patch[q].onto /\ d.tip = patch[q].tip
          /\ d.since = patch[q].since \cup moved
      BY <2>3, <3>2
    <3>4. SideSound(d.onto)' /\ SideSound(d.tip)'
      BY <1>1, <2>1, <2>3, <3>3 DEF PatchSound, SideSound, InReview
    <3>5. \A k \in Debts \ d.since : RowHolds(Mix(d.onto, d.tip, new), k)
      BY <1>5, <2>3, <3>3
    <3>6. \A k \in Debts \ d.since : RowHolds(Mix(d.onto, d.tip, mainline), k)'
      <4> SUFFICES ASSUME NEW k \in Debts \ d.since
                   PROVE  RowHolds(Mix(d.onto, d.tip, mainline), k)'
        OBVIOUS
      <4> PICK x : x = Mix(d.onto, d.tip, new)
        OBVIOUS
      <4>1. RowHolds(x, k)'
        <5>1. RowHolds(x, k)
          BY <3>5
        <5>2. guard' = guard
          BY <1>1
        <5> QED BY <5>1, <5>2 DEF RowHolds, counted
      <4>2. x = Mix(d.onto, d.tip, mainline')
        BY <1>1
      <4> QED BY <4>1, <4>2 DEF RowHolds, counted
    <3>7. PatchSound(d)'
      BY <3>3, <3>4, <3>6 DEF PatchSound
    <3> QED BY <3>7 DEF PatchSound
  <2>4. CASE q # p /\ patch[q].pc # "green"
    <3>1. d = patch[q]
      BY <1>1, <2>4
    <3>2. PatchSound(d)'
      BY <1>1, <2>1, <2>4, <3>1 DEF PatchSound, SideSound, InReview
    <3> QED BY <3>2 DEF PatchSound
  <2> QED BY <2>2, <2>3, <2>4
<1>9. patch' = [q \in Changes |-> patch'[q]]
  BY <1>1
<1> QED BY <1>1, <1>6, <1>7, <1>8, <1>9 DEF RatchetInv

LEMMA RowsAreKept == RatchetInv /\ [RatchetNext]_ratchetVars => RatchetInv'
<1> SUFFICES ASSUME RatchetInv, [RatchetNext]_ratchetVars PROVE RatchetInv'
  OBVIOUS
<1>1. CASE UNCHANGED ratchetVars
  <2>1. patch' = patch /\ guard' = guard /\ mainline' = mainline /\ raced' = raced
    BY <1>1 DEF ratchetVars
  <2>2. ASSUME NEW q \in Changes PROVE PatchSound(patch[q])'
    <3>1. PatchSound(patch[q])
      BY DEF RatchetInv
    <3> QED BY <2>1, <3>1 DEF PatchSound, SideSound, RowHolds, counted, InReview
  <2> QED BY <2>1, <2>2 DEF RatchetInv, SideSound, RowHolds, counted
<1>2. ASSUME NEW p \in Changes, StartPatch(p) \/ Judge(p) \/ LandPatch(p) PROVE RatchetInv'
  BY <1>2, StartKeepsRows, JudgeKeepsRows, LandKeepsRows
<1>3. ASSUME NEW p \in Changes, patch[p].pc \in {"open", "green"}, NEW k \in Debts,
             NEW mark \in MarksOf(guard), NEW l \in Lines(k), MarkLine(p, k, l, mark)
      PROVE  RatchetInv'
  BY <1>3, MarkKeepsRows DEF InReview
<1>4. ASSUME NEW p \in Changes, patch[p].pc \in {"open", "green"}, NEW visited,
             Record(p, visited)
      PROVE  RatchetInv'
  BY <1>4, RecordKeepsRows DEF InReview
<1> QED BY <1>1, <1>2, <1>3, <1>4 DEF RatchetNext

LEMMA RowsMeanDebts == RatchetInv => DebtIsRecorded
BY DEF RatchetInv, RowHolds, DebtIsRecorded

\* Every row of main is at its baseline, whatever pull requests wrote, recorded in part
\* and landed in whatever order; only one that two of them changed, neither judged with
\* the other, may be off (gnovet.go, audit_patterns.go, guard_tables.go).
THEOREM DebtGetsRecorded == RatchetSpec => []DebtIsRecorded
BY RatchetStarts, RowsAreKept, RowsMeanDebts, PTL DEF RatchetSpec
-----------------------------------------------------------------------------
(* `gnocontracts graph`: an image is missing, or it shows its .dot, or it is known to be
   old. *)

\* What a run with graphviz and without a failure leaves of a figure.
Settles(f) == IF f \in missed THEN svg[f] # 0 /\ png[f] # 0
              ELSE svg[f] = dot[f] /\ png[f] = dot[f]

DrawingsInv ==
    /\ shown \in [Figures -> Nat \ {0}]
    /\ {dot, svg, png} \subseteq [Figures -> Nat]
    /\ missed \subseteq Figures
    /\ drawing = [todo |-> drawing.todo, dot |-> drawing.dot, failed |-> drawing.failed,
                  ended |-> drawing.ended]
    /\ drawing.todo \subseteq Figures /\ drawing.dot \in BOOLEAN /\ drawing.failed \in Nat
    /\ drawing.ended => drawing.todo = {}
    /\ \A f \in Figures \ missed : svg[f] \in {0, dot[f]} /\ png[f] \in {0, dot[f]}
    /\ drawing.dot /\ drawing.failed = 0 => \A f \in Figures \ drawing.todo : Settles(f)

LEMMA DrawingsStart == DrawingsInit => DrawingsInv
BY DEF DrawingsInit, DrawingsInv, Resting, Settles

LEMMA ChangeKeepsIt == DrawingsInv /\ (\E f \in Figures : Change(f)) => DrawingsInv'
<1> SUFFICES ASSUME DrawingsInv, NEW f \in Figures, Change(f) PROVE DrawingsInv'
  OBVIOUS
<1>1. /\ shown' = [shown EXCEPT ![f] = @ + 1] /\ drawing' = Resting
      /\ UNCHANGED <<dot, svg, png, missed>>
  BY DEF Change
<1>2. shown' \in [Figures -> Nat \ {0}]
  BY <1>1 DEF DrawingsInv
<1> QED BY <1>1, <1>2 DEF DrawingsInv, Resting

LEMMA GraphKeepsIt == DrawingsInv /\ (\E haveDot \in BOOLEAN : cmdGraph(haveDot)) => DrawingsInv'
<1> SUFFICES ASSUME DrawingsInv, NEW haveDot \in BOOLEAN, cmdGraph(haveDot)
             PROVE  DrawingsInv'
  OBVIOUS
<1>1. /\ drawing' = [todo |-> Figures, dot |-> haveDot, failed |-> 0, ended |-> FALSE]
      /\ UNCHANGED <<shown, dot, svg, png, missed>>
  BY DEF cmdGraph
<1>2. /\ drawing' = [todo |-> drawing'.todo, dot |-> drawing'.dot, failed |-> drawing'.failed,
                    ended |-> drawing'.ended]
      /\ drawing'.todo = Figures /\ drawing'.dot \in BOOLEAN /\ drawing'.failed = 0
      /\ ~ drawing'.ended
  BY <1>1
<1> QED BY <1>1, <1>2 DEF DrawingsInv

LEMMA DrawRecord ==
    ASSUME NEW r, NEW c, NEW todo, NEW ended, NEW count,
           r = [todo |-> r.todo, dot |-> r.dot, failed |-> r.failed, ended |-> r.ended],
           \/ c = [r EXCEPT !.todo = todo, !.ended = ended, !.failed = count]
           \/ c = [r EXCEPT !.todo = todo, !.ended = ended] /\ count = r.failed
    PROVE  c = [todo |-> todo, dot |-> r.dot, failed |-> count, ended |-> ended]
<1> PICK t, d, n, e : r = [todo |-> t, dot |-> d, failed |-> n, ended |-> e]
  OBVIOUS
<1> QED OBVIOUS

LEMMA DrawKeepsIt ==
    ASSUME DrawingsInv, NEW f \in Figures, NEW how \in {"both", "svg", "neither"}, Draw(f, how)
    PROVE  DrawingsInv'
<1> DEFINE needed == drawing.dot /\ Needed(f)
<1>1. /\ f \in drawing.todo /\ shown' = shown /\ dot' = [dot EXCEPT ![f] = shown[f]]
      /\ svg' = IF needed /\ how \in {"both", "svg"} THEN [svg EXCEPT ![f] = shown[f]] ELSE svg
      /\ png' = IF needed /\ how = "both" THEN [png EXCEPT ![f] = shown[f]] ELSE png
      /\ missed' = CASE needed /\ how = "both" -> missed \ {f}
                     [] ~(needed /\ how = "both") /\ dot[f] # shown[f] -> missed \cup {f}
                     [] OTHER -> missed
  BY DEF Draw
<1>2. drawing' = [todo |-> drawing.todo \ {f}, dot |-> drawing.dot,
                  failed |-> drawing.failed + (IF needed /\ how # "both" THEN 1 ELSE 0),
                  ended |-> drawing.todo = {f}]
  <2>1. drawing = [todo |-> drawing.todo, dot |-> drawing.dot, failed |-> drawing.failed,
                   ended |-> drawing.ended] /\ drawing.failed \in Nat
    BY DEF DrawingsInv
  <2>2. CASE needed
    <3> DEFINE n == IF how = "both" THEN 0 ELSE 1
    <3>1. drawing' = [drawing EXCEPT !.todo = drawing.todo \ {f},
                        !.ended = (drawing.todo = {f}), !.failed = drawing.failed + n]
      BY <2>2 DEF Draw
    <3>2. drawing' = [todo |-> drawing.todo \ {f}, dot |-> drawing.dot,
                      failed |-> drawing.failed + n, ended |-> (drawing.todo = {f})]
      BY <2>1, <3>1, DrawRecord
    <3> QED BY <2>2, <3>2
  <2>3. CASE ~needed
    <3>1. drawing' = [drawing EXCEPT !.todo = drawing.todo \ {f}, !.ended = (drawing.todo = {f})]
      BY <2>3 DEF Draw
    <3>2. drawing' = [todo |-> drawing.todo \ {f}, dot |-> drawing.dot,
                      failed |-> drawing.failed, ended |-> (drawing.todo = {f})]
      BY <2>1, <3>1, DrawRecord
    <3>3. drawing.failed + 0 = drawing.failed
      BY <2>1
    <3> QED BY <2>3, <3>2, <3>3
  <2> QED BY <2>2, <2>3
<1>3. /\ drawing' = [todo |-> drawing'.todo, dot |-> drawing'.dot, failed |-> drawing'.failed,
                    ended |-> drawing'.ended]
      /\ drawing'.todo = drawing.todo \ {f} /\ drawing'.dot = drawing.dot
      /\ drawing'.failed = drawing.failed + (IF needed /\ how # "both" THEN 1 ELSE 0)
      /\ drawing'.ended <=> drawing.todo = {f}
  BY <1>2
<1>4. /\ dot \in [Figures -> Nat] /\ svg \in [Figures -> Nat] /\ png \in [Figures -> Nat]
      /\ shown[f] \in Nat \ {0} /\ drawing.failed \in Nat
  BY DEF DrawingsInv
<1>5. /\ dot' \in [Figures -> Nat] /\ svg' \in [Figures -> Nat] /\ png' \in [Figures -> Nat]
      /\ missed' \subseteq Figures
  BY <1>1, <1>4 DEF DrawingsInv
<1>6. \A g \in Figures \ {f} : /\ dot'[g] = dot[g] /\ svg'[g] = svg[g] /\ png'[g] = png[g]
                               /\ g \in missed' <=> g \in missed
  BY <1>1, <1>4
<1>7. /\ dot'[f] = shown[f]
      /\ svg'[f] = IF needed /\ how \in {"both", "svg"} THEN shown[f] ELSE svg[f]
      /\ png'[f] = IF needed /\ how = "both" THEN shown[f] ELSE png[f]
  BY <1>1, <1>4
<1>8. f \notin missed' => svg'[f] \in {0, dot'[f]} /\ png'[f] \in {0, dot'[f]}
  BY <1>1, <1>4, <1>7 DEF DrawingsInv
<1>9. drawing'.dot /\ drawing'.failed = 0 => Settles(f)'
  <2> SUFFICES ASSUME drawing'.dot, drawing'.failed = 0 PROVE Settles(f)'
    OBVIOUS
  <2>1. drawing.dot /\ (needed => how = "both")
    BY <1>3, <1>4
  <2>2. CASE needed
    BY <1>1, <1>7, <2>1, <2>2 DEF Settles
  <2>3. CASE ~needed
    <3>1. dot[f] = shown[f] /\ svg[f] # 0 /\ png[f] # 0
      BY <2>1, <2>3 DEF Needed, Missing
    <3> QED BY <1>1, <1>7, <2>3, <3>1 DEF Settles, DrawingsInv
  <2> QED BY <2>2, <2>3
<1>10. drawing'.dot /\ drawing'.failed = 0 => \A g \in Figures \ drawing'.todo : Settles(g)'
  <2> SUFFICES ASSUME drawing'.dot, drawing'.failed = 0, NEW g \in Figures, g \notin drawing'.todo
               PROVE  Settles(g)'
    OBVIOUS
  <2>1. CASE g = f
    BY <1>9, <2>1
  <2>2. CASE g # f
    <3>1. drawing.dot /\ drawing.failed = 0 /\ g \notin drawing.todo
      BY <1>3, <1>4, <2>2
    <3> QED BY <1>6, <2>2, <3>1 DEF DrawingsInv, Settles
  <2> QED BY <2>1, <2>2
<1> HIDE DEF needed
<1>11. drawing'.todo \subseteq Figures /\ drawing'.dot \in BOOLEAN /\ drawing'.failed \in Nat
       /\ (drawing'.ended => drawing'.todo = {})
  BY <1>3, <1>4 DEF DrawingsInv
<1> QED BY <1>1, <1>3, <1>5, <1>6, <1>8, <1>10, <1>11 DEF DrawingsInv

LEMMA DrawingsAreKept == DrawingsInv /\ [DrawingsNext]_drawVars => DrawingsInv'
<1> SUFFICES ASSUME DrawingsInv, [DrawingsNext]_drawVars PROVE DrawingsInv'
  OBVIOUS
<1>1. CASE UNCHANGED drawVars
  BY <1>1 DEF drawVars, DrawingsInv, Settles
<1>2. ASSUME NEW f \in Figures, NEW how \in {"both", "svg", "neither"}, Draw(f, how)
      PROVE  DrawingsInv'
  BY <1>2, DrawKeepsIt
<1> QED BY <1>1, <1>2, ChangeKeepsIt, GraphKeepsIt DEF DrawingsNext

LEMMA SettledMeansCaughtUp == DrawingsInv => ImagesCatchUp
<1> SUFFICES ASSUME DrawingsInv, drawing.ended, drawing.dot, drawing.failed = 0
             PROVE  \A f \in Figures : Settles(f)
  BY DEF ImagesCatchUp, Settles, DrawingsInv
<1> QED BY DEF DrawingsInv

\* Once a run with graphviz reports no failure every image shows its .dot, but for those
\* whose .dot an earlier run rewrote and did not render (graph.go).
THEOREM ImagesDoCatchUp == DrawingsSpec => []ImagesCatchUp
BY DrawingsStart, DrawingsAreKept, SettledMeansCaughtUp, PTL DEF DrawingsSpec
-----------------------------------------------------------------------------
(* The wiring suite of gnobench: what a chain charges at the cache is what the counters
   below it come to, plus what is still to be flushed. *)

ToFlush(r) == [o \in Objects |-> IF o \in r.dirty THEN SetCharge(r.cache[o]) ELSE 0]
PriceOf(c) == c.gets * ReadFlat + c.getBytes * ReadByte + c.sets * SetFlat
                + c.setBytes * WriteByte

BytesOf(r, S) == SumFunctionOnSet([o \in S |-> r.kv[o]], S)
NetOf(r, w, S) == SumFunctionOnSet([o \in S |-> w[o] - SizeOf(r, o)], S)
PaidOf(r, w, S) ==
    SumFunctionOnSet([o \in S |-> SetCharge(w[o]) -
                          (IF o \in r.dirty THEN SetCharge(r.cache[o]) ELSE 0)], S)
ReadCost(n, g) == n * ReadFlat + g * ReadByte
Missed(r, reads) == reads \ DOMAIN r.cache

RunSound(r) ==
    /\ r = [kv |-> r.kv, cache |-> r.cache, dirty |-> r.dirty, counts |-> r.counts,
            net |-> r.net, charged |-> r.charged]
    /\ r.counts = [gets |-> r.counts.gets, getBytes |-> r.counts.getBytes,
                   sets |-> r.counts.sets, setBytes |-> r.counts.setBytes]
    /\ r.kv \in [Objects -> Nat]
    /\ DOMAIN r.cache \subseteq Objects /\ \A o \in DOMAIN r.cache : r.cache[o] \in Nat
    /\ r.dirty \subseteq DOMAIN r.cache
    /\ {r.counts.gets, r.counts.getBytes, r.counts.sets, r.counts.setBytes} \subseteq Nat
    /\ r.counts.gets = 0 => r.counts.getBytes = 0
    /\ r.counts.sets = 0 => r.counts.setBytes = 0
    /\ r.net \in Int
    /\ r.charged = PriceOf(r.counts) + SumFunctionOnSet(ToFlush(r), Objects)

LEMMA WiringFacts ==
    /\ IsFiniteSet(Objects)
    /\ ReadFlat \in Nat /\ ReadByte \in Nat /\ SetFlat \in Nat /\ WriteByte \in Nat
    /\ MaxSize \in Nat /\ MaxCalls \in Nat
    /\ \A n \in Nat : SetCharge(n) \in Nat
<1>1. SetFlat \in Nat /\ WriteByte \in Nat
  BY WiringAssumption
<1>2. \A n \in Nat : SetCharge(n) \in Nat
  BY <1>1 DEF SetCharge
<1> QED BY <1>2, WiringAssumption

\* The sum of the module is the one the lemmas are about.
LEMMA SumIsOne ==
    /\ \A r, S : Sum(S, LAMBDA o : r.kv[o]) = SumFunctionOnSet([o \in S |-> r.kv[o]], S)
    /\ \A r, S : Sum(S, LAMBDA o : r.cache[o]) = SumFunctionOnSet([o \in S |-> r.cache[o]], S)
    /\ \A r, w, S : Sum(S, LAMBDA o : w[o] - SizeOf(r, o)) =
                       SumFunctionOnSet([o \in S |-> w[o] - SizeOf(r, o)], S)
    /\ \A r, w, S : Sum(S, LAMBDA o : SetCharge(w[o]) -
                              (IF o \in r.dirty THEN SetCharge(r.cache[o]) ELSE 0)) =
                       SumFunctionOnSet([o \in S |-> SetCharge(w[o]) -
                              (IF o \in r.dirty THEN SetCharge(r.cache[o]) ELSE 0)], S)
BY DEF Sum, SumFunctionOnSet

LEMMA PriceArithmetic ==
    ASSUME NEW g \in Int, NEW gb \in Int, NEW s \in Int, NEW sb \in Int,
           NEW dg \in Int, NEW dgb \in Int, NEW ds \in Int, NEW dsb \in Int,
           NEW rf \in Int, NEW rb \in Int, NEW sf \in Int, NEW wb \in Int
    PROVE  (g + dg) * rf + (gb + dgb) * rb + (s + ds) * sf + (sb + dsb) * wb
           = (g * rf + gb * rb + s * sf + sb * wb)
             + (dg * rf + dgb * rb + ds * sf + dsb * wb)
OBVIOUS

\* What a read counts, it charges.
LEMMA LoadIsSound ==
    ASSUME NEW r, RunSound(r), NEW reads \in SUBSET Objects, NEW x, x = LoadReads(r, reads)
    PROVE  /\ RunSound(x)
           /\ x.kv = r.kv /\ x.dirty = r.dirty /\ x.net = r.net
           /\ DOMAIN x.cache = DOMAIN r.cache \cup reads
           /\ \A o \in DOMAIN r.cache : x.cache[o] = r.cache[o]
           /\ \A o \in Missed(r, reads) : x.cache[o] = r.kv[o]
           /\ x.counts.gets = r.counts.gets + Cardinality(Missed(r, reads))
           /\ x.counts.getBytes = r.counts.getBytes + BytesOf(r, Missed(r, reads))
           /\ x.counts.sets = r.counts.sets /\ x.counts.setBytes = r.counts.setBytes
           /\ x.charged = r.charged + Cardinality(Missed(r, reads)) * ReadFlat
                                     + BytesOf(r, Missed(r, reads)) * ReadByte
           /\ BytesOf(r, Missed(r, reads)) \in Nat /\ Cardinality(Missed(r, reads)) \in Nat
<1> DEFINE unread == reads \ DOMAIN r.cache
           bytes == SumFunctionOnSet([o \in unread |-> r.kv[o]], unread)
           n == Cardinality(unread)
           cache == [o \in DOMAIN r.cache \cup unread |->
                        IF o \in unread THEN r.kv[o] ELSE r.cache[o]]
           more == n * ReadFlat + bytes * ReadByte
<1>1. unread \subseteq Objects /\ IsFiniteSet(unread) /\ n \in Nat
  BY WiringFacts, FS_Subset, FS_CardinalityType
<1>2. bytes \in Nat /\ (n = 0 => bytes = 0)
  <2> DEFINE f == [o \in unread |-> r.kv[o]]
  <2>1. \A o \in unread : f[o] \in Nat
    BY <1>1 DEF RunSound
  <2> HIDE DEF f
  <2>2. SumFunctionOnSet(f, unread) \in Nat
    BY <1>1, <2>1, SumCovers
  <2>3. n = 0 => unread = {}
    BY <1>1, FS_EmptySet
  <2>4. n = 0 => SumFunctionOnSet(f, unread) = 0
    BY <2>3, SumOfNone
  <2> QED BY <2>2, <2>4 DEF f
<1>3. x = [kv |-> r.kv, cache |-> cache, dirty |-> r.dirty,
           counts |-> [gets |-> r.counts.gets + n, getBytes |-> r.counts.getBytes + bytes,
                       sets |-> r.counts.sets, setBytes |-> r.counts.setBytes],
           net |-> r.net, charged |-> r.charged + n * ReadFlat + bytes * ReadByte]
  <2>1. x = [r EXCEPT !.cache = cache, !.counts.gets = r.counts.gets + n,
                      !.counts.getBytes = r.counts.getBytes + bytes,
                      !.charged = r.charged + n * ReadFlat + bytes * ReadByte]
    BY SumIsOne DEF LoadReads
  <2> HIDE DEF cache, bytes, n
  <2>2. /\ r = [kv |-> r.kv, cache |-> r.cache, dirty |-> r.dirty, counts |-> r.counts,
                net |-> r.net, charged |-> r.charged]
        /\ r.counts = [gets |-> r.counts.gets, getBytes |-> r.counts.getBytes,
                       sets |-> r.counts.sets, setBytes |-> r.counts.setBytes]
    BY DEF RunSound
  <2> QED BY ONLY <2>1, <2>2
<1> HIDE DEF cache, bytes, n
<1>4. /\ x = [kv |-> x.kv, cache |-> x.cache, dirty |-> x.dirty, counts |-> x.counts,
              net |-> x.net, charged |-> x.charged]
      /\ x.counts = [gets |-> x.counts.gets, getBytes |-> x.counts.getBytes,
                     sets |-> x.counts.sets, setBytes |-> x.counts.setBytes]
      /\ x.kv = r.kv /\ x.cache = cache /\ x.dirty = r.dirty /\ x.net = r.net
      /\ x.counts.gets = r.counts.gets + n /\ x.counts.getBytes = r.counts.getBytes + bytes
      /\ x.counts.sets = r.counts.sets /\ x.counts.setBytes = r.counts.setBytes
      /\ x.charged = r.charged + n * ReadFlat + bytes * ReadByte
  BY <1>3
<1>5. /\ DOMAIN cache = DOMAIN r.cache \cup reads
      /\ \A o \in DOMAIN r.cache : cache[o] = r.cache[o]
      /\ \A o \in unread : cache[o] = r.kv[o]
  BY DEF cache
<1>6. ToFlush(x) = ToFlush(r)
  BY <1>4, <1>5 DEF ToFlush, RunSound
<1>7. PriceOf(x.counts) = PriceOf(r.counts) + (n * ReadFlat + bytes * ReadByte)
  <2> DEFINE c == r.counts
  <2>1. c.gets \in Int /\ c.getBytes \in Int /\ c.sets \in Int /\ c.setBytes \in Int
    BY DEF RunSound
  <2>2. ReadFlat \in Int /\ ReadByte \in Int /\ SetFlat \in Int /\ WriteByte \in Int
        /\ n \in Int /\ bytes \in Int
    BY <1>1, <1>2, WiringFacts
  <2> HIDE DEF c
  <2>3. (c.gets + n) * ReadFlat + (c.getBytes + bytes) * ReadByte + (c.sets + 0) * SetFlat
          + (c.setBytes + 0) * WriteByte
        = (c.gets * ReadFlat + c.getBytes * ReadByte + c.sets * SetFlat + c.setBytes * WriteByte)
          + (n * ReadFlat + bytes * ReadByte + 0 * SetFlat + 0 * WriteByte)
    BY <2>1, <2>2, PriceArithmetic
  <2>4. /\ c.sets + 0 = c.sets /\ c.setBytes + 0 = c.setBytes
        /\ n * ReadFlat + bytes * ReadByte + 0 * SetFlat + 0 * WriteByte
             = n * ReadFlat + bytes * ReadByte
    BY <2>1, <2>2
  <2> QED BY <1>4, <2>3, <2>4 DEF PriceOf, c
<1>8. x.charged = PriceOf(x.counts) + SumFunctionOnSet(ToFlush(x), Objects)
  <2> DEFINE P == SumFunctionOnSet(ToFlush(r), Objects)
             q == PriceOf(r.counts)
  <2>1. \A o \in Objects : ToFlush(r)[o] \in Int
    BY WiringFacts DEF ToFlush, RunSound
  <2>2. P \in Int
    BY <2>1, WiringFacts, SumType
  <2>3. q \in Int /\ r.charged = q + P /\ n * ReadFlat \in Int /\ bytes * ReadByte \in Int
    BY <1>1, <1>2, WiringFacts DEF RunSound, PriceOf
  <2> HIDE DEF P, q
  <2>4. r.charged + n * ReadFlat + bytes * ReadByte = (q + (n * ReadFlat + bytes * ReadByte)) + P
    BY <2>2, <2>3
  <2> QED BY <1>4, <1>6, <1>7, <2>4 DEF P, q
<1>9. RunSound(x)
  <2>1. {x.counts.gets, x.counts.getBytes, x.counts.sets, x.counts.setBytes} \subseteq Nat
        /\ (x.counts.gets = 0 => x.counts.getBytes = 0)
        /\ (x.counts.sets = 0 => x.counts.setBytes = 0)
    BY <1>1, <1>2, <1>4 DEF RunSound
  <2>2. DOMAIN x.cache \subseteq Objects /\ x.dirty \subseteq DOMAIN x.cache
        /\ \A o \in DOMAIN x.cache : x.cache[o] \in Nat
    BY <1>1, <1>4, <1>5 DEF RunSound
  <2>3. x.kv \in [Objects -> Nat] /\ x.net \in Int
    BY <1>4 DEF RunSound
  <2> QED BY <1>4, <1>8, <2>1, <2>2, <2>3 DEF RunSound
<1> QED BY <1>1, <1>2, <1>4, <1>5, <1>9 DEF n, bytes, Missed, BytesOf

\* What a write charges is pending until the flush counts it.
LEMMA StoreIsSound ==
    ASSUME NEW r, RunSound(r), NEW objs \in SUBSET Objects, NEW writes \in [objs -> Nat],
           NEW x, x = StoreWrites(r, writes)
    PROVE  /\ RunSound(x)
           /\ x.kv = r.kv /\ x.counts = r.counts /\ x.dirty = r.dirty \cup objs
           /\ DOMAIN x.cache = DOMAIN r.cache \cup objs
           /\ \A o \in DOMAIN x.cache : x.cache[o] = IF o \in objs THEN writes[o] ELSE r.cache[o]
           /\ x.net = r.net + NetOf(r, writes, objs) /\ NetOf(r, writes, objs) \in Int
           /\ x.charged = r.charged + PaidOf(r, writes, objs) /\ PaidOf(r, writes, objs) \in Int
<1> DEFINE net == SumFunctionOnSet([o \in objs |-> writes[o] - SizeOf(r, o)], objs)
           d == [o \in objs |-> SetCharge(writes[o]) -
                          (IF o \in r.dirty THEN SetCharge(r.cache[o]) ELSE 0)]
           paid == SumFunctionOnSet(d, objs)
           cache == [o \in DOMAIN r.cache \cup objs |->
                        IF o \in objs THEN writes[o] ELSE r.cache[o]]
<1>1. IsFiniteSet(objs) /\ DOMAIN writes = objs
  BY WiringFacts, FS_Subset
<1>2. net \in Int
  <2> DEFINE f == [o \in objs |-> writes[o] - SizeOf(r, o)]
  <2>1. \A o \in objs : SizeOf(r, o) \in Nat /\ writes[o] \in Nat
    BY DEF SizeOf, RunSound
  <2>2. \A o \in objs : f[o] \in Int
    BY <2>1
  <2> HIDE DEF f
  <2>3. SumFunctionOnSet(f, objs) \in Int
    BY <1>1, <2>2, SumType
  <2> QED BY <2>3 DEF f
<1>3. \A o \in objs : d[o] \in Int
  BY WiringFacts DEF RunSound
<1>4. paid \in Int
  <2> HIDE DEF d
  <2> QED BY <1>1, <1>3, SumType
<1>5. x = [kv |-> r.kv, cache |-> cache, dirty |-> r.dirty \cup objs, counts |-> r.counts,
           net |-> r.net + net, charged |-> r.charged + paid]
  <2>1. x = [r EXCEPT !.net = r.net + net, !.cache = cache, !.dirty = r.dirty \cup objs,
                      !.charged = r.charged + paid]
    <3> DEFINE own(o) == writes[o] - SizeOf(r, o)
               owed(o) == SetCharge(writes[o]) -
                            (IF o \in r.dirty THEN SetCharge(r.cache[o]) ELSE 0)
    <3>1. Sum(objs, own) = net
      BY DEF Sum, SumFunctionOnSet
    <3>1a. Sum(objs, owed) = paid
      BY DEF Sum, SumFunctionOnSet
    <3>2. StoreWrites(r, writes) =
            [r EXCEPT !.net = r.net + Sum(objs, own), !.cache = cache, !.dirty = r.dirty \cup objs,
                      !.charged = r.charged + Sum(objs, owed)]
      BY <1>1 DEF StoreWrites
    <3> HIDE DEF cache, net, paid
    <3> QED BY <3>1, <3>1a, <3>2
  <2> HIDE DEF cache, net, paid
  <2> QED BY <2>1 DEF RunSound
<1> HIDE DEF cache, net
<1>6. /\ x = [kv |-> x.kv, cache |-> x.cache, dirty |-> x.dirty, counts |-> x.counts,
              net |-> x.net, charged |-> x.charged]
      /\ x.kv = r.kv /\ x.counts = r.counts /\ x.cache = cache /\ x.dirty = r.dirty \cup objs
      /\ x.net = r.net + net /\ x.charged = r.charged + paid
  <2> HIDE DEF d, paid
  <2> QED BY <1>5
<1>7. /\ DOMAIN cache = DOMAIN r.cache \cup objs
      /\ \A o \in DOMAIN cache : cache[o] = IF o \in objs THEN writes[o] ELSE r.cache[o]
  BY DEF cache
<1>8. SumFunctionOnSet(ToFlush(x), Objects) = SumFunctionOnSet(ToFlush(r), Objects) + paid
  <2> DEFINE e == [o \in Objects |-> IF o \in objs THEN d[o] ELSE 0]
             p == ToFlush(r)
             q == ToFlush(x)
  <2>1. \A o \in Objects : p[o] \in Int /\ p[o] = IF o \in r.dirty THEN SetCharge(r.cache[o]) ELSE 0
    BY WiringFacts DEF ToFlush, RunSound
  <2>2. \A o \in Objects : q[o] = IF o \in objs THEN SetCharge(writes[o])
                                  ELSE IF o \in r.dirty THEN SetCharge(r.cache[o]) ELSE 0
    BY <1>6, <1>7 DEF ToFlush, RunSound
  <2>3. \A o \in Objects : e[o] \in Int /\ e[o] = IF o \in objs THEN d[o] ELSE 0
    BY <1>3
  <2>4. \A o \in objs : d[o] = SetCharge(writes[o]) - p[o] /\ SetCharge(writes[o]) \in Int
    BY <2>1, WiringFacts
  <2> HIDE DEF d, e, p, q
  <2>5. paid = SumFunctionOnSet(e, Objects)
    BY <1>3, <2>3, WiringFacts, SumOfPart
  <2>6. \A o \in Objects : q[o] = p[o] + e[o]
    <3> SUFFICES ASSUME NEW o \in Objects PROVE q[o] = p[o] + e[o]
      OBVIOUS
    <3>1. CASE o \in objs
      <4>1. p[o] \in Int /\ e[o] = SetCharge(writes[o]) - p[o] /\ SetCharge(writes[o]) \in Int
            /\ q[o] = SetCharge(writes[o])
        BY <2>1, <2>2, <2>3, <2>4, <3>1
      <4> QED BY <4>1
    <3>2. CASE o \notin objs
      <4>1. p[o] \in Int /\ e[o] = 0 /\ q[o] = p[o]
        BY <2>1, <2>2, <2>3, <3>2
      <4> QED BY <4>1
    <3> QED BY <3>1, <3>2
  <2>7. SumFunctionOnSet(q, Objects) = SumFunctionOnSet(p, Objects) + SumFunctionOnSet(e, Objects)
    BY <2>1, <2>3, <2>6, WiringFacts, SumAdds
  <2> QED BY <2>5, <2>7 DEF p, q
<1>9. x.charged = PriceOf(x.counts) + SumFunctionOnSet(ToFlush(x), Objects)
  <2> DEFINE P == SumFunctionOnSet(ToFlush(r), Objects)
             c == PriceOf(r.counts)
  <2>1. \A o \in Objects : ToFlush(r)[o] \in Int
    BY WiringFacts DEF ToFlush, RunSound
  <2>2. P \in Int
    BY <2>1, WiringFacts, SumType
  <2>3. c \in Int /\ r.charged = c + P
    BY WiringFacts DEF RunSound, PriceOf
  <2> HIDE DEF P, c, paid
  <2>4. r.charged + paid = c + (P + paid)
    BY <1>4, <2>2, <2>3
  <2> QED BY <1>6, <1>8, <2>4 DEF P, c
<1>10. RunSound(x)
  <2>1. DOMAIN x.cache \subseteq Objects /\ x.dirty \subseteq DOMAIN x.cache
        /\ \A o \in DOMAIN x.cache : x.cache[o] \in Nat
    BY <1>6, <1>7 DEF RunSound
  <2>2. x.net \in Int
    BY <1>2, <1>6 DEF RunSound
  <2> QED BY <1>6, <1>9, <2>1, <2>2 DEF RunSound
<1>11. paid = PaidOf(r, writes, objs) /\ net = NetOf(r, writes, objs)
  BY DEF net, PaidOf, NetOf
<1> HIDE DEF paid
<1> QED BY <1>2, <1>4, <1>6, <1>7, <1>10, <1>11

\* What EXCEPT leaves of the counters.
LEMMA SetsCounted ==
    ASSUME NEW c, c = [gets |-> c.gets, getBytes |-> c.getBytes, sets |-> c.sets,
                       setBytes |-> c.setBytes],
           NEW s, NEW b, NEW d, d = [c EXCEPT !.sets = s, !.setBytes = b]
    PROVE  d = [gets |-> c.gets, getBytes |-> c.getBytes, sets |-> s, setBytes |-> b]
<1>1. PICK c1, c2, c3, c4 : c = [gets |-> c1, getBytes |-> c2, sets |-> c3, setBytes |-> c4]
  OBVIOUS
<1>2. c.gets = c1 /\ c.getBytes = c2
  BY <1>1
<1>3. d = [gets |-> c1, getBytes |-> c2, sets |-> s, setBytes |-> b]
  BY <1>1
<1> QED BY <1>2, <1>3

\* The flush counts what was pending, and charges nothing.
LEMMA FlushIsSound ==
    ASSUME NEW r, RunSound(r), NEW x, x = FlushTx(r)
    PROVE  /\ RunSound(x)
           /\ x.dirty = {} /\ DOMAIN x.cache = {}
           /\ \A o \in Objects : x.kv[o] = IF o \in r.dirty THEN r.cache[o] ELSE r.kv[o]
           /\ x.counts.gets = r.counts.gets /\ x.counts.getBytes = r.counts.getBytes
           /\ x.counts.sets = r.counts.sets + Cardinality(r.dirty)
           /\ x.net = r.net /\ x.charged = r.charged /\ Cardinality(r.dirty) \in Nat
<1> DEFINE f == [o \in r.dirty |-> r.cache[o]]
           bytes == SumFunctionOnSet(f, r.dirty)
           n == Cardinality(r.dirty)
           kv == [o \in Objects |-> IF o \in r.dirty THEN r.cache[o] ELSE r.kv[o]]
<1>1. r.dirty \subseteq Objects /\ IsFiniteSet(r.dirty) /\ n \in Nat
  <2>1. r.dirty \subseteq Objects
    BY DEF RunSound
  <2> QED BY <2>1, WiringFacts, FS_Subset, FS_CardinalityType
<1>2. \A o \in r.dirty : f[o] \in Nat /\ f[o] = r.cache[o]
  BY DEF RunSound
<1>3. bytes \in Nat /\ (n = 0 => bytes = 0)
  <2> HIDE DEF f
  <2>1. bytes \in Nat
    BY <1>1, <1>2, SumCovers
  <2>2. n = 0 => r.dirty = {}
    BY <1>1, FS_EmptySet
  <2> QED BY <2>1, <2>2, SumOfNone
<1>4. x = [kv |-> kv, cache |-> NoCache, dirty |-> {},
           counts |-> [gets |-> r.counts.gets, getBytes |-> r.counts.getBytes,
                       sets |-> r.counts.sets + n, setBytes |-> r.counts.setBytes + bytes],
           net |-> r.net, charged |-> r.charged]
  <2>1. x = [r EXCEPT !.kv = kv, !.cache = NoCache, !.dirty = {},
                      !.counts.sets = r.counts.sets + n,
                      !.counts.setBytes = r.counts.setBytes + bytes]
    <3>1. Sum(r.dirty, LAMBDA o : r.cache[o]) = bytes
      BY SumIsOne
    <3> HIDE DEF kv, bytes, f
    <3>2. FlushTx(r) = [r EXCEPT !.kv = kv, !.cache = NoCache, !.dirty = {},
                      !.counts.sets = r.counts.sets + n,
                      !.counts.setBytes = r.counts.setBytes + Sum(r.dirty, LAMBDA o : r.cache[o])]
      BY DEF FlushTx, kv
    <3> QED BY <3>1, <3>2
  <2> HIDE DEF kv, bytes, n, f
  <2> DEFINE c == r.counts
  <2>2. c = [gets |-> c.gets, getBytes |-> c.getBytes, sets |-> c.sets, setBytes |-> c.setBytes]
    BY DEF RunSound
  <2>3. [c EXCEPT !.sets = c.sets + n, !.setBytes = c.setBytes + bytes] =
           [gets |-> c.gets, getBytes |-> c.getBytes, sets |-> c.sets + n,
            setBytes |-> c.setBytes + bytes]
    <3> HIDE DEF c
    <3> QED BY <2>2, SetsCounted
  <2>4. r = [kv |-> r.kv, cache |-> r.cache, dirty |-> r.dirty, counts |-> c,
             net |-> r.net, charged |-> r.charged]
    BY DEF RunSound
  <2>5. x = [r EXCEPT !.kv = kv, !.cache = NoCache, !.dirty = {},
                      !.counts = [c EXCEPT !.sets = c.sets + n, !.setBytes = c.setBytes + bytes]]
    BY <2>1
  <2>6. x = [r EXCEPT !.kv = kv, !.cache = NoCache, !.dirty = {},
                      !.counts = [gets |-> c.gets, getBytes |-> c.getBytes, sets |-> c.sets + n,
                                  setBytes |-> c.setBytes + bytes]]
    BY <2>3, <2>5
  <2> HIDE DEF c
  <2>7. x = [kv |-> kv, cache |-> NoCache, dirty |-> {},
             counts |-> [gets |-> c.gets, getBytes |-> c.getBytes, sets |-> c.sets + n,
                         setBytes |-> c.setBytes + bytes],
             net |-> r.net, charged |-> r.charged]
    BY <2>4, <2>6
  <2> QED BY <2>7 DEF c
<1> HIDE DEF kv, bytes, n, f
<1>5. /\ x = [kv |-> x.kv, cache |-> x.cache, dirty |-> x.dirty, counts |-> x.counts,
              net |-> x.net, charged |-> x.charged]
      /\ x.counts = [gets |-> x.counts.gets, getBytes |-> x.counts.getBytes,
                     sets |-> x.counts.sets, setBytes |-> x.counts.setBytes]
      /\ x.kv = kv /\ x.cache = NoCache /\ x.dirty = {} /\ x.net = r.net
      /\ x.counts.gets = r.counts.gets /\ x.counts.getBytes = r.counts.getBytes
      /\ x.counts.sets = r.counts.sets + n /\ x.counts.setBytes = r.counts.setBytes + bytes
      /\ x.charged = r.charged
  BY <1>4
<1>6. SumFunctionOnSet(ToFlush(r), Objects) = n * SetFlat + WriteByte * bytes
  <2> DEFINE g == [o \in r.dirty |-> SetCharge(r.cache[o])]
  <2>1. \A o \in r.dirty : g[o] \in Int
    BY WiringFacts DEF RunSound
  <2>2. \A o \in r.dirty : f[o] \in Int /\ g[o] = SetFlat + WriteByte * f[o]
    BY <1>2 DEF SetCharge
  <2>3. \A o \in Objects : ToFlush(r)[o] = IF o \in r.dirty THEN g[o] ELSE 0
    BY DEF ToFlush
  <2> HIDE DEF g
  <2>4. SumFunctionOnSet(g, r.dirty) = SumFunctionOnSet(ToFlush(r), Objects)
    BY <1>1, <2>1, <2>3, WiringFacts, SumOfPart
  <2>5. SetFlat \in Int /\ WriteByte \in Int
    BY WiringFacts
  <2>6. SumFunctionOnSet(g, r.dirty) = n * SetFlat + WriteByte * bytes
    <3>1. IsFiniteSet(r.dirty)
      BY <1>1
    <3> QED BY ONLY <2>2, <2>5, <3>1, SumScales DEF n, bytes
  <2> QED BY <2>4, <2>6
<1>7. SumFunctionOnSet(ToFlush(x), Objects) = 0
  <2>1. \A o \in Objects : ToFlush(x)[o] = 0
    BY <1>5 DEF ToFlush
  <2> QED BY <2>1, WiringFacts, SumOfZeros
<1>8. PriceOf(x.counts) = PriceOf(r.counts) + (n * SetFlat + WriteByte * bytes)
  <2> DEFINE c == r.counts
  <2>1. c.gets \in Int /\ c.getBytes \in Int /\ c.sets \in Int /\ c.setBytes \in Int
    BY DEF RunSound
  <2>2. ReadFlat \in Int /\ ReadByte \in Int /\ SetFlat \in Int /\ WriteByte \in Int
        /\ n \in Int /\ bytes \in Int
    BY <1>1, <1>3, WiringFacts
  <2> HIDE DEF c
  <2>3. (c.gets + 0) * ReadFlat + (c.getBytes + 0) * ReadByte + (c.sets + n) * SetFlat
          + (c.setBytes + bytes) * WriteByte
        = (c.gets * ReadFlat + c.getBytes * ReadByte + c.sets * SetFlat + c.setBytes * WriteByte)
          + (0 * ReadFlat + 0 * ReadByte + n * SetFlat + bytes * WriteByte)
    BY <2>1, <2>2, PriceArithmetic
  <2>4. /\ c.gets + 0 = c.gets /\ c.getBytes + 0 = c.getBytes
        /\ 0 * ReadFlat + 0 * ReadByte + n * SetFlat + bytes * WriteByte
             = n * SetFlat + WriteByte * bytes
    BY <2>1, <2>2
  <2> QED BY <1>5, <2>3, <2>4 DEF PriceOf, c
<1>9. x.charged = PriceOf(x.counts) + SumFunctionOnSet(ToFlush(x), Objects)
  <2> DEFINE q == PriceOf(r.counts)
             P == n * SetFlat + WriteByte * bytes
  <2>1. q \in Int /\ P \in Int
    BY <1>1, <1>3, WiringFacts DEF RunSound, PriceOf
  <2>2. r.charged = q + P
    BY <1>6 DEF RunSound
  <2> HIDE DEF q, P
  <2>3. r.charged = (q + P) + 0
    BY <2>1, <2>2
  <2> QED BY <1>5, <1>7, <1>8, <2>3 DEF q, P
<1>10. kv \in [Objects -> Nat]
       /\ \A o \in Objects : kv[o] = IF o \in r.dirty THEN r.cache[o] ELSE r.kv[o]
  BY DEF kv, RunSound
<1>11. DOMAIN x.cache = {}
  BY <1>5 DEF NoCache
<1>12. /\ {x.counts.gets, x.counts.getBytes, x.counts.sets, x.counts.setBytes} \subseteq Nat
       /\ (x.counts.gets = 0 => x.counts.getBytes = 0)
       /\ (x.counts.sets = 0 => x.counts.setBytes = 0)
  <2>1. /\ r.counts.sets \in Nat /\ r.counts.setBytes \in Nat /\ r.counts.gets \in Nat
        /\ r.counts.getBytes \in Nat
        /\ (r.counts.sets = 0 => r.counts.setBytes = 0)
        /\ (r.counts.gets = 0 => r.counts.getBytes = 0)
    BY DEF RunSound
  <2> QED BY <1>1, <1>3, <1>5, <2>1
<1>13. RunSound(x)
  <2>1. x.net \in Int
    BY <1>5 DEF RunSound
  <2> QED BY <1>5, <1>9, <1>10, <1>11, <1>12, <2>1 DEF RunSound
<1> QED BY <1>1, <1>5, <1>10, <1>11, <1>13 DEF n

LEMMA ChargesAreNumbers ==
    ASSUME NEW r, RunSound(r)
    PROVE  r.charged \in Int /\ IsFiniteSet(r.dirty) /\ Cardinality(r.dirty) \in Nat
<1>1. \A o \in Objects : ToFlush(r)[o] \in Int
  BY WiringFacts DEF ToFlush, RunSound
<1>2. SumFunctionOnSet(ToFlush(r), Objects) \in Int
  BY <1>1, WiringFacts, SumType
<1>3. PriceOf(r.counts) \in Int
  BY WiringFacts DEF RunSound, PriceOf
<1>4. IsFiniteSet(r.dirty)
  <2>1. r.dirty \subseteq Objects
    BY DEF RunSound
  <2> QED BY <2>1, WiringFacts, FS_Subset
<1> QED BY <1>2, <1>3, <1>4, FS_CardinalityType DEF RunSound

\* What a transaction before its commit has done: the reads, then the writes.
HasRun(r, reads, objs, writes, x) ==
    /\ RunSound(x)
    /\ x.kv = r.kv /\ x.dirty = r.dirty \cup objs
    /\ \A o \in Objects :
          SizeOf(x, o) = IF o \in objs THEN writes[o] ELSE SizeOf(r, o)
    /\ (\A o \in DOMAIN r.cache \ r.dirty : r.cache[o] = r.kv[o]) =>
          \A o \in DOMAIN x.cache \ x.dirty : x.cache[o] = x.kv[o]
    /\ x.counts.gets = r.counts.gets + Cardinality(Missed(r, reads))
    /\ x.counts.getBytes = r.counts.getBytes + BytesOf(r, Missed(r, reads))
    /\ x.counts.sets = r.counts.sets /\ x.counts.setBytes = r.counts.setBytes
    /\ x.net = r.net + NetOf(r, writes, objs) /\ NetOf(r, writes, objs) \in Int
    /\ x.charged = r.charged + ReadCost(Cardinality(Missed(r, reads)),
                                       BytesOf(r, Missed(r, reads)))
                            + PaidOf(r, writes, objs)
    /\ r.charged \in Int
    /\ Cardinality(Missed(r, reads)) \in Nat /\ BytesOf(r, Missed(r, reads)) \in Nat
    /\ PaidOf(r, writes, objs) \in Int

LEMMA InTxIsSound ==
    ASSUME NEW r, RunSound(r), NEW reads \in SUBSET Objects, NEW objs \in SUBSET Objects,
           NEW writes \in [objs -> Nat], NEW x, x = InTx(r, reads, writes)
    PROVE  HasRun(r, reads, objs, writes, x)
<1> DEFINE n == Cardinality(Missed(r, reads))
           bytes == BytesOf(r, Missed(r, reads))
<1>1. PICK l : l = LoadReads(r, reads)
  OBVIOUS
<1>2. /\ RunSound(l) /\ l.kv = r.kv /\ l.dirty = r.dirty /\ l.net = r.net
      /\ DOMAIN l.cache = DOMAIN r.cache \cup reads
      /\ \A o \in DOMAIN r.cache : l.cache[o] = r.cache[o]
      /\ \A o \in Missed(r, reads) : l.cache[o] = r.kv[o]
      /\ l.counts.gets = r.counts.gets + n /\ l.counts.getBytes = r.counts.getBytes + bytes
      /\ l.counts.sets = r.counts.sets /\ l.counts.setBytes = r.counts.setBytes
      /\ l.charged = r.charged + n * ReadFlat + bytes * ReadByte
      /\ bytes \in Nat /\ n \in Nat
  BY <1>1, LoadIsSound
<1> HIDE DEF n, bytes
<1>3. x = StoreWrites(l, writes)
  BY <1>1 DEF InTx
<1>4. /\ RunSound(x) /\ x.kv = l.kv /\ x.counts = l.counts /\ x.dirty = l.dirty \cup objs
      /\ DOMAIN x.cache = DOMAIN l.cache \cup objs
      /\ \A o \in DOMAIN x.cache : x.cache[o] = IF o \in objs THEN writes[o] ELSE l.cache[o]
      /\ x.net = l.net + NetOf(l, writes, objs) /\ NetOf(l, writes, objs) \in Int
      /\ x.charged = l.charged + PaidOf(l, writes, objs) /\ PaidOf(l, writes, objs) \in Int
  <2>1. RunSound(l)
    BY <1>2
  <2> QED BY <2>1, <1>3, StoreIsSound
<1>5. \A o \in Objects : SizeOf(l, o) = SizeOf(r, o)
  BY <1>2 DEF SizeOf, Missed
<1>6. NetOf(l, writes, objs) = NetOf(r, writes, objs)
  <2> DEFINE f == [o \in objs |-> writes[o] - SizeOf(r, o)]
             g == [o \in objs |-> writes[o] - SizeOf(l, o)]
  <2>1. f = g
    BY <1>5
  <2> QED BY <2>1 DEF NetOf
<1>7. PaidOf(l, writes, objs) = PaidOf(r, writes, objs)
  <2> DEFINE f == [o \in objs |-> SetCharge(writes[o]) -
                      (IF o \in r.dirty THEN SetCharge(r.cache[o]) ELSE 0)]
             g == [o \in objs |-> SetCharge(writes[o]) -
                      (IF o \in l.dirty THEN SetCharge(l.cache[o]) ELSE 0)]
  <2>1. \A o \in objs : o \in r.dirty => o \in DOMAIN r.cache
    BY DEF RunSound
  <2>2. l.dirty = r.dirty /\ \A o \in DOMAIN r.cache : l.cache[o] = r.cache[o]
    BY <1>2
  <2>3. f = g
    BY <2>1, <2>2
  <2> QED BY <2>3 DEF PaidOf
<1>8. \A o \in Objects : SizeOf(x, o) = IF o \in objs THEN writes[o] ELSE SizeOf(r, o)
  BY <1>4, <1>5 DEF SizeOf
<1>9. ASSUME \A o \in DOMAIN r.cache \ r.dirty : r.cache[o] = r.kv[o]
      PROVE  \A o \in DOMAIN x.cache \ x.dirty : x.cache[o] = x.kv[o]
  BY <1>2, <1>4, <1>9 DEF Missed
<1>10. x.charged = r.charged + ReadCost(n, bytes) + PaidOf(r, writes, objs)
       /\ r.charged \in Int
  <2>1. r.charged \in Int
    BY ChargesAreNumbers
  <2>2. n * ReadFlat \in Int /\ bytes * ReadByte \in Int
    BY <1>2, WiringFacts
  <2> QED BY <1>2, <1>4, <1>7, <2>1, <2>2 DEF ReadCost
<1> QED BY <1>2, <1>4, <1>6, <1>7, <1>8, <1>9, <1>10 DEF n, bytes, HasRun

\* The two shapes side by side: the one transaction, and the one a transaction each.
Alike(a, b) ==
    /\ RunSound(a) /\ RunSound(b)
    /\ b.dirty = {} /\ DOMAIN b.cache = {}
    /\ \A o \in Objects : SizeOf(a, o) = b.kv[o]
    /\ \A o \in DOMAIN a.cache \ a.dirty : a.cache[o] = a.kv[o]
    /\ a.net = b.net /\ a.charged <= b.charged
    /\ a.counts.sets + Cardinality(a.dirty) <= b.counts.sets

LEMMA MoreCostsMore ==
    ASSUME NEW a \in Nat, NEW b \in Nat, a <= b, NEW p \in Nat
    PROVE  a * p <= b * p
<1>1. (b - a) * p >= 0 /\ b * p = a * p + (b - a) * p
  <2>1. b - a \in Nat
    OBVIOUS
  <2> QED BY <2>1
<1> QED BY <1>1

\* One call in the transaction that is open, and in a transaction of its own.
LEMMA CallKeepsThemAlike ==
    ASSUME NEW a, NEW b, Alike(a, b), NEW reads \in SUBSET Objects,
           NEW objs \in SUBSET Objects, NEW writes \in [objs -> Nat],
           NEW x, x = InTx(a, reads, writes), NEW y, y = FlushTx(InTx(b, reads, writes))
    PROVE  Alike(x, y)
<1>1. PICK z : z = InTx(b, reads, writes)
  OBVIOUS
<1> DEFINE ma == Missed(a, reads)
           mb == Missed(b, reads)
           na == Cardinality(ma)
           nb == Cardinality(mb)
           ga == BytesOf(a, ma)
           gb == BytesOf(b, mb)
           pa == PaidOf(a, writes, objs)
           pb == PaidOf(b, writes, objs)
<1>2. RunSound(a) /\ RunSound(b)
  BY DEF Alike
<1>3. /\ RunSound(x) /\ x.kv = a.kv /\ x.dirty = a.dirty \cup objs
      /\ \A o \in Objects : SizeOf(x, o) = IF o \in objs THEN writes[o] ELSE SizeOf(a, o)
      /\ \A o \in DOMAIN x.cache \ x.dirty : x.cache[o] = x.kv[o]
      /\ x.counts.sets = a.counts.sets /\ x.net = a.net + NetOf(a, writes, objs)
      /\ x.charged = a.charged + ReadCost(na, ga) + pa
      /\ na \in Nat /\ ga \in Nat /\ pa \in Int
  <2>1. \A o \in DOMAIN a.cache \ a.dirty : a.cache[o] = a.kv[o]
    BY DEF Alike
  <2>2. RunSound(a)
    BY <1>2
  <2>3. HasRun(a, reads, objs, writes, x)
    BY <2>2, InTxIsSound
  <2> QED BY <2>1, <2>3 DEF HasRun
<1>4. /\ RunSound(z) /\ z.kv = b.kv /\ z.dirty = b.dirty \cup objs
      /\ \A o \in Objects : SizeOf(z, o) = IF o \in objs THEN writes[o] ELSE SizeOf(b, o)
      /\ z.counts.sets = b.counts.sets /\ z.net = b.net + NetOf(b, writes, objs)
      /\ z.charged = b.charged + ReadCost(nb, gb) + pb
      /\ nb \in Nat /\ gb \in Nat /\ pb \in Int
  <2>1. RunSound(b)
    BY <1>2
  <2>2. HasRun(b, reads, objs, writes, z)
    BY <1>1, <2>1, InTxIsSound
  <2> QED BY <2>2 DEF HasRun
<1> HIDE DEF ma, mb, na, nb, ga, gb, pa, pb
<1>5. /\ RunSound(y) /\ y.dirty = {} /\ DOMAIN y.cache = {}
      /\ \A o \in Objects : y.kv[o] = IF o \in z.dirty THEN z.cache[o] ELSE z.kv[o]
      /\ y.counts.sets = z.counts.sets + Cardinality(z.dirty)
      /\ y.net = z.net /\ y.charged = z.charged
  <2>1. RunSound(z) /\ y = FlushTx(z)
    BY <1>1, <1>4
  <2> QED BY <2>1, FlushIsSound
<1>6. z.dirty = objs /\ IsFiniteSet(objs) /\ Cardinality(objs) \in Nat
  BY <1>4, WiringFacts, FS_Subset, FS_CardinalityType DEF Alike
<1>7. \A o \in Objects : SizeOf(b, o) = b.kv[o] /\ SizeOf(a, o) = b.kv[o]
  BY DEF Alike, SizeOf
<1>8. \A o \in Objects : SizeOf(x, o) = y.kv[o]
  <2> SUFFICES ASSUME NEW o \in Objects PROVE SizeOf(x, o) = y.kv[o]
    OBVIOUS
  <2>1. CASE o \in objs
    <3>1. o \in DOMAIN z.cache
      BY <1>4, <1>6, <2>1 DEF RunSound
    <3>2. z.cache[o] = writes[o]
      BY <1>4, <2>1, <3>1 DEF SizeOf
    <3> QED BY <1>3, <1>5, <1>6, <2>1, <3>2
  <2>2. CASE o \notin objs
    BY <1>3, <1>4, <1>5, <1>6, <1>7, <2>2
  <2> QED BY <2>1, <2>2
<1>9. x.net = y.net
  <2> DEFINE f == [o \in objs |-> writes[o] - SizeOf(a, o)]
             g == [o \in objs |-> writes[o] - SizeOf(b, o)]
  <2>1. f = g
    BY <1>7
  <2>2. NetOf(a, writes, objs) = NetOf(b, writes, objs)
    BY <2>1 DEF NetOf
  <2> QED BY <1>3, <1>4, <1>5, <2>2 DEF Alike
<1>10. na <= nb /\ ga <= gb
  <2>1. ma \subseteq mb /\ mb \subseteq Objects /\ IsFiniteSet(mb) /\ ma \subseteq Objects
    BY WiringFacts, FS_Subset DEF ma, mb, Missed, Alike
  <2>2. na <= nb
    BY <2>1, FS_Subset DEF na, nb
  <2> DEFINE f == [o \in ma |-> a.kv[o]]
             g == [o \in mb |-> b.kv[o]]
             h == [o \in mb |-> IF o \in ma THEN f[o] ELSE 0]
  <2>3. \A o \in ma : f[o] = b.kv[o] /\ f[o] \in Int
    <3>1. \A o \in ma : SizeOf(a, o) = a.kv[o]
      BY DEF SizeOf, ma, Missed
    <3>2. b.kv \in [Objects -> Nat]
      BY <1>2 DEF RunSound
    <3> QED BY <1>7, <2>1, <3>1, <3>2
  <2>4. \A o \in mb : g[o] = b.kv[o] /\ g[o] \in Nat
    BY <1>2, <2>1 DEF RunSound
  <2>5. \A o \in mb : h[o] = IF o \in ma THEN f[o] ELSE 0
    OBVIOUS
  <2>6. ga = SumFunctionOnSet(f, ma) /\ gb = SumFunctionOnSet(g, mb)
    BY DEF ga, gb, BytesOf
  <2> HIDE DEF f, g, h
  <2>7. SumFunctionOnSet(f, ma) = SumFunctionOnSet(h, mb)
    BY <2>1, <2>3, <2>5, SumOfPart
  <2>8. \A o \in mb : h[o] \in Int /\ g[o] \in Int /\ h[o] <= g[o]
    BY <2>3, <2>4, <2>5
  <2>9. SumFunctionOnSet(h, mb) <= SumFunctionOnSet(g, mb)
    BY <2>1, <2>8, SumAtMost
  <2> QED BY <2>2, <2>6, <2>7, <2>9
<1>11. pa <= pb
  <2> DEFINE f == [o \in objs |-> SetCharge(writes[o]) -
                      (IF o \in a.dirty THEN SetCharge(a.cache[o]) ELSE 0)]
             g == [o \in objs |-> SetCharge(writes[o]) -
                      (IF o \in b.dirty THEN SetCharge(b.cache[o]) ELSE 0)]
  <2>1. \A o \in objs : o \in a.dirty => SetCharge(a.cache[o]) \in Nat
    BY <1>2, WiringFacts DEF RunSound
  <2>2. \A o \in objs : SetCharge(writes[o]) \in Nat
    BY WiringFacts
  <2>3. b.dirty = {}
    BY DEF Alike
  <2>4. \A o \in objs : /\ f[o] = SetCharge(writes[o]) - (IF o \in a.dirty THEN SetCharge(a.cache[o]) ELSE 0)
                        /\ g[o] = SetCharge(writes[o]) - 0
    BY <2>3
  <2> HIDE DEF f, g
  <2>5. \A o \in objs : f[o] \in Int /\ g[o] \in Int /\ f[o] <= g[o]
    BY <2>1, <2>2, <2>4
  <2>6. SumFunctionOnSet(f, objs) <= SumFunctionOnSet(g, objs)
    BY <1>6, <2>5, SumAtMost
  <2>7. pa = SumFunctionOnSet(f, objs) /\ pb = SumFunctionOnSet(g, objs)
    BY DEF pa, pb, PaidOf, f, g
  <2> QED BY <2>6, <2>7
<1>12. x.charged <= y.charged
  <2>1. a.charged \in Int /\ b.charged \in Int /\ a.charged <= b.charged
    BY <1>2, ChargesAreNumbers DEF Alike
  <2> DEFINE u == na * ReadFlat
             v == nb * ReadFlat
             s == ga * ReadByte
             t == gb * ReadByte
  <2>2. u <= v /\ s <= t
    BY <1>3, <1>4, <1>10, WiringFacts, MoreCostsMore
  <2>3. u \in Int /\ v \in Int /\ s \in Int /\ t \in Int
    BY <1>3, <1>4, WiringFacts
  <2>4. x.charged = a.charged + (u + s) + pa /\ y.charged = b.charged + (v + t) + pb
    BY <1>3, <1>4, <1>5 DEF ReadCost
  <2>5. pa \in Int /\ pb \in Int
    BY <1>3, <1>4
  <2> HIDE DEF u, v, s, t
  <2> QED BY <1>11, <2>1, <2>2, <2>3, <2>4, <2>5
<1>13. x.counts.sets + Cardinality(x.dirty) <= y.counts.sets
  <2>1. /\ a.counts.sets \in Nat /\ b.counts.sets \in Nat
        /\ a.counts.sets + Cardinality(a.dirty) <= b.counts.sets
    BY <1>2 DEF RunSound, Alike
  <2>2. Cardinality(a.dirty \cup objs) <= Cardinality(a.dirty) + Cardinality(objs)
        /\ Cardinality(a.dirty \cup objs) \in Nat
    <3>1. IsFiniteSet(a.dirty)
      BY <1>2, ChargesAreNumbers
    <3>2. /\ IsFiniteSet(a.dirty \cup objs) /\ IsFiniteSet(a.dirty \cap objs)
          /\ Cardinality(a.dirty \cup objs) = Cardinality(a.dirty) + Cardinality(objs)
                                               - Cardinality(a.dirty \cap objs)
      BY <3>1, <1>6, FS_Union, FS_Intersection
    <3>3. Cardinality(a.dirty \cap objs) \in Nat /\ Cardinality(a.dirty) \in Nat
          /\ Cardinality(a.dirty \cup objs) \in Nat
      BY <3>1, <3>2, FS_CardinalityType
    <3> QED BY <3>2, <3>3, <1>6
  <2>3. Cardinality(a.dirty) \in Nat
    BY <1>2, ChargesAreNumbers
  <2>4. y.counts.sets = b.counts.sets + Cardinality(objs)
    BY <1>4, <1>5, <1>6
  <2>5. x.counts.sets = a.counts.sets /\ x.dirty = a.dirty \cup objs
    BY <1>3
  <2> QED BY <1>6, <2>1, <2>2, <2>3, <2>4, <2>5
<1> QED BY <1>3, <1>5, <1>8, <1>9, <1>12, <1>13 DEF Alike

\* The one transaction commits.
LEMMA CommitKeepsThemAlike ==
    ASSUME NEW a, NEW b, Alike(a, b), NEW x, x = FlushTx(a)
    PROVE  Alike(x, b)
<1>1. RunSound(a) /\ RunSound(b)
  BY DEF Alike
<1>2. /\ RunSound(x) /\ x.dirty = {} /\ DOMAIN x.cache = {}
      /\ \A o \in Objects : x.kv[o] = IF o \in a.dirty THEN a.cache[o] ELSE a.kv[o]
      /\ x.counts.sets = a.counts.sets + Cardinality(a.dirty)
      /\ x.net = a.net /\ x.charged = a.charged
  BY <1>1, FlushIsSound
<1>3. \A o \in Objects : SizeOf(x, o) = b.kv[o]
  <2> SUFFICES ASSUME NEW o \in Objects PROVE SizeOf(x, o) = b.kv[o]
    OBVIOUS
  <2>1. SizeOf(x, o) = x.kv[o] /\ SizeOf(a, o) = b.kv[o]
    BY <1>2 DEF SizeOf, Alike
  <2>2. o \in a.dirty => o \in DOMAIN a.cache
    BY <1>1 DEF RunSound
  <2>3. o \in DOMAIN a.cache \ a.dirty => a.cache[o] = a.kv[o]
    BY DEF Alike
  <2> QED BY <1>2, <2>1, <2>2, <2>3 DEF SizeOf
<1>4. x.counts.sets + Cardinality(x.dirty) <= b.counts.sets
  <2>1. Cardinality(x.dirty) = 0
    BY <1>2, FS_EmptySet
  <2>2. a.counts.sets \in Nat /\ Cardinality(a.dirty) \in Nat
    BY <1>1, ChargesAreNumbers DEF RunSound
  <2> QED BY <1>2, <2>1, <2>2 DEF Alike
<1>5. \A o \in DOMAIN x.cache \ x.dirty : x.cache[o] = x.kv[o]
  BY <1>2
<1>6. b.dirty = {} /\ DOMAIN b.cache = {} /\ x.net = b.net /\ x.charged <= b.charged
  BY <1>2 DEF Alike
<1> QED BY <1>1, <1>2, <1>3, <1>4, <1>5, <1>6 DEF Alike

\* A run that starts has counted nothing.
LEMMA NewRunIsSound ==
    ASSUME NEW kv \in [Objects -> Nat], NEW r, r = NewRun(kv)
    PROVE  /\ RunSound(r)
           /\ r.kv = kv /\ r.dirty = {} /\ DOMAIN r.cache = {} /\ r.net = 0 /\ r.charged = 0
           /\ r.counts.gets = 0 /\ r.counts.sets = 0
           /\ r.counts.getBytes = 0 /\ r.counts.setBytes = 0
<1>1. /\ r = [kv |-> kv, cache |-> NoCache, dirty |-> {}, counts |-> NoCounts,
              net |-> 0, charged |-> 0]
      /\ DOMAIN NoCache = {}
  BY DEF NewRun, NoCache
<1>2. /\ r.kv = kv /\ r.cache = NoCache /\ r.dirty = {} /\ r.counts = NoCounts
      /\ r.net = 0 /\ r.charged = 0
  BY <1>1
<1>3. /\ NoCounts.gets = 0 /\ NoCounts.sets = 0 /\ NoCounts.getBytes = 0 /\ NoCounts.setBytes = 0
      /\ NoCounts = [gets |-> NoCounts.gets, getBytes |-> NoCounts.getBytes,
                     sets |-> NoCounts.sets, setBytes |-> NoCounts.setBytes]
  BY DEF NoCounts
<1>4. SumFunctionOnSet(ToFlush(r), Objects) = 0
  <2>1. \A o \in Objects : ToFlush(r)[o] = 0
    BY <1>2 DEF ToFlush
  <2> QED BY <2>1, WiringFacts, SumOfZeros
<1>5. PriceOf(r.counts) = 0
  BY <1>2, <1>3, WiringFacts DEF PriceOf
<1>6. r = [kv |-> r.kv, cache |-> r.cache, dirty |-> r.dirty, counts |-> r.counts,
           net |-> r.net, charged |-> r.charged]
  BY <1>1, <1>2
<1>7. RunSound(r)
  <2>1. r.charged = PriceOf(r.counts) + SumFunctionOnSet(ToFlush(r), Objects)
    BY <1>2, <1>4, <1>5
  <2> HIDE DEF NoCounts
  <2> QED BY <1>1, <1>2, <1>3, <1>6, <2>1 DEF RunSound
<1> QED BY <1>1, <1>2, <1>3, <1>7

\* The gas of what is committed.
LEMMA CommittedIsPriced ==
    ASSUME NEW r, RunSound(r), r.dirty = {}
    PROVE  r.charged = PriceOf(r.counts) /\ r.charged = chainStoreGas(r.counts)
<1>1. SumFunctionOnSet(ToFlush(r), Objects) = 0
  <2>1. \A o \in Objects : ToFlush(r)[o] = 0
    BY DEF ToFlush
  <2> QED BY <2>1, WiringFacts, SumOfZeros
<1>2. PriceOf(r.counts) \in Int
  BY WiringFacts DEF RunSound, PriceOf
<1>3. r.charged = PriceOf(r.counts)
  BY <1>1, <1>2 DEF RunSound
<1>4. r.counts.gets = 0 /\ r.counts.sets = 0 => PriceOf(r.counts) = 0
  <2> SUFFICES ASSUME r.counts.gets = 0, r.counts.sets = 0 PROVE PriceOf(r.counts) = 0
    OBVIOUS
  <2>1. r.counts.getBytes = 0 /\ r.counts.setBytes = 0
    BY DEF RunSound
  <2> QED BY <2>1, WiringFacts DEF PriceOf
<1> QED BY <1>3, <1>4 DEF chainStoreGas, PriceOf

\* Taking the baseline out of the operation.
LEMMA OperationIsPriced ==
    ASSUME NEW kv \in [Objects -> Nat], NEW reads \in SUBSET Objects,
           NEW loads \in SUBSET reads, NEW objs \in SUBSET Objects,
           NEW writes \in [objs -> Nat], NEW b, NEW t,
           b = FlushTx(InTx(NewRun(kv), loads, NoCache)),
           t = FlushTx(InTx(NewRun(kv), reads, writes)),
           NEW d, d = [f \in DOMAIN NoCounts |-> t.counts[f] - b.counts[f]]
    PROVE  chainStoreGas(d) = t.charged - b.charged
<1>1. PICK r : r = NewRun(kv)
  OBVIOUS
<1>2. /\ RunSound(r) /\ r.kv = kv /\ r.dirty = {} /\ DOMAIN r.cache = {}
      /\ r.counts.gets = 0 /\ r.counts.sets = 0 /\ r.counts.getBytes = 0
  BY <1>1, NewRunIsSound
<1>3. PICK p : p = InTx(r, loads, NoCache)
  OBVIOUS
<1>4. PICK q : q = InTx(r, reads, writes)
  OBVIOUS
<1>5. Missed(r, loads) = loads /\ Missed(r, reads) = reads
  BY <1>2 DEF Missed
<1>6. HasRun(r, loads, {}, NoCache, p)
  <2>1. NoCache \in [{} -> Nat] /\ loads \in SUBSET Objects /\ {} \in SUBSET Objects
    BY DEF NoCache
  <2>2. RunSound(r)
    BY <1>2
  <2> QED BY <1>3, <2>1, <2>2, InTxIsSound
<1>7. HasRun(r, reads, objs, writes, q)
  <2>1. RunSound(r)
    BY <1>2
  <2> QED BY <1>4, <2>1, InTxIsSound
<1>8. /\ RunSound(p) /\ p.dirty = {}
      /\ p.counts.gets = Cardinality(loads) /\ p.counts.getBytes = BytesOf(r, loads)
      /\ p.counts.sets = 0
  BY <1>2, <1>5, <1>6 DEF HasRun
<1>9. /\ RunSound(q)
      /\ q.counts.gets = Cardinality(reads) /\ q.counts.getBytes = BytesOf(r, reads)
  BY <1>2, <1>5, <1>7 DEF HasRun
<1>10. b = FlushTx(p) /\ t = FlushTx(q)
  BY <1>1, <1>3, <1>4
<1>11. /\ RunSound(b) /\ b.dirty = {} /\ b.counts.gets = p.counts.gets
       /\ b.counts.getBytes = p.counts.getBytes
       /\ b.counts.sets = p.counts.sets + Cardinality(p.dirty)
  <2>1. RunSound(p)
    BY <1>8
  <2> QED BY <1>10, <2>1, FlushIsSound
<1>12. /\ RunSound(t) /\ t.dirty = {} /\ t.counts.gets = q.counts.gets
       /\ t.counts.getBytes = q.counts.getBytes
  <2>1. RunSound(q)
    BY <1>9
  <2> QED BY <1>10, <2>1, FlushIsSound
<1>13. b.counts.sets = 0 /\ b.counts.setBytes = 0
  <2>1. Cardinality(p.dirty) = 0
    BY <1>8, FS_EmptySet
  <2> QED BY <1>8, <1>11, <2>1 DEF RunSound
<1>14. /\ d.gets = t.counts.gets - b.counts.gets
       /\ d.getBytes = t.counts.getBytes - b.counts.getBytes
       /\ d.sets = t.counts.sets - b.counts.sets
       /\ d.setBytes = t.counts.setBytes - b.counts.setBytes
  <2>1. DOMAIN NoCounts = {"gets", "getBytes", "sets", "setBytes"}
    BY DEF NoCounts
  <2> QED BY <2>1
<1> DEFINE g == b.counts.gets
           gb == b.counts.getBytes
           dg == d.gets
           db == d.getBytes
           ds == d.sets
           dsb == d.setBytes
<1>15. /\ {b.counts.gets, b.counts.getBytes, b.counts.sets, b.counts.setBytes} \subseteq Nat
       /\ {t.counts.gets, t.counts.getBytes, t.counts.sets, t.counts.setBytes} \subseteq Nat
       /\ (t.counts.sets = 0 => t.counts.setBytes = 0)
  BY <1>11, <1>12 DEF RunSound
<1>16. /\ g \in Int /\ gb \in Int /\ dg \in Int /\ db \in Int /\ ds \in Int /\ dsb \in Int
       /\ t.counts.gets = g + dg /\ t.counts.getBytes = gb + db
       /\ t.counts.sets = 0 + ds /\ t.counts.setBytes = 0 + dsb
       /\ (ds = 0 => dsb = 0)
  BY <1>13, <1>14, <1>15
<1>17. dg = 0 => db = 0
  <2> SUFFICES ASSUME dg = 0 PROVE db = 0
    OBVIOUS
  <2>1. Cardinality(loads) = Cardinality(reads)
    BY <1>8, <1>9, <1>11, <1>12, <1>14, <1>15
  <2>2. loads = reads
    <3>1. IsFiniteSet(reads)
      BY WiringFacts, FS_Subset
    <3> QED BY <2>1, <3>1, FS_Subset
  <2>3. b.counts.getBytes = t.counts.getBytes
    BY <1>8, <1>9, <1>11, <1>12, <2>2
  <2> QED BY <1>14, <1>15, <2>3
<1> HIDE DEF g, gb, dg, db, ds, dsb
<1>18. t.charged = PriceOf(t.counts) /\ b.charged = PriceOf(b.counts)
  BY <1>11, <1>12, CommittedIsPriced
<1>19. PriceOf(t.counts) = PriceOf(b.counts) + PriceOf(d)
  <2>1. ReadFlat \in Int /\ ReadByte \in Int /\ SetFlat \in Int /\ WriteByte \in Int
    BY WiringFacts
  <2>2. (g + dg) * ReadFlat + (gb + db) * ReadByte + (0 + ds) * SetFlat + (0 + dsb) * WriteByte
        = (g * ReadFlat + gb * ReadByte + 0 * SetFlat + 0 * WriteByte)
          + (dg * ReadFlat + db * ReadByte + ds * SetFlat + dsb * WriteByte)
    BY <1>16, <2>1, PriceArithmetic
  <2>3. PriceOf(t.counts) = (g + dg) * ReadFlat + (gb + db) * ReadByte
                              + (0 + ds) * SetFlat + (0 + dsb) * WriteByte
    BY <1>16 DEF PriceOf
  <2>4. PriceOf(b.counts) = g * ReadFlat + gb * ReadByte + 0 * SetFlat + 0 * WriteByte
    BY <1>13 DEF PriceOf, g, gb
  <2>5. PriceOf(d) = dg * ReadFlat + db * ReadByte + ds * SetFlat + dsb * WriteByte
    BY DEF PriceOf, dg, db, ds, dsb
  <2> QED BY <2>2, <2>3, <2>4, <2>5
<1>20. PriceOf(b.counts) \in Int /\ PriceOf(d) \in Int
  <2>1. PriceOf(d) = dg * ReadFlat + db * ReadByte + ds * SetFlat + dsb * WriteByte
    BY DEF PriceOf, dg, db, ds, dsb
  <2> QED BY <1>15, <1>16, <2>1, WiringFacts DEF PriceOf
<1>21. chainStoreGas(d) = PriceOf(d)
  <2>1. dg = 0 /\ ds = 0 => PriceOf(d) = 0
    <3> SUFFICES ASSUME dg = 0, ds = 0 PROVE PriceOf(d) = 0
      OBVIOUS
    <3>1. PriceOf(d) = dg * ReadFlat + db * ReadByte + ds * SetFlat + dsb * WriteByte
      BY DEF PriceOf, dg, db, ds, dsb
    <3>2. db = 0 /\ dsb = 0
      BY <1>16, <1>17
    <3> QED BY <3>1, <3>2, WiringFacts
  <2> QED BY <2>1 DEF chainStoreGas, PriceOf, dg, ds
<1> QED BY <1>18, <1>19, <1>20, <1>21

WiringInv ==
    /\ DOMAIN shape = BuildShapes
    /\ Alike(shape["one_tx"], shape["tx_each"])
    /\ op # NoCache => chainStoreGas(opDelta) = op["op_touch"].charged - op["op_base"].charged

LEMMA FreshShapesMatch ==
  ASSUME shape = [s \in BuildShapes |-> NewRun([o \in Objects |-> 0])], op = NoCache
  PROVE  WiringInv
<1> DEFINE kv == [o \in Objects |-> 0]
<1>1. kv \in [Objects -> Nat]
  OBVIOUS
<1>2. PICK r : r = NewRun(kv)
  OBVIOUS
<1>3. shape["one_tx"] = r /\ shape["tx_each"] = r /\ DOMAIN shape = BuildShapes
  BY <1>2 DEF BuildShapes
<1>4. /\ RunSound(r) /\ r.kv = kv /\ r.dirty = {} /\ DOMAIN r.cache = {}
      /\ r.net = 0 /\ r.charged = 0 /\ r.counts.sets = 0
  <2> HIDE DEF kv
  <2> QED BY <1>1, <1>2, NewRunIsSound
<1>5. Alike(r, r)
  <2>1. Cardinality(r.dirty) = 0
    BY <1>4, FS_EmptySet
  <2> QED BY <1>4, <2>1 DEF Alike, SizeOf
<1> QED BY <1>3, <1>5 DEF WiringInv

LEMMA WiringStarts == WiringInit => WiringInv
BY FreshShapesMatch DEF WiringInit

LEMMA WiringIsKept == WiringInv /\ [WiringNext]_wiringVars => WiringInv'
<1> SUFFICES ASSUME WiringInv, [WiringNext]_wiringVars PROVE WiringInv'
  OBVIOUS
<1> DEFINE a == shape["one_tx"]
           b == shape["tx_each"]
<1>1. Alike(a, b) /\ DOMAIN shape = BuildShapes
  BY DEF WiringInv
<1>2. CASE CommitBatch
  <2>1. PICK x : x = FlushTx(a)
    OBVIOUS
  <2>2. shape'["one_tx"] = x /\ shape'["tx_each"] = b /\ DOMAIN shape' = BuildShapes
    BY <1>1, <1>2, <2>1 DEF CommitBatch, BuildShapes
  <2> HIDE DEF a, b
  <2>3. Alike(x, b)
    BY <1>1, <2>1, CommitKeepsThemAlike
  <2>4. op' = op
    BY <1>2 DEF CommitBatch
  <2>5. (op # NoCache => chainStoreGas(opDelta)
                           = op["op_touch"].charged - op["op_base"].charged)'
    BY <2>4 DEF WiringInv, opDelta, chainStoreGas
  <2>6. Alike(shape["one_tx"], shape["tx_each"])'
    BY <2>2, <2>3
  <2> QED BY <2>2, <2>5, <2>6 DEF WiringInv
<1>3. ASSUME NEW reads \in SUBSET Objects, NEW writes \in Writes, WireCall(reads, writes)
      PROVE  WiringInv'
  <2>1. PICK objs \in SUBSET Objects : writes \in [objs -> Nat]
    BY DEF Writes
  <2>2. PICK x : x = InTx(a, reads, writes)
    OBVIOUS
  <2>3. PICK y : y = FlushTx(InTx(b, reads, writes))
    OBVIOUS
  <2>4. shape'["one_tx"] = x /\ shape'["tx_each"] = y /\ DOMAIN shape' = BuildShapes
    BY <1>3, <2>2, <2>3 DEF WireCall, BuildShapes
  <2> HIDE DEF a, b
  <2>5. Alike(x, y)
    BY <1>1, <2>1, <2>2, <2>3, CallKeepsThemAlike
  <2>6. op' = NoCache
    BY <1>3 DEF WireCall
  <2>7. Alike(shape["one_tx"], shape["tx_each"])'
    BY <2>4, <2>5
  <2> QED BY <2>4, <2>6, <2>7 DEF WiringInv
<1>4. ASSUME NEW reads \in SUBSET Objects, NEW writes \in Writes, NEW loads \in SUBSET reads,
             WireOp(loads, reads, writes)
      PROVE  WiringInv'
  <2>1. PICK objs \in SUBSET Objects : writes \in [objs -> Nat]
    BY DEF Writes
  <2>2. a.kv \in [Objects -> Nat]
    BY <1>1 DEF Alike, RunSound
  <2> DEFINE kv == a.kv
  <2>3. PICK s : s = FlushTx(InTx(NewRun(kv), loads, NoCache))
    OBVIOUS
  <2>4. PICK t : t = FlushTx(InTx(NewRun(kv), reads, writes))
    OBVIOUS
  <2>5. op' = [op_base |-> s, op_touch |-> t] /\ shape' = shape
    BY <1>4, <2>3, <2>4 DEF WireOp
  <2>6. PICK d : d = [f \in DOMAIN NoCounts |-> t.counts[f] - s.counts[f]]
    OBVIOUS
  <2> HIDE DEF a, b, kv
  <2>7. chainStoreGas(d) = t.charged - s.charged
    <3>1. kv \in [Objects -> Nat]
      BY <2>2 DEF kv
    <3>2. \A B, T, D :
             /\ B = FlushTx(InTx(NewRun(kv), loads, NoCache))
             /\ T = FlushTx(InTx(NewRun(kv), reads, writes))
             /\ D = [f \in DOMAIN NoCounts |-> T.counts[f] - B.counts[f]]
             => chainStoreGas(D) = T.charged - B.charged
      BY <2>1, <3>1, OperationIsPriced
    <3> QED BY <2>3, <2>4, <2>6, <3>2
  <2>8. op'["op_base"] = s /\ op'["op_touch"] = t
    BY <2>5
  <2>9. opDelta' = d
    BY <2>6, <2>8 DEF opDelta
  <2>10. chainStoreGas(opDelta)' = chainStoreGas(d)
    BY <2>9 DEF chainStoreGas
  <2>11. chainStoreGas(opDelta)' = op'["op_touch"].charged - op'["op_base"].charged
    BY <2>7, <2>8, <2>10
  <2>12. Alike(shape["one_tx"], shape["tx_each"])'
    BY <1>1, <2>5 DEF a, b
  <2> QED BY <1>1, <2>5, <2>11, <2>12 DEF WiringInv
<1>5. CASE UNCHANGED wiringVars
  <2>1. shape' = shape /\ op' = op
    BY <1>5 DEF wiringVars
  <2>2. Alike(shape["one_tx"], shape["tx_each"])'
    BY <1>1, <2>1
  <2>3. (op # NoCache => chainStoreGas(opDelta)
                           = op["op_touch"].charged - op["op_base"].charged)'
    BY <2>1 DEF WiringInv, opDelta, chainStoreGas
  <2> QED BY <1>1, <2>1, <2>2, <2>3 DEF WiringInv
<1> QED BY <1>2, <1>3, <1>4, <1>5 DEF WiringNext

LEMMA WiringSaysIt == WiringInv => StoreGasMatches
<1> SUFFICES ASSUME WiringInv PROVE StoreGasMatches
  OBVIOUS
<1> DEFINE a == shape["one_tx"]
           b == shape["tx_each"]
<1>1. Alike(a, b)
  BY DEF WiringInv
<1> HIDE DEF a, b
<1>2. RunSound(a) /\ RunSound(b) /\ a.net = b.net /\ a.charged <= b.charged
  BY <1>1 DEF Alike
<1>3. /\ a.dirty = {} => chainStoreGas(a.counts) = a.charged
      /\ b.dirty = {} => chainStoreGas(b.counts) = b.charged
  BY <1>2, CommittedIsPriced
<1>4. ASSUME a.dirty = {}
      PROVE  a.kv = b.kv /\ a.counts.sets <= b.counts.sets
  <2>1. a.kv \in [Objects -> Nat] /\ b.kv \in [Objects -> Nat]
    BY <1>2 DEF RunSound
  <2>2. \A o \in Objects : a.kv[o] = b.kv[o]
    BY <1>1, <1>4 DEF Alike, SizeOf
  <2>3. Cardinality(a.dirty) = 0
    BY <1>4, FS_EmptySet
  <2>4. a.counts.sets \in Nat
    BY <1>2 DEF RunSound
  <2>5. a.counts.sets + 0 <= b.counts.sets
    BY <1>1, <2>3 DEF Alike
  <2> QED BY <2>1, <2>2, <2>4, <2>5
<1>5. \A s \in BuildShapes : s = "one_tx" \/ s = "tx_each"
  BY DEF BuildShapes
<1>6. \A s \in BuildShapes : shape[s].dirty = {} =>
          chainStoreGas(shape[s].counts) = shape[s].charged
  BY <1>3, <1>5 DEF a, b
<1>7. op # NoCache => chainStoreGas(opDelta) = op["op_touch"].charged - op["op_base"].charged
  BY DEF WiringInv
<1> QED BY <1>2, <1>4, <1>6, <1>7 DEF StoreGasMatches, a, b

\* For any number of objects, sizes and writes and any gas schedule: the counters below the
\* cache, priced, come to what a chain charges at the cache, for a build and, its baseline
\* taken out, for an operation; one transaction leaves the same store for the same deposit
\* as one transaction each, and never for more gas.  Of wireRun, wireOpRun, countStore and
\* chainStoreGas.
THEOREM StoreGasDoesMatch == WiringSpec => []StoreGasMatches
<1>1. WiringInit => WiringInv
  BY WiringStarts
<1>2. WiringInv /\ [WiringNext]_wiringVars => WiringInv'
  BY WiringIsKept
<1>3. WiringInv => StoreGasMatches
  BY WiringSaysIt
<1> QED BY <1>1, <1>2, <1>3, PTL DEF WiringSpec
=============================================================================
