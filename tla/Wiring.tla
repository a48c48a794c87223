------------------------------- MODULE Wiring -------------------------------
(***************************************************************************)
(* The wiring suite of gnobench (src/gnobench/wiring.go, countstore.go,    *)
(* chaingas.go): the same writes to a realm in one transaction and in one  *)
(* transaction each, over a store that counts what it is asked, and then   *)
(* one operation on what was built.  A chain charges where a transaction   *)
(* reads and writes its cache; the counters sit below the cache; the two   *)
(* are said to come to the same gas.                                       *)
(***************************************************************************)
EXTENDS Integers, FiniteSets, Functions

CONSTANTS
    Objects,        \* the persisted objects of the realm
    MaxSize,        \* bytes of an object; 0 is one that is not there
    MaxCalls,       \* n, the writes
    ReadFlat, ReadByte, SetFlat, WriteByte   \* the gas schedule of the chain

ASSUME WiringAssumption ==
    /\ IsFiniteSet(Objects)
    /\ {MaxSize, MaxCalls, ReadFlat, ReadByte, SetFlat, WriteByte} \subseteq Nat

VARIABLES
    shape,          \* ["one_tx", "tx_each" -> run]
    calls,          \* writes made so far, by both
    op              \* ["op_base", "op_touch" -> run]: the one transaction measured after

wiringVars == <<shape, calls, op>>

BuildShapes == {"one_tx", "tx_each"}
OpShapes == {"op_base", "op_touch"}

NoCounts == [gets |-> 0, getBytes |-> 0, sets |-> 0, setBytes |-> 0]
NoCache == [o \in {} |-> 0]
\* A run: the committed store, the cache of the open transaction and what is dirty in
\* it, the counters, the net bytes of the realm, and what a chain would have charged.
NewRun(kv) == [kv |-> kv, cache |-> NoCache, dirty |-> {}, counts |-> NoCounts,
               net |-> 0, charged |-> 0]

WiringInit ==
    /\ shape = [s \in BuildShapes |-> NewRun([o \in Objects |-> 0])]
    /\ calls = 0 /\ op = NoCache
-----------------------------------------------------------------------------
\* Sum of f over a set of objects.
Sum(S, f(_)) == FoldFunctionOnSet(+, 0, [o \in S |-> f(o)], S)

\* Reads of one call: what the cache of the transaction has costs nothing; the rest
\* reaches the counter, and the chain charges it.
LoadReads(run, reads) ==
    LET missed == reads \ DOMAIN run.cache
        bytes == Sum(missed, LAMBDA o : run.kv[o])
    IN  [run EXCEPT
           !.cache = [o \in DOMAIN @ \cup missed |-> IF o \in missed THEN run.kv[o] ELSE @[o]],
           !.counts.gets = @ + Cardinality(missed), !.counts.getBytes = @ + bytes,
           !.charged = @ + Cardinality(missed) * ReadFlat + bytes * ReadByte]

SizeOf(run, o) == IF o \in DOMAIN run.cache THEN run.cache[o] ELSE run.kv[o]
SetCharge(size) == SetFlat + WriteByte * size

\* The objects a call leaves modified, written to the cache when it returns, and those it
\* orphans, deleted there (0 bytes, at the flat price of a write): a chain takes back what
\* it had charged for the same key in this transaction.
StoreWrites(run, writes) ==
    LET objs == DOMAIN writes
    IN  [run EXCEPT
           !.net = @ + Sum(objs, LAMBDA o : writes[o] - SizeOf(run, o)),
           !.cache = [o \in DOMAIN @ \cup objs |-> IF o \in objs THEN writes[o] ELSE @[o]],
           !.dirty = @ \cup objs,
           !.charged = @ + Sum(objs, LAMBDA o : SetCharge(writes[o]) -
                                 (IF o \in run.dirty THEN SetCharge(run.cache[o]) ELSE 0))]

\* Plausible bug: CacheWrap of the store inside, so the flush bypasses the counter.
FlushInside(run) ==
    [run EXCEPT !.kv = [o \in Objects |-> IF o \in run.dirty THEN run.cache[o] ELSE @[o]],
                !.cache = NoCache, !.dirty = {}]
\* txs.Write and tcw.Write: one set of each dirty key, with its last value, or one delete;
\* both are in "sets", their price is one.  The next transaction starts with nothing cached.
FlushTx(run) ==
    [run EXCEPT !.kv = [o \in Objects |-> IF o \in run.dirty THEN run.cache[o] ELSE @[o]],
                !.cache = NoCache, !.dirty = {},
                !.counts.sets = @ + Cardinality(run.dirty),
                !.counts.setBytes = @ + Sum(run.dirty, LAMBDA o : run.cache[o])]

\* One wireTx: some calls, then the commit.
InTx(run, reads, writes) == StoreWrites(LoadReads(run, reads), writes)

\* What is modified or orphaned was loaded, unless it is new.
Touches(run, reads, writes) ==
    \A o \in DOMAIN writes : IF SizeOf(run, o) = 0 THEN writes[o] # 0 ELSE o \in reads

\* wireRun: the next write, in the transaction that is open or in one of its own.
WireCall(reads, writes) ==
    /\ calls < MaxCalls /\ op = NoCache /\ DOMAIN writes # {}
    /\ Touches(shape["one_tx"], reads, writes)
    /\ shape' = [one_tx |-> InTx(shape["one_tx"], reads, writes),
                 tx_each |-> FlushTx(InTx(shape["tx_each"], reads, writes))]
    /\ calls' = calls + 1 /\ UNCHANGED op

\* The n writes are made: the one transaction commits.
CommitBatch ==
    /\ calls = MaxCalls /\ shape["one_tx"].dirty # {}
    /\ shape' = [shape EXCEPT !["one_tx"] = FlushTx(@)]
    /\ UNCHANGED <<calls, op>>

\* wireOpRun: on what was built in one transaction, one more, and the baseline that
\* loads the realm and does not touch the container.
WireOp(base, reads, writes) ==
    /\ calls = MaxCalls /\ shape["one_tx"].dirty = {} /\ op = NoCache
    /\ base \subseteq reads
    /\ LET fresh == NewRun(shape["one_tx"].kv)
       IN  /\ Touches(fresh, reads, writes)
           /\ op' = [op_base |-> FlushTx(InTx(fresh, base, NoCache)),
                     op_touch |-> FlushTx(InTx(fresh, reads, writes))]
    /\ UNCHANGED <<shape, calls>>

Writes == UNION {[S -> 0 .. MaxSize] : S \in SUBSET Objects}

WiringNext ==
    \/ CommitBatch
    \/ \E reads \in SUBSET Objects, writes \in Writes :
          WireCall(reads, writes) \/ \E base \in SUBSET reads : WireOp(base, reads, writes)

WiringSpec == WiringInit /\ [][WiringNext]_wiringVars
-----------------------------------------------------------------------------
\* chainStoreGas: the price of the counters; a row without any is 0 whatever its bytes.
chainStoreGas(c) ==
    IF c.gets = 0 /\ c.sets = 0 THEN 0
    ELSE c.gets * ReadFlat + c.getBytes * ReadByte + c.sets * SetFlat + c.setBytes * WriteByte

\* wiringOpDeltas: the counters of the operation less those of its baseline.
opDelta == [f \in DOMAIN NoCounts |-> op["op_touch"].counts[f] - op["op_base"].counts[f]]

WiringTypeOK ==
    /\ calls \in 0 .. MaxCalls /\ DOMAIN shape = BuildShapes
    /\ DOMAIN op \in {{}, OpShapes}
    /\ \A s \in BuildShapes : /\ shape[s].kv \in [Objects -> 0 .. MaxSize]
                              /\ shape[s].dirty \subseteq DOMAIN shape[s].cache

\* The counters below the cache, priced, come to what a chain charges at the cache,
\* whatever is read again, written again, written over or orphaned; taking the baseline out keeps
\* it so; and the two shapes end with the same store for the same deposit, one
\* transaction never writing more than a transaction each.
StoreGasMatches ==
    /\ \A s \in BuildShapes : shape[s].dirty = {} =>
          chainStoreGas(shape[s].counts) = shape[s].charged
    /\ shape["one_tx"].net = shape["tx_each"].net
    /\ shape["one_tx"].dirty = {} =>
          /\ shape["one_tx"].kv = shape["tx_each"].kv
          /\ shape["one_tx"].counts.sets <= shape["tx_each"].counts.sets
          /\ shape["one_tx"].charged <= shape["tx_each"].charged
    /\ op # NoCache => chainStoreGas(opDelta) = op["op_touch"].charged - op["op_base"].charged
=============================================================================
