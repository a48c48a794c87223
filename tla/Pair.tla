-------------------------------- MODULE Pair --------------------------------
(***************************************************************************)
(* One constant-product pool as a library, p/moul/x/pair, held by a realm  *)
(* that forwards each call to it.  It differs from a pool of r/moul/x/amm  *)
(* in keeping its shares itself, in plain integers.                        *)
(*                                                                         *)
(* Each method is one action.  The tokens are as in Amm; direct transfers, *)
(* which change nothing here, are left out, and so is minOut.              *)
(***************************************************************************)
EXTENDS ConstantProduct, FiniteSets, FiniteSetsExt

CONSTANTS
    Address,   \* the addresses that call
    Amounts    \* bound: amounts callers ask for

VARIABLES
    res,      \* Pair.resA, Pair.resB
    total,    \* Pair.totalShares
    shares    \* Pair.shares: no entry in the code is 0 here

vars == <<res, total, shares>>

Init == res = <<0, 0>> /\ total = 0 /\ shares = [a \in Address |-> 0]

\* What is not in the pair is all that a caller can have.
Pullable(s, n) == n <= MaxInt - res[s]

Deposit(x, y) == IF total = 0 THEN <<x, y>> ELSE Trim(res, x, y)
SharesFor(d)  == IF total = 0 THEN d[1] ELSE Minted(res, total, d)

\* Nothing bounds the shares minted but each call's own.
AddLiquidity(a, x, y) ==
    /\ x > 0 /\ y > 0
    /\ total # 0 => Trimmable(res, x, y)
    /\ LET d == Deposit(x, y)  n == SharesFor(d) IN
       /\ d[1] > 0 /\ d[2] > 0
       /\ total # 0 => Mintable(res, total, d)
       /\ n > 0
       /\ \A s \in Side : Wrap(res[s] + d[s]) <= MaxReserve /\ Pullable(s, d[s])
       /\ res' = <<res[1] + d[1], res[2] + d[2]>>
       /\ total' = Wrap(total + n)
       /\ shares' = [shares EXCEPT ![a] = Wrap(@ + n)]

RemoveLiquidity(a, n) ==
    /\ n > 0
    /\ n <= shares[a]
    /\ n # total => \A s \in Side : Fits(n, res[s], total)
    /\ LET d == PaidOut(res, total, n) IN
       /\ d[1] > 0 /\ d[2] > 0
       /\ res' = <<res[1] - d[1], res[2] - d[2]>>
       /\ total' = Wrap(total - n)
       /\ shares' = [shares EXCEPT ![a] = @ - n]

Swap(s, x) ==
    LET in == res[s]  out == res[Other(s)] IN
    /\ Priced(x, in, out)
    /\ LET y == AmountOut(x, in, out) IN
       /\ y > 0
       /\ Pullable(s, x)
       /\ (in + x) * (out - y) >= in * out
       /\ res' = [res EXCEPT ![s] = in + x, ![Other(s)] = out - y]
    /\ UNCHANGED <<total, shares>>

Next ==
    \/ \E a \in Address, x, y \in Amounts : AddLiquidity(a, x, y)
    \/ \E a \in Address, n \in Amounts : RemoveLiquidity(a, n)
    \/ \E s \in Side, x \in Amounts : Swap(s, x)

Spec == Init /\ [][Next]_vars

-----------------------------------------------------------------------------
(* Properties. *)

\* With every reserve below its cap no integer of the pair overflows: the total
\* is the sum of the shares, and neither is ever negative (the documentation of
\* the package, pair.gno:44-45).
NothingOverflows ==
    /\ \A a \in Address : shares[a] >= 0
    /\ total = MapThenSumSet(LAMBDA a : shares[a], Address)
=============================================================================
