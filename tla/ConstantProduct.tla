--------------------------- MODULE ConstantProduct ---------------------------
(***************************************************************************)
(* The arithmetic of a constant-product pool, as the package p/moul/x/pair *)
(* has it: how much a trade pays, how much of an offered deposit is taken, *)
(* which shares it buys and what burned shares return.                     *)
(*                                                                         *)
(* Plain sums and products are of machine integers and wrap; mulDiv works  *)
(* on twice the width and panics when its quotient does not fit (Fits).    *)
(* A pool's reserves are a pair, sides 1 and 2 being tokens A and B.       *)
(***************************************************************************)
EXTENDS Integers

CONSTANTS
    FeeNum, FeeDen,   \* of a trade, FeeNum/FeeDen counts
    MaxInt            \* the largest amount an integer holds

ASSUME FeeAssumption ==
    /\ FeeNum \in Nat \ {0} /\ FeeDen \in Nat \ {0} /\ FeeNum <= FeeDen
    /\ MaxInt \in Nat

Side     == {1, 2}
Other(s) == 3 - s

\* Mutant: the cap leaves no room for the fee.
MaxReserveOfInt == MaxInt

\* The most a side may hold, so that pricing stays within the integers.
MaxReserve == MaxInt \div FeeDen

Wrap(n) ==
    IF n \in -(MaxInt + 1) .. MaxInt THEN n
    ELSE ((n + MaxInt + 1) % (2 * (MaxInt + 1))) - (MaxInt + 1)

Fits(a, b, c)   == a >= 0 /\ b >= 0 /\ c > 0 /\ (a * b) \div c <= MaxInt
MulDiv(a, b, c) == (a * b) \div c
Least(m, n)     == IF m <= n THEN m ELSE n

-----------------------------------------------------------------------------
(* Trading. *)

\* AmountOut panics unless x may be sold against these reserves.
Priced(x, in, out) ==
    /\ x > 0
    /\ in \in 1 .. MaxReserve /\ out \in 1 .. MaxReserve
    /\ x <= MaxReserve - in

\* What selling x pays, rounded down.
AmountOut(x, in, out) ==
    LET inFee == Wrap(x * FeeNum)
        den   == Wrap(Wrap(in * FeeDen) + inFee)
    IN  MulDiv(inFee, out, den)

-----------------------------------------------------------------------------
(* Depositing and withdrawing. *)

\* Of a deposit x, y, what keeps the ratio of the reserves r: the scarcer side
\* whole and the richer side in part.
Trimmable(r, x, y) ==
    /\ Fits(x, r[2], r[1])
    /\ MulDiv(x, r[2], r[1]) > y => Fits(y, r[1], r[2])
Trim(r, x, y) ==
    IF MulDiv(x, r[2], r[1]) <= y THEN <<x, MulDiv(x, r[2], r[1])>>
                                  ELSE <<MulDiv(y, r[1], r[2]), y>>

\* Mutant: the shares of one side.
MintedBySideA(r, total, d) == MulDiv(d[1], total, r[1])

\* The shares that the trimmed deposit d buys, rounded down on both sides.
Mintable(r, total, d) == Fits(d[1], total, r[1]) /\ Fits(d[2], total, r[2])
Minted(r, total, d) ==
    Least(MulDiv(d[1], total, r[1]), MulDiv(d[2], total, r[2]))

\* What n of the shares return; all of them return the whole pool.
PaidOut(r, total, n) ==
    IF n = total THEN r ELSE <<MulDiv(n, r[1], total), MulDiv(n, r[2], total)>>
=============================================================================
