--------------------------------- MODULE Amm ---------------------------------
(***************************************************************************)
(* The market r/moul/x/amm: many constant-product pools in one realm, whose *)
(* shares are tokens of their own.  Reserves are stored and never read off *)
(* the balance, which all pools of a token share.                          *)
(*                                                                         *)
(* Every exported function is one transaction and one action.  Tokens are  *)
(* GRC20 (external): of each at most MaxInt exist, a transfer the sender   *)
(* cannot cover is refused, and the realm's own balance is moved by the    *)
(* realm alone.  What callers hold outside is not told apart, so minOut,   *)
(* which only refuses, and allowances, which only say who may call, are    *)
(* left out.  A pool nobody opened is a pool with no shares.               *)
(***************************************************************************)
EXTENDS ConstantProduct, FiniteSets

CONSTANTS
    Token,      \* the registered tokens, the shares of pools themselves aside
    Pools,      \* the pairs of tokens, each in its canonical order
    Address,    \* the addresses that hold shares
    Self,       \* the realm's own address: shares sent there are stuck
    Amounts,    \* bound: amounts callers ask for
    MaxStray    \* bound: the most a token's balance grows to by direct transfers

ASSUME PoolsAssumption ==
    Pools \subseteq Token \X Token /\ \A p \in Pools : p[1] # p[2]
ASSUME SelfAssumption == Self \notin Address
ASSUME AmountsAssumption == Amounts \subseteq Nat /\ MaxStray \in Nat

Holder == Address \cup {Self}

VARIABLES
    res,      \* pool.resA, pool.resB
    supply,   \* pool.lp.TotalSupply()
    shares,   \* pool.lp.BalanceOf
    held      \* BalanceOf(the realm) of each token

vars == <<res, supply, shares, held>>

Init ==
    /\ res = [p \in Pools |-> <<0, 0>>]
    /\ supply = [p \in Pools |-> 0]
    /\ shares = [p \in Pools |-> [h \in Holder |-> 0]]
    /\ held = [t \in Token |-> 0]

-----------------------------------------------------------------------------
(* The tokens. *)

\* What is not in the realm is all that a caller can have.
Pullable(t, n) == n <= MaxInt - held[t]

-----------------------------------------------------------------------------
(* Liquidity. *)

\* The first deposit sets the price and is taken whole.
Deposit(p, x, y) == IF supply[p] = 0 THEN <<x, y>> ELSE Trim(res[p], x, y)
SharesFor(p, d)  == IF supply[p] = 0 THEN d[1] ELSE Minted(res[p], supply[p], d)

\* The code's own test of the cap, on sums that may wrap.
UnderCap(r, d) == \A s \in Side : Wrap(r[s] + d[s]) <= MaxReserve

AddLiquidity(a, p, x, y) ==
    /\ x > 0 /\ y > 0
    /\ supply[p] # 0 => Trimmable(res[p], x, y)
    /\ LET d == Deposit(p, x, y)  n == SharesFor(p, d) IN
       /\ d[1] > 0 /\ d[2] > 0
       /\ supply[p] # 0 => Mintable(res[p], supply[p], d)
       /\ n > 0
       /\ UnderCap(res[p], d)
       /\ \A s \in Side : Pullable(p[s], d[s])
       /\ n <= MaxInt - supply[p]
       /\ res' = [res EXCEPT ![p] = <<@[1] + d[1], @[2] + d[2]>>]
       /\ supply' = [supply EXCEPT ![p] = @ + n]
       /\ shares' = [shares EXCEPT ![p][a] = @ + n]
       /\ held' = [held EXCEPT ![p[1]] = @ + d[1], ![p[2]] = @ + d[2]]

RemoveLiquidity(a, p, n) ==
    /\ n > 0
    /\ n <= shares[p][a]
    /\ LET d == PaidOut(res[p], supply[p], n) IN
       /\ d[1] > 0 /\ d[2] > 0
       /\ \A s \in Side : d[s] <= held[p[s]]
       /\ res' = [res EXCEPT ![p] = <<@[1] - d[1], @[2] - d[2]>>]
       /\ supply' = [supply EXCEPT ![p] = @ - n]
       /\ shares' = [shares EXCEPT ![p][a] = @ - n]
       /\ held' = [held EXCEPT ![p[1]] = @ - d[1], ![p[2]] = @ - d[2]]

\* A holder's move of shares, or a spender's within the holder's allowance.
TransferLP(a, p, to, n) ==
    /\ to # a
    /\ n <= shares[p][a]
    /\ shares' = [shares EXCEPT ![p][a] = @ - n, ![p][to] = @ + n]
    /\ UNCHANGED <<res, supply, held>>

-----------------------------------------------------------------------------
(* Trading. *)

\* Mutant: the tokens paid out stay in the reserve.
SwapOneSided(p, s, x) ==
    LET in == res[p][s]  out == res[p][Other(s)] IN
    /\ Priced(x, in, out)
    /\ LET y == AmountOut(x, in, out) IN
       /\ y > 0
       /\ Pullable(p[s], x)
       /\ y <= held[p[Other(s)]]
       /\ res' = [res EXCEPT ![p] = [@ EXCEPT ![s] = in + x]]
       /\ held' = [held EXCEPT ![p[s]] = @ + x, ![p[Other(s)]] = @ - y]
    /\ UNCHANGED <<supply, shares>>

\* x of side s is sold for the other side.
Swap(p, s, x) ==
    LET in == res[p][s]  out == res[p][Other(s)] IN
    /\ Priced(x, in, out)
    /\ LET y == AmountOut(x, in, out) IN
       /\ y > 0
       /\ Pullable(p[s], x)
       /\ (in + x) * (out - y) >= in * out
       /\ y <= held[p[Other(s)]]
       /\ res' = [res EXCEPT ![p] = [@ EXCEPT ![s] = in + x, ![Other(s)] = out - y]]
       /\ held' = [held EXCEPT ![p[s]] = @ + x, ![p[Other(s)]] = @ - y]
    /\ UNCHANGED <<supply, shares>>

\* A direct transfer to the realm, which changes no reserve.
Stray(t, n) ==
    /\ n > 0 /\ Pullable(t, n)
    /\ held[t] + n <= MaxStray   \* bound
    /\ held' = [held EXCEPT ![t] = @ + n]
    /\ UNCHANGED <<res, supply, shares>>

Next ==
    \/ \E a \in Address, p \in Pools, x, y \in Amounts : AddLiquidity(a, p, x, y)
    \/ \E a \in Address, p \in Pools, n \in Amounts : RemoveLiquidity(a, p, n)
    \/ \E a \in Address, p \in Pools, to \in Holder, n \in Amounts :
          TransferLP(a, p, to, n)
    \/ \E p \in Pools, s \in Side, x \in Amounts : Swap(p, s, x)
    \/ \E t \in Token, n \in Amounts : Stray(t, n)

Spec == Init /\ [][Next]_vars

-----------------------------------------------------------------------------
(* Properties. *)

\* Every amount is a natural number.
AmmTypeOK ==
    /\ res \in [Pools -> Nat \X Nat]
    /\ supply \in [Pools -> Nat]
    /\ shares \in [Pools -> [Holder -> Nat]]
    /\ held \in [Token -> Nat]

\* A stack of f[i] units at each i: what a sum of f counts.
Stack(f) == UNION {{<<i, n>> : n \in 1 .. f[i]} : i \in DOMAIN f}

\* The supply is what the holders have, however shares moved; a pool has shares
\* exactly when it has reserves on both sides, so that none is left to nobody
\* and none is priced at nothing; and no reserve is above the cap, although the
\* test of the cap is on sums that may wrap.
PoolsAreWhole ==
    \A p \in Pools :
        /\ supply[p] = Cardinality(Stack(shares[p]))
        /\ \A s \in Side : /\ supply[p] = 0 <=> res[p][s] = 0
                           /\ res[p][s] <= MaxReserve

\* Each unit that some pool counts as its reserve is in the realm, although all
\* pools of a token draw on one balance: no pool can spend another's.
Reserves(t) == [q \in {q \in Pools \X Side : q[1][q[2]] = t} |-> res[q[1]][q[2]]]
Solvent == \A t \in Token : Cardinality(Stack(Reserves(t))) <= held[t]

\* Reserves, shares and the coins of the realm agree, in each pool and together.
PoolsAreSound == PoolsAreWhole /\ Solvent

\* Against the reserves that pools reach, and for every amount that AmountOut
\* accepts, its plain arithmetic does not wrap, the result is the exact price
\* rounded down, and the trade empties no reserve.
PricingIsSound ==
    \A p \in Pools, s \in Side, x \in 1 .. MaxInt :
        LET in == res[p][s]  out == res[p][Other(s)] IN
        Priced(x, in, out) =>
            /\ AmountOut(x, in, out) = (x * FeeNum * out) \div (in * FeeDen + x * FeeNum)
            /\ AmountOut(x, in, out) < out

\* Whoever trades, joins or leaves, what a share stands for does not shrink: the
\* product of the reserves a share stands for, compared as a fraction.
ShareNeverDiluted ==
    [][\A p \in Pools :
          supply[p] > 0 /\ supply'[p] > 0 =>
              res'[p][1] * res'[p][2] * supply[p] * supply[p] >=
              res[p][1] * res[p][2] * supply'[p] * supply'[p]]_vars
=============================================================================
