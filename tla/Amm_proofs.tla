----------------------------- MODULE Amm_proofs -----------------------------
(***************************************************************************)
(* What holds of the market for every set of pools and tokens, every fee   *)
(* and every width of integers.                                            *)
(***************************************************************************)
EXTENDS Amm, FiniteSetTheorems, TLAPS

-----------------------------------------------------------------------------
(* Arithmetic of one pool. *)

LEMMA Quotient ==
    ASSUME NEW n \in Nat, NEW c \in Nat \ {0}
    PROVE  n \div c \in Nat /\ (n \div c) * c <= n /\ n < (n \div c + 1) * c
OBVIOUS

LEMMA RoundedDown ==
    ASSUME NEW a \in Nat, NEW b \in Nat, NEW c \in Nat \ {0}
    PROVE  /\ MulDiv(a, b, c) \in Nat
           /\ MulDiv(a, b, c) * c <= a * b
<1> DEFINE n == a * b
<1>1. n \in Nat
  OBVIOUS
<1> HIDE DEF n
<1>2. n \div c \in Nat /\ (n \div c) * c <= n
  BY <1>1, Quotient
<1> QED BY <1>2 DEF MulDiv, n

LEMMA MaxReserveIsNat == MaxReserve \in Nat /\ MaxReserve * FeeDen <= MaxInt
BY FeeAssumption, Quotient DEF MaxReserve

LEMMA NoWrap ==
    ASSUME NEW n \in Int, -(MaxInt + 1) <= n, n <= MaxInt
    PROVE  Wrap(n) = n
BY FeeAssumption DEF Wrap

\* Below the cap the plain part of the price stays within the integers.
LEMMA PriceFits ==
    ASSUME NEW x \in Nat, NEW in \in Nat, in + x <= MaxReserve
    PROVE  /\ x * FeeNum \in Nat /\ in * FeeDen \in Nat
           /\ in * FeeDen + x * FeeNum <= MaxInt
<1>1. x * FeeNum \in Nat /\ in * FeeDen \in Nat /\ x * FeeDen \in Nat
  BY FeeAssumption
<1>2. x * FeeNum <= x * FeeDen
  BY FeeAssumption
<1>3. (in + x) * FeeDen <= MaxReserve * FeeDen
  BY FeeAssumption, MaxReserveIsNat
<1>4. (in + x) * FeeDen = in * FeeDen + x * FeeDen
  BY FeeAssumption
<1> QED BY <1>1, <1>2, <1>3, <1>4, MaxReserveIsNat, FeeAssumption

\* What AmountOut answers is the exact price rounded down, and not everything.
LEMMA PriceIsExact ==
    ASSUME NEW x \in Nat, NEW in \in Nat, NEW out \in Nat, Priced(x, in, out)
    PROVE  /\ AmountOut(x, in, out) =
                 (x * FeeNum * out) \div (in * FeeDen + x * FeeNum)
           /\ AmountOut(x, in, out) \in Nat
           /\ AmountOut(x, in, out) < out
<1> DEFINE fee == x * FeeNum
           base == in * FeeDen
           den == base + fee
           y == MulDiv(fee, out, den)
<1>1. in + x <= MaxReserve /\ in > 0 /\ x > 0 /\ out > 0
  BY MaxReserveIsNat DEF Priced
<1>2. fee \in Nat /\ base \in Nat /\ den <= MaxInt
  BY <1>1, PriceFits
<1>3. base > 0
  BY <1>1, FeeAssumption
<1> HIDE DEF fee, base
<1>4. den \in Nat \ {0} /\ fee <= MaxInt /\ base <= MaxInt
  BY <1>2, <1>3, FeeAssumption
<1>5. Wrap(fee) = fee /\ Wrap(base) = base /\ Wrap(base + fee) = den
  BY <1>2, <1>4, NoWrap, FeeAssumption
<1>6. AmountOut(x, in, out) = y
  BY <1>5 DEF AmountOut, fee, base
<1>7. y \in Nat /\ y * den <= fee * out
  BY <1>2, <1>4, RoundedDown
<1> HIDE DEF y, den
<1>8. y < out
  <2>1. SUFFICES ASSUME y >= out PROVE FALSE
    BY <1>7
  <2>2. y * den >= out * den
    BY <1>4, <1>7, <2>1
  <2>3. out * den = out * base + out * fee
    BY <1>2 DEF den
  <2>4. out * base > 0
    BY <1>1, <1>2, <1>3
  <2>5. out * fee = fee * out
    BY <1>2
  <2> QED BY <1>2, <1>4, <1>7, <2>2, <2>3, <2>4, <2>5
<1> QED BY <1>6, <1>7, <1>8 DEF y, MulDiv, den, fee, base

\* Two sides that each keep their part per share keep the product.
LEMMA ProductPerShare ==
    ASSUME NEW r \in Nat, NEW q \in Nat, NEW r2 \in Nat, NEW q2 \in Nat,
           NEW t \in Nat, NEW t2 \in Nat,
           r2 * t >= r * t2, q2 * t >= q * t2
    PROVE  r2 * q2 * t * t >= r * q * t2 * t2
<1> DEFINE A == r2 * t
           B == r * t2
           C == q2 * t
           D == q * t2
<1>1. A \in Nat /\ B \in Nat /\ C \in Nat /\ D \in Nat /\ A >= B /\ C >= D
  OBVIOUS
<1>2. A * C = r2 * q2 * t * t /\ B * D = r * q * t2 * t2
  OBVIOUS
<1> HIDE DEF A, B, C, D
<1>3. A * C >= B * D
  <2>1. A * C >= B * C
    BY <1>1
  <2>2. B * C >= B * D
    BY <1>1
  <2> QED BY <1>1, <2>1, <2>2
<1> QED BY <1>2, <1>3

\* Joining at a price rounded down takes nothing from the others, side by side.
LEMMA JoiningKeepsSide ==
    ASSUME NEW r \in Nat \ {0}, NEW t \in Nat, NEW d \in Nat, NEW n \in Nat,
           n <= MulDiv(d, t, r)
    PROVE  (r + d) * t >= r * (t + n)
<1> DEFINE m == MulDiv(d, t, r)
<1>1. m \in Nat /\ m * r <= d * t
  BY RoundedDown
<1> HIDE DEF m
<1>2. n * r <= m * r
  BY <1>1 DEF m
<1> QED BY <1>1, <1>2

\* Nor does leaving; and whoever leaves in part leaves a part.
LEMMA LeavingKeepsSide ==
    ASSUME NEW r \in Nat \ {0}, NEW t \in Nat, NEW n \in Nat, n < t
    PROVE  /\ MulDiv(n, r, t) \in Nat /\ MulDiv(n, r, t) < r
           /\ (r - MulDiv(n, r, t)) * t >= r * (t - n)
<1> DEFINE m == MulDiv(n, r, t)
<1>1. m \in Nat /\ m * t <= n * r
  BY RoundedDown
<1> HIDE DEF m
<1>2. m < r
  <2>1. SUFFICES ASSUME m >= r PROVE FALSE
    BY <1>1
  <2>2. m * t >= r * t
    BY <1>1, <2>1
  <2>3. n * r < t * r
    OBVIOUS
  <2> QED BY <1>1, <2>2, <2>3
<1> QED BY <1>1, <1>2 DEF m

-----------------------------------------------------------------------------
(* Sums as stacks of units. *)

LEMMA InStack ==
    ASSUME NEW f, NEW u
    PROVE  u \in Stack(f) <=> \E i \in DOMAIN f : \E n \in 1 .. f[i] : u = <<i, n>>
BY DEF Stack

LEMMA PairInStack ==
    ASSUME NEW f, NEW i, NEW n
    PROVE  <<i, n>> \in Stack(f) <=> i \in DOMAIN f /\ n \in 1 .. f[i]
BY InStack

\* The units above m, up to n.
Block(i, m, n) == {<<i, k>> : k \in m + 1 .. n}

LEMMA BlockSize ==
    ASSUME NEW i, NEW m \in Nat, NEW n \in Nat, m <= n
    PROVE  IsFiniteSet(Block(i, m, n)) /\ Cardinality(Block(i, m, n)) = n - m
<1> DEFINE S == m + 1 .. n
           b == [k \in S |-> <<i, k>>]
<1>1. IsFiniteSet(S) /\ Cardinality(S) = n - m
  <2>1. m + 1 \in Int /\ n \in Int
    OBVIOUS
  <2>2. IsFiniteSet(S) /\ Cardinality(S) = IF m + 1 > n THEN 0 ELSE n - (m + 1) + 1
    BY <2>1, FS_Interval
  <2> QED BY <2>2
<1>2. b \in Bijection(S, Block(i, m, n))
  <2>1. b \in [S -> Block(i, m, n)]
    BY DEF Block
  <2>2. \A k, l \in S : b[k] = b[l] => k = l
    OBVIOUS
  <2>3. \A u \in Block(i, m, n) : \E k \in S : b[k] = u
    BY DEF Block
  <2> QED BY <2>1, <2>2, <2>3 DEF Bijection, Injection, Surjection, IsInjective
<1>3. ExistsBijection(S, Block(i, m, n))
  BY <1>2 DEF ExistsBijection
<1> QED BY <1>1, <1>3, FS_Bijection

LEMMA StackGrows ==
    ASSUME NEW D, NEW f \in [D -> Nat], NEW g \in [D -> Nat], NEW i \in D,
           f[i] <= g[i], \A j \in D \ {i} : g[j] = f[j],
           IsFiniteSet(Stack(f))
    PROVE  /\ IsFiniteSet(Stack(g))
           /\ Cardinality(Stack(g)) = Cardinality(Stack(f)) + g[i] - f[i]
<1> DEFINE B == Block(i, f[i], g[i])
<1>1. f[i] \in Nat /\ g[i] \in Nat
  OBVIOUS
<1>2. IsFiniteSet(B) /\ Cardinality(B) = g[i] - f[i]
  BY <1>1, BlockSize
<1>3. Stack(g) = Stack(f) \cup B
  <2>1. ASSUME NEW u \in Stack(g) PROVE u \in Stack(f) \cup B
    <3>0. PICK j \in D : \E n \in 1 .. g[j] : u = <<j, n>>
      BY <2>1, InStack
    <3>1. PICK n \in 1 .. g[j] : u = <<j, n>>
      BY <3>0
    <3>2. CASE n <= f[j]
      BY <3>1, <3>2, PairInStack
    <3>3. CASE ~(n <= f[j])
      <4>1. j = i
        BY <3>1, <3>3
      <4>2. n \in f[i] + 1 .. g[i]
        BY <1>1, <3>1, <3>3, <4>1
      <4> QED BY <3>1, <4>1, <4>2 DEF Block
    <3> QED BY <3>2, <3>3
  <2>2. ASSUME NEW u \in Stack(f) PROVE u \in Stack(g)
    <3>0. PICK j \in D : \E n \in 1 .. f[j] : u = <<j, n>>
      BY <2>2, InStack
    <3>1. PICK n \in 1 .. f[j] : u = <<j, n>>
      BY <3>0
    <3>2. f[j] \in Nat /\ g[j] \in Nat /\ f[j] <= g[j]
      BY <1>1
    <3>3. n \in 1 .. g[j]
      BY <3>1, <3>2
    <3> QED BY <3>1, <3>3, PairInStack
  <2>3. ASSUME NEW u \in B PROVE u \in Stack(g)
    <3>1. PICK n \in f[i] + 1 .. g[i] : u = <<i, n>>
      BY <2>3 DEF Block
    <3>2. n \in 1 .. g[i]
      BY <1>1, <3>1
    <3> QED BY <3>1, <3>2, PairInStack
  <2> QED BY <2>1, <2>2, <2>3
<1>4. Stack(f) \cap B = {}
  <2>1. SUFFICES ASSUME NEW u \in B, u \in Stack(f) PROVE FALSE
    OBVIOUS
  <2>2. PICK n \in f[i] + 1 .. g[i] : u = <<i, n>>
    BY <2>1 DEF Block
  <2>3. n \in 1 .. f[i]
    BY <2>1, <2>2, PairInStack
  <2> QED BY <1>1, <2>2, <2>3
<1>5. IsFiniteSet(Stack(f) \cup B)
      /\ Cardinality(Stack(f) \cup B) = Cardinality(Stack(f)) + Cardinality(B) - Cardinality(Stack(f) \cap B)
  BY <1>2, FS_Union
<1>6. Cardinality(Stack(f)) \in Nat
  BY FS_CardinalityType
<1> HIDE DEF B
<1>7. Cardinality(Stack(f) \cap B) = 0
  BY <1>4, FS_EmptySet
<1>8. Cardinality(Stack(g)) = Cardinality(Stack(f)) + (g[i] - f[i])
  BY <1>2, <1>3, <1>5, <1>6, <1>7, <1>1
<1> QED BY <1>1, <1>3, <1>5, <1>6, <1>8

LEMMA StackMoves ==
    ASSUME NEW D, NEW f \in [D -> Nat], NEW g \in [D -> Nat], NEW i \in D,
           \A j \in D \ {i} : g[j] = f[j],
           IsFiniteSet(Stack(f))
    PROVE  /\ IsFiniteSet(Stack(g))
           /\ Cardinality(Stack(g)) = Cardinality(Stack(f)) + g[i] - f[i]
<1>1. f[i] \in Nat /\ g[i] \in Nat
  OBVIOUS
<1>2. CASE f[i] <= g[i]
  BY <1>2, StackGrows
<1>3. CASE g[i] <= f[i]
  <2>1. Stack(g) \subseteq Stack(f)
    <3>1. SUFFICES ASSUME NEW u \in Stack(g) PROVE u \in Stack(f)
      OBVIOUS
    <3>1a. PICK j \in D : \E n \in 1 .. g[j] : u = <<j, n>>
      BY <3>1, InStack
    <3>2. PICK n \in 1 .. g[j] : u = <<j, n>>
      BY <3>1a
    <3>3. f[j] \in Nat /\ g[j] \in Nat /\ g[j] <= f[j]
      BY <1>1, <1>3
    <3>4. n \in 1 .. f[j]
      BY <3>2, <3>3
    <3> QED BY <3>2, <3>4, PairInStack
  <2>2. IsFiniteSet(Stack(g))
    BY <2>1, FS_Subset
  <2>3. Cardinality(Stack(f)) = Cardinality(Stack(g)) + f[i] - g[i]
    BY <1>3, <2>2, StackGrows
  <2>4. Cardinality(Stack(f)) \in Nat /\ Cardinality(Stack(g)) \in Nat
    BY <2>2, FS_CardinalityType
  <2> QED BY <1>1, <2>2, <2>3, <2>4
<1> QED BY <1>1, <1>2, <1>3

LEMMA StackHolds ==
    ASSUME NEW D, NEW f \in [D -> Nat], NEW i \in D, IsFiniteSet(Stack(f))
    PROVE  f[i] <= Cardinality(Stack(f))
<1> DEFINE g == [f EXCEPT ![i] = 0]
<1>1. g \in [D -> Nat] /\ g[i] = 0 /\ \A j \in D \ {i} : g[j] = f[j]
  OBVIOUS
<1> HIDE DEF g
<1>2. IsFiniteSet(Stack(g)) /\ Cardinality(Stack(g)) = Cardinality(Stack(f)) + g[i] - f[i]
  BY <1>1, StackMoves
<1>3. Cardinality(Stack(f)) \in Nat /\ Cardinality(Stack(g)) \in Nat /\ f[i] \in Nat
  BY <1>2, FS_CardinalityType
<1> QED BY <1>1, <1>2, <1>3

LEMMA StackOfNothing ==
    ASSUME NEW f, \A i \in DOMAIN f : f[i] = 0
    PROVE  IsFiniteSet(Stack(f)) /\ Cardinality(Stack(f)) = 0
<1>1. Stack(f) = {}
  BY InStack
<1> QED BY <1>1, FS_EmptySet

-----------------------------------------------------------------------------
(* The inductive invariant.  The cap test on a sum that may wrap is sound   *)
(* only because the realm holds every reserve (Funded) and a token has at   *)
(* most MaxInt units; shares can be burned only because the supply covers   *)
(* every holder (Whole).                                                    *)

Funded(t) == /\ IsFiniteSet(Stack(Reserves(t)))
             /\ Cardinality(Stack(Reserves(t))) <= held[t]

Whole(p) == /\ IsFiniteSet(Stack(shares[p]))
            /\ supply[p] = Cardinality(Stack(shares[p]))
            /\ \A s \in Side : /\ supply[p] = 0 <=> res[p][s] = 0
                               /\ res[p][s] <= MaxReserve

AmmInv == /\ AmmTypeOK
          /\ \A t \in Token : Funded(t)
          /\ \A p \in Pools : Whole(p)

LEMMA SideIs == 1 \in Side /\ 2 \in Side /\ \A s \in Side : Other(s) \in Side /\ (s = 1 \/ s = 2)
                /\ (s = 1 => Other(s) = 2) /\ (s = 2 => Other(s) = 1) /\ Other(s) # s
BY DEF Side, Other

LEMMA PoolIs ==
    ASSUME NEW p \in Pools
    PROVE  p[1] \in Token /\ p[2] \in Token /\ p[1] # p[2]
BY PoolsAssumption

LEMMA ReserveIs ==
    ASSUME AmmTypeOK, NEW p \in Pools
    PROVE  /\ res[p][1] \in Nat /\ res[p][2] \in Nat
           /\ \A s \in Side : res[p][s] \in Nat /\ p[s] \in Token
           /\ supply[p] \in Nat
           /\ shares[p] \in [Holder -> Nat]
BY PoolIs, SideIs DEF AmmTypeOK

LEMMA ReservesAre ==
    ASSUME AmmTypeOK, NEW t
    PROVE  Reserves(t) \in [{q \in Pools \X Side : q[1][q[2]] = t} -> Nat]
BY ReserveIs DEF Reserves

\* What a pool counts is there, on its own.
LEMMA ReserveIsHeld ==
    ASSUME AmmInv, NEW p \in Pools, NEW s \in Side
    PROVE  res[p][s] <= held[p[s]] /\ held[p[s]] \in Nat
<1> DEFINE t == p[s]
           D == {q \in Pools \X Side : q[1][q[2]] = t}
<1>1. <<p, s>> \in D
  OBVIOUS
<1>2. t \in Token
  BY ReserveIs DEF AmmInv
<1>3. Reserves(t) \in [D -> Nat] /\ Reserves(t)[<<p, s>>] = res[p][s]
  BY <1>1, ReservesAre DEF AmmInv, Reserves
<1>4. IsFiniteSet(Stack(Reserves(t))) /\ Cardinality(Stack(Reserves(t))) <= held[t]
  BY <1>2 DEF AmmInv, Funded
<1>5. held[t] \in Nat /\ res[p][s] \in Nat
  BY <1>2, ReserveIs DEF AmmInv, AmmTypeOK
<1> HIDE DEF t, D
<1>6. res[p][s] <= Cardinality(Stack(Reserves(t)))
  BY <1>1, <1>3, <1>4, StackHolds
<1>7. Cardinality(Stack(Reserves(t))) \in Nat
  BY <1>4, FS_CardinalityType
<1> QED BY <1>4, <1>5, <1>6, <1>7 DEF t

\* What a holder has is in the supply.
LEMMA ShareIsSupplied ==
    ASSUME AmmInv, NEW p \in Pools, NEW a \in Holder
    PROVE  shares[p][a] \in Nat /\ shares[p][a] <= supply[p]
BY ReserveIs, StackHolds DEF AmmInv, Whole

-----------------------------------------------------------------------------
(* Moving reserves and balance together. *)

LEMMA FundedKept ==
    ASSUME AmmInv, AmmTypeOK', NEW p \in Pools,
           \A q \in Pools \ {p} : res'[q] = res[q],
           \A t \in Token \ {p[1], p[2]} : held'[t] = held[t],
           \A s \in Side : held'[p[s]] - res'[p][s] = held[p[s]] - res[p][s],
           NEW t \in Token
    PROVE  Funded(t)'
<1> DEFINE D == {q \in Pools \X Side : q[1][q[2]] = t}
           f == Reserves(t)
           g == Reserves(t)'
<1>1. f \in [D -> Nat] /\ g \in [D -> Nat]
  <2>1. f \in [D -> Nat]
    BY ReservesAre DEF AmmInv
  <2>2. g \in [D -> Nat]
    BY PoolIs, SideIs DEF Reserves, AmmTypeOK
  <2> QED BY <2>1, <2>2
<1>2. \A q \in D : f[q] = res[q[1]][q[2]] /\ g[q] = res'[q[1]][q[2]]
  BY DEF Reserves
<1>3. IsFiniteSet(Stack(f)) /\ Cardinality(Stack(f)) <= held[t]
  BY DEF AmmInv, Funded
<1>4. CASE t \notin {p[1], p[2]}
  <2>1. \A q \in D : q[1] # p
    BY <1>4, SideIs
  <2>2. \A q \in D : g[q] = f[q]
    BY <1>2, <2>1
  <2>3. f = g
    BY <1>1, <2>2
  <2>4. held'[t] = held[t]
    BY <1>4
  <2> QED BY <1>3, <2>3, <2>4 DEF Funded
<1>5. ASSUME NEW s \in Side, t = p[s] PROVE Funded(t)'
  <2>1. <<p, s>> \in D
    BY <1>5
  <2>2. \A q \in D \ {<<p, s>>} : q[1] # p
    <3>1. SUFFICES ASSUME NEW q \in D \ {<<p, s>>}, q[1] = p PROVE FALSE
      OBVIOUS
    <3>2. q[2] \in Side /\ p[q[2]] = p[s] /\ q = <<p, q[2]>>
      BY <1>5, <3>1
    <3>3. q[2] = s
      BY <1>5, <3>2, SideIs, PoolIs
    <3> QED BY <3>1, <3>2, <3>3
  <2>3. \A q \in D \ {<<p, s>>} : g[q] = f[q]
    BY <1>2, <2>2
  <2>4. f[<<p, s>>] = res[p][s] /\ g[<<p, s>>] = res'[p][s]
    BY <1>2, <2>1
  <2> HIDE DEF D, f, g
  <2>5. IsFiniteSet(Stack(g))
        /\ Cardinality(Stack(g)) = Cardinality(Stack(f)) + g[<<p, s>>] - f[<<p, s>>]
    BY <1>1, <1>3, <2>1, <2>3, StackMoves
  <2>6. held'[t] - res'[p][s] = held[t] - res[p][s]
    BY <1>5
  <2>7. held[t] \in Nat /\ held'[t] \in Nat
    BY DEF AmmInv, AmmTypeOK
  <2>8. f[<<p, s>>] \in Nat /\ g[<<p, s>>] \in Nat
    BY <1>1, <2>1
  <2>9. Cardinality(Stack(f)) \in Nat
    BY <1>3, FS_CardinalityType
  <2>10. Cardinality(Stack(g)) <= held'[t]
    BY <1>3, <2>4, <2>5, <2>6, <2>7, <2>8, <2>9
  <2> QED BY <2>5, <2>10 DEF Funded, g
<1> QED BY <1>4, <1>5, SideIs

\* A step that replaces one pool by a whole one, and moves the balances with it.
LEMMA PoolReplaced ==
    ASSUME AmmInv, NEW p \in Pools,
           NEW e \in Nat \X Nat, NEW m \in Nat, NEW f \in [Holder -> Nat],
           NEW h1 \in Nat, NEW h2 \in Nat,
           res' = [res EXCEPT ![p] = e],
           supply' = [supply EXCEPT ![p] = m],
           shares' = [shares EXCEPT ![p] = f],
           held' = [held EXCEPT ![p[1]] = h1, ![p[2]] = h2],
           h1 - e[1] = held[p[1]] - res[p][1],
           h2 - e[2] = held[p[2]] - res[p][2],
           IsFiniteSet(Stack(f)), m = Cardinality(Stack(f)),
           m = 0 <=> e[1] = 0, m = 0 <=> e[2] = 0,
           e[1] <= MaxReserve, e[2] <= MaxReserve
    PROVE  AmmInv'
<1>1. AmmTypeOK'
  BY DEF AmmInv, AmmTypeOK
<1>2. res'[p] = e /\ supply'[p] = m /\ shares'[p] = f
  BY DEF AmmInv, AmmTypeOK
<1>3. \A q \in Pools \ {p} : res'[q] = res[q] /\ supply'[q] = supply[q] /\ shares'[q] = shares[q]
  BY DEF AmmInv, AmmTypeOK
<1>4. held'[p[1]] = h1 /\ held'[p[2]] = h2
      /\ \A t \in Token \ {p[1], p[2]} : held'[t] = held[t]
  BY PoolIs DEF AmmInv, AmmTypeOK
<1>5. \A s \in Side : held'[p[s]] - res'[p][s] = held[p[s]] - res[p][s]
  BY <1>2, <1>4, SideIs
<1>6. \A t \in Token : Funded(t)'
  BY <1>1, <1>3, <1>4, <1>5, FundedKept
<1>7. \A q \in Pools : Whole(q)'
  <2>1. Whole(p)'
    BY <1>2, SideIs DEF Whole
  <2>2. ASSUME NEW q \in Pools \ {p} PROVE Whole(q)'
    <3>1. Whole(q)
      BY DEF AmmInv
    <3>2. res'[q] = res[q] /\ supply'[q] = supply[q] /\ shares'[q] = shares[q]
      BY <1>3
    <3> QED BY <3>1, <3>2 DEF Whole
  <2> QED BY <2>1, <2>2
<1> QED BY <1>1, <1>6, <1>7 DEF AmmInv

\* One holder's shares change by as much as the supply.
LEMMA SharesFollow ==
    ASSUME AmmInv, NEW p \in Pools, NEW a \in Holder, NEW k \in Nat
    PROVE  LET f == [shares[p] EXCEPT ![a] = k] IN
           /\ f \in [Holder -> Nat]
           /\ IsFiniteSet(Stack(f))
           /\ Cardinality(Stack(f)) = supply[p] + k - shares[p][a]
<1> DEFINE f == [shares[p] EXCEPT ![a] = k]
<1>1. shares[p] \in [Holder -> Nat]
  BY ReserveIs DEF AmmInv
<1>2. f \in [Holder -> Nat] /\ f[a] = k /\ \A b \in Holder \ {a} : f[b] = shares[p][b]
  BY <1>1
<1>3. IsFiniteSet(Stack(shares[p])) /\ supply[p] = Cardinality(Stack(shares[p]))
  BY DEF AmmInv, Whole
<1> HIDE DEF f
<1>4. IsFiniteSet(Stack(f))
      /\ Cardinality(Stack(f)) = Cardinality(Stack(shares[p])) + f[a] - shares[p][a]
  BY <1>1, <1>2, <1>3, StackMoves
<1> QED BY <1>2, <1>3, <1>4 DEF f

-----------------------------------------------------------------------------
(* The actions. *)

LEMMA MulDivIsNat ==
    ASSUME NEW a \in Nat, NEW b \in Nat, NEW c \in Nat, Fits(a, b, c)
    PROVE  MulDiv(a, b, c) \in Nat /\ c \in Nat \ {0}
BY RoundedDown DEF Fits

LEMMA DepositIs ==
    ASSUME AmmTypeOK, NEW p \in Pools, NEW x \in Nat, NEW y \in Nat,
           supply[p] # 0 => Trimmable(res[p], x, y)
    PROVE  Deposit(p, x, y) \in Nat \X Nat
<1>1. CASE supply[p] = 0
  BY <1>1 DEF Deposit
<1>2. CASE supply[p] # 0
  <2>1. res[p][1] \in Nat /\ res[p][2] \in Nat
    BY ReserveIs
  <2>2. MulDiv(x, res[p][2], res[p][1]) \in Nat
    BY <1>2, <2>1, MulDivIsNat DEF Trimmable
  <2>3. CASE MulDiv(x, res[p][2], res[p][1]) <= y
    BY <1>2, <2>2, <2>3 DEF Deposit, Trim
  <2>4. CASE ~(MulDiv(x, res[p][2], res[p][1]) <= y)
    <3>1. MulDiv(y, res[p][1], res[p][2]) \in Nat
      BY <1>2, <2>1, <2>2, <2>4, MulDivIsNat DEF Trimmable
    <3> QED BY <1>2, <2>4, <3>1 DEF Deposit, Trim
  <2> QED BY <2>3, <2>4
<1> QED BY <1>1, <1>2

LEMMA MintedIs ==
    ASSUME AmmTypeOK, NEW p \in Pools, NEW d \in Nat \X Nat, supply[p] # 0,
           Mintable(res[p], supply[p], d)
    PROVE  /\ res[p][1] \in Nat \ {0} /\ res[p][2] \in Nat \ {0}
           /\ SharesFor(p, d) \in Nat
           /\ SharesFor(p, d) <= MulDiv(d[1], supply[p], res[p][1])
           /\ SharesFor(p, d) <= MulDiv(d[2], supply[p], res[p][2])
<1>1. res[p][1] \in Nat /\ res[p][2] \in Nat /\ supply[p] \in Nat
  BY ReserveIs
<1>2. Fits(d[1], supply[p], res[p][1]) /\ Fits(d[2], supply[p], res[p][2])
  BY DEF Mintable
<1> DEFINE m1 == MulDiv(d[1], supply[p], res[p][1])
           m2 == MulDiv(d[2], supply[p], res[p][2])
<1>3. m1 \in Nat /\ m2 \in Nat /\ res[p][1] \in Nat \ {0} /\ res[p][2] \in Nat \ {0}
  BY <1>1, <1>2, MulDivIsNat
<1>4. SharesFor(p, d) = Least(m1, m2)
  BY DEF SharesFor, Minted
<1> HIDE DEF m1, m2
<1>5. Least(m1, m2) \in Nat /\ Least(m1, m2) <= m1 /\ Least(m1, m2) <= m2
  BY <1>3 DEF Least
<1> QED BY <1>3, <1>4, <1>5 DEF m1, m2

\* What a call of AddLiquidity takes and mints, and why the cap holds.
LEMMA Added ==
    ASSUME AmmInv, NEW a \in Address, NEW p \in Pools,
           NEW x \in Nat, NEW y \in Nat, AddLiquidity(a, p, x, y)
    PROVE  \E d \in Nat \X Nat, n \in Nat :
              /\ d[1] > 0 /\ d[2] > 0 /\ n > 0
              /\ res[p][1] + d[1] <= MaxReserve /\ res[p][2] + d[2] <= MaxReserve
              /\ supply[p] # 0 =>
                    /\ n <= MulDiv(d[1], supply[p], res[p][1])
                    /\ n <= MulDiv(d[2], supply[p], res[p][2])
              /\ res' = [res EXCEPT ![p] = <<res[p][1] + d[1], res[p][2] + d[2]>>]
              /\ supply' = [supply EXCEPT ![p] = supply[p] + n]
              /\ shares' = [shares EXCEPT ![p] = [shares[p] EXCEPT ![a] = shares[p][a] + n]]
              /\ held' = [held EXCEPT ![p[1]] = held[p[1]] + d[1],
                                      ![p[2]] = held[p[2]] + d[2]]
<1> DEFINE d == Deposit(p, x, y)
           n == SharesFor(p, d)
<1>1. AmmTypeOK
  BY DEF AmmInv
<1>2. d \in Nat \X Nat
  BY <1>1, DepositIs DEF AddLiquidity
<1>3. d[1] > 0 /\ d[2] > 0 /\ n > 0 /\ UnderCap(res[p], d)
      /\ (\A s \in Side : Pullable(p[s], d[s]))
      /\ (supply[p] # 0 => Mintable(res[p], supply[p], d))
  BY DEF AddLiquidity
<1>4. n \in Nat
  <2>1. CASE supply[p] = 0
    BY <1>2, <2>1 DEF SharesFor
  <2>2. CASE supply[p] # 0
    BY <1>1, <1>2, <1>3, <2>2, MintedIs
  <2> QED BY <2>1, <2>2
<1>5. supply[p] # 0 => /\ n <= MulDiv(d[1], supply[p], res[p][1])
                       /\ n <= MulDiv(d[2], supply[p], res[p][2])
  BY <1>1, <1>2, <1>3, MintedIs
<1>6. /\ res' = [res EXCEPT ![p] = <<res[p][1] + d[1], res[p][2] + d[2]>>]
      /\ supply' = [supply EXCEPT ![p] = supply[p] + n]
      /\ shares' = [shares EXCEPT ![p][a] = shares[p][a] + n]
      /\ held' = [held EXCEPT ![p[1]] = held[p[1]] + d[1], ![p[2]] = held[p[2]] + d[2]]
  <2>1. p[1] # p[2]
    BY PoolIs
  <2> HIDE DEF d, n
  <2> QED BY <1>1, <2>1 DEF AddLiquidity, AmmTypeOK, d, n
<1>7. shares' = [shares EXCEPT ![p] = [shares[p] EXCEPT ![a] = shares[p][a] + n]]
  BY <1>6
<1> HIDE DEF d, n
<1>8. ASSUME NEW s \in Side PROVE res[p][s] + d[s] <= MaxReserve
  <2>1. d[s] \in Nat /\ res[p][s] \in Nat
    BY <1>1, <1>2, SideIs, ReserveIs
  <2>2. d[s] <= MaxInt - held[p[s]]
    BY <1>3 DEF Pullable
  <2>3. res[p][s] <= held[p[s]] /\ held[p[s]] \in Nat
    BY ReserveIsHeld
  <2>4. res[p][s] + d[s] <= MaxInt /\ res[p][s] + d[s] >= -(MaxInt + 1)
    BY <2>1, <2>2, <2>3, FeeAssumption
  <2>5. Wrap(res[p][s] + d[s]) = res[p][s] + d[s]
    BY <2>1, <2>4, NoWrap
  <2> QED BY <1>3, <2>5 DEF UnderCap
<1>9. res[p][1] + d[1] <= MaxReserve /\ res[p][2] + d[2] <= MaxReserve
  BY <1>8, SideIs
<1> QED BY <1>2, <1>3, <1>4, <1>5, <1>6, <1>7, <1>9

LEMMA AddKeeps ==
    ASSUME AmmInv, NEW a \in Address, NEW p \in Pools,
           NEW x \in Nat, NEW y \in Nat, AddLiquidity(a, p, x, y)
    PROVE  AmmInv'
<1>1. PICK d \in Nat \X Nat, n \in Nat :
         /\ d[1] > 0 /\ d[2] > 0 /\ n > 0
         /\ res[p][1] + d[1] <= MaxReserve /\ res[p][2] + d[2] <= MaxReserve
         /\ res' = [res EXCEPT ![p] = <<res[p][1] + d[1], res[p][2] + d[2]>>]
         /\ supply' = [supply EXCEPT ![p] = supply[p] + n]
         /\ shares' = [shares EXCEPT ![p] = [shares[p] EXCEPT ![a] = shares[p][a] + n]]
         /\ held' = [held EXCEPT ![p[1]] = held[p[1]] + d[1],
                                 ![p[2]] = held[p[2]] + d[2]]
  BY Added
<1>2. a \in Holder
  BY DEF Holder
<1> DEFINE e == <<res[p][1] + d[1], res[p][2] + d[2]>>
           k == shares[p][a] + n
           f == [shares[p] EXCEPT ![a] = k]
           m == supply[p] + n
           h1 == held[p[1]] + d[1]
           h2 == held[p[2]] + d[2]
<1>3. res[p][1] \in Nat /\ res[p][2] \in Nat /\ supply[p] \in Nat /\ shares[p][a] \in Nat
  BY <1>2, ReserveIs, ShareIsSupplied DEF AmmInv
<1>4. held[p[1]] \in Nat /\ held[p[2]] \in Nat
  BY PoolIs DEF AmmInv, AmmTypeOK
<1>5. e \in Nat \X Nat /\ k \in Nat /\ m \in Nat /\ h1 \in Nat /\ h2 \in Nat
  BY <1>3, <1>4
<1>6. f \in [Holder -> Nat] /\ IsFiniteSet(Stack(f))
      /\ Cardinality(Stack(f)) = supply[p] + k - shares[p][a]
  BY <1>2, <1>5, SharesFollow
<1>7. m = Cardinality(Stack(f))
  BY <1>3, <1>6
<1>8. h1 - e[1] = held[p[1]] - res[p][1] /\ h2 - e[2] = held[p[2]] - res[p][2]
  BY <1>3, <1>4
<1>9. m # 0 /\ e[1] # 0 /\ e[2] # 0 /\ e[1] <= MaxReserve /\ e[2] <= MaxReserve
  BY <1>1, <1>3
<1>10. /\ res' = [res EXCEPT ![p] = e] /\ supply' = [supply EXCEPT ![p] = m]
       /\ shares' = [shares EXCEPT ![p] = f]
       /\ held' = [held EXCEPT ![p[1]] = h1, ![p[2]] = h2]
  BY <1>1
<1> HIDE DEF e, k, f, m, h1, h2
<1> QED BY <1>5, <1>6, <1>7, <1>8, <1>9, <1>10, PoolReplaced

\* What leaving in part returns, side by side.
LEMMA Removed ==
    ASSUME AmmInv, NEW a \in Address, NEW p \in Pools, NEW n \in Nat,
           RemoveLiquidity(a, p, n)
    PROVE  /\ n > 0 /\ n <= shares[p][a] /\ n <= supply[p]
           /\ res[p][1] \in Nat \ {0} /\ res[p][2] \in Nat \ {0}
           /\ PaidOut(res[p], supply[p], n) \in Nat \X Nat
           /\ n = supply[p] => PaidOut(res[p], supply[p], n) = res[p]
           /\ n # supply[p] => \A s \in Side :
                 /\ PaidOut(res[p], supply[p], n)[s] < res[p][s]
                 /\ (res[p][s] - PaidOut(res[p], supply[p], n)[s]) * supply[p]
                       >= res[p][s] * (supply[p] - n)
<1>1. n > 0 /\ n <= shares[p][a]
  BY DEF RemoveLiquidity
<1>2. a \in Holder
  BY DEF Holder
<1>3. shares[p][a] \in Nat /\ shares[p][a] <= supply[p] /\ supply[p] \in Nat
  BY <1>2, ShareIsSupplied, ReserveIs DEF AmmInv
<1>4. n <= supply[p] /\ supply[p] # 0
  BY <1>1, <1>3
<1>5. res[p][1] \in Nat \ {0} /\ res[p][2] \in Nat \ {0}
  BY <1>4, ReserveIs, SideIs DEF AmmInv, Whole
<1>6. CASE n = supply[p]
  <2>1. PaidOut(res[p], supply[p], n) = res[p]
    BY <1>6 DEF PaidOut
  <2>2. res[p] \in Nat \X Nat
    BY DEF AmmInv, AmmTypeOK
  <2> QED BY <1>1, <1>4, <1>5, <1>6, <2>1, <2>2
<1>7. CASE n # supply[p]
  <2> DEFINE m1 == MulDiv(n, res[p][1], supply[p])
             m2 == MulDiv(n, res[p][2], supply[p])
  <2>1. n < supply[p]
    BY <1>3, <1>4, <1>7
  <2>2. PaidOut(res[p], supply[p], n) = <<m1, m2>>
    BY <1>7 DEF PaidOut
  <2>3. m1 \in Nat /\ m1 < res[p][1] /\ (res[p][1] - m1) * supply[p] >= res[p][1] * (supply[p] - n)
    BY <1>3, <1>5, <2>1, LeavingKeepsSide
  <2>4. m2 \in Nat /\ m2 < res[p][2] /\ (res[p][2] - m2) * supply[p] >= res[p][2] * (supply[p] - n)
    BY <1>3, <1>5, <2>1, LeavingKeepsSide
  <2> HIDE DEF m1, m2
  <2>5. \A s \in Side : /\ <<m1, m2>>[s] < res[p][s]
                        /\ (res[p][s] - <<m1, m2>>[s]) * supply[p] >= res[p][s] * (supply[p] - n)
    <3>1. ASSUME NEW s \in Side, s = 1 PROVE <<m1, m2>>[s] = m1 /\ res[p][s] = res[p][1]
      BY <3>1
    <3>2. ASSUME NEW s \in Side, s = 2 PROVE <<m1, m2>>[s] = m2 /\ res[p][s] = res[p][2]
      BY <3>2
    <3> QED BY <2>3, <2>4, <3>1, <3>2, SideIs
  <2> QED BY <1>1, <1>4, <1>5, <1>7, <2>2, <2>3, <2>4, <2>5
<1> QED BY <1>6, <1>7

LEMMA RemoveKeeps ==
    ASSUME AmmInv, NEW a \in Address, NEW p \in Pools, NEW n \in Nat,
           RemoveLiquidity(a, p, n)
    PROVE  AmmInv'
<1> DEFINE d == PaidOut(res[p], supply[p], n)
           e == <<res[p][1] - d[1], res[p][2] - d[2]>>
           k == shares[p][a] - n
           f == [shares[p] EXCEPT ![a] = k]
           m == supply[p] - n
           h1 == held[p[1]] - d[1]
           h2 == held[p[2]] - d[2]
<1>1. /\ n > 0 /\ n <= shares[p][a] /\ n <= supply[p]
      /\ res[p][1] \in Nat \ {0} /\ res[p][2] \in Nat \ {0}
      /\ d \in Nat \X Nat
      /\ n = supply[p] => d = res[p]
      /\ n # supply[p] => d[1] < res[p][1] /\ d[2] < res[p][2]
  BY Removed, SideIs
<1>2. a \in Holder
  BY DEF Holder
<1>3. /\ res' = [res EXCEPT ![p] = e] /\ supply' = [supply EXCEPT ![p] = m]
      /\ shares' = [shares EXCEPT ![p] = f]
      /\ held' = [held EXCEPT ![p[1]] = h1, ![p[2]] = h2]
      /\ \A s \in Side : d[s] <= held[p[s]]
  <2>1. p[1] # p[2]
    BY PoolIs
  <2> HIDE DEF d
  <2> QED BY <2>1 DEF RemoveLiquidity, AmmInv, AmmTypeOK, d
<1> HIDE DEF d
<1>4. supply[p] \in Nat /\ shares[p][a] \in Nat
  BY <1>2, ReserveIs, ShareIsSupplied DEF AmmInv
<1>5. held[p[1]] \in Nat /\ held[p[2]] \in Nat
  BY PoolIs DEF AmmInv, AmmTypeOK
<1>6. d[1] <= held[p[1]] /\ d[2] <= held[p[2]]
  BY <1>3, SideIs
<1>7. e \in Nat \X Nat /\ k \in Nat /\ m \in Nat /\ h1 \in Nat /\ h2 \in Nat
  BY <1>1, <1>4, <1>5, <1>6
<1>8. f \in [Holder -> Nat] /\ IsFiniteSet(Stack(f))
      /\ Cardinality(Stack(f)) = supply[p] + k - shares[p][a]
  BY <1>2, <1>7, SharesFollow
<1>9. m = Cardinality(Stack(f))
  BY <1>1, <1>4, <1>8
<1>10. h1 - e[1] = held[p[1]] - res[p][1] /\ h2 - e[2] = held[p[2]] - res[p][2]
  BY <1>1, <1>5
<1>11. (m = 0 <=> e[1] = 0) /\ (m = 0 <=> e[2] = 0)
  BY <1>1, <1>4
<1>12. res[p][1] <= MaxReserve /\ res[p][2] <= MaxReserve
  BY SideIs DEF AmmInv, Whole
<1>13. e[1] <= MaxReserve /\ e[2] <= MaxReserve
  BY <1>1, <1>12, MaxReserveIsNat
<1> HIDE DEF e, k, f, m, h1, h2
<1> QED BY <1>3, <1>7, <1>8, <1>9, <1>10, <1>11, <1>13, PoolReplaced

LEMMA SwapKeeps ==
    ASSUME AmmInv, NEW p \in Pools, NEW s \in Side, NEW x \in Nat, Swap(p, s, x)
    PROVE  AmmInv'
<1> DEFINE o == Other(s)
           in == res[p][s]
           out == res[p][o]
           y == AmountOut(x, in, out)
           hi == held[p[s]] + x
           ho == held[p[o]] - y
<1>1. o \in Side /\ o # s /\ ((s = 1 /\ o = 2) \/ (s = 2 /\ o = 1))
  BY SideIs
<1>2. in \in Nat /\ out \in Nat /\ held[p[s]] \in Nat /\ held[p[o]] \in Nat
  BY <1>1, ReserveIs, ReserveIsHeld DEF AmmInv
<1>3. Priced(x, in, out)
  BY DEF Swap
<1> HIDE DEF o, in, out
<1>4. y \in Nat /\ y < out /\ x > 0 /\ in > 0 /\ in + x <= MaxReserve
  BY <1>2, <1>3, PriceIsExact, MaxReserveIsNat DEF Priced
<1>5. /\ y <= held[p[o]]
      /\ res' = [res EXCEPT ![p] = [res[p] EXCEPT ![s] = in + x, ![o] = out - y]]
      /\ held' = [held EXCEPT ![p[s]] = hi, ![p[o]] = ho]
      /\ supply' = supply /\ shares' = shares
  <2>1. p[s] # p[o]
    BY <1>1, PoolIs
  <2> HIDE DEF y
  <2> QED BY <2>1 DEF Swap, AmmInv, AmmTypeOK, in, out, o, y
<1> HIDE DEF y
<1> DEFINE e == IF s = 1 THEN <<in + x, out - y>> ELSE <<out - y, in + x>>
           h1 == IF s = 1 THEN hi ELSE ho
           h2 == IF s = 1 THEN ho ELSE hi
<1>6. res[p] \in Nat \X Nat
  BY DEF AmmInv, AmmTypeOK
<1>7. res' = [res EXCEPT ![p] = e]
  <2>1. [res[p] EXCEPT ![s] = in + x, ![o] = out - y] = e
    BY <1>1, <1>6
  <2> HIDE DEF e
  <2> QED BY <1>5, <2>1
<1>8. held' = [held EXCEPT ![p[1]] = h1, ![p[2]] = h2]
  <2>1. p[1] # p[2]
    BY PoolIs
  <2>2. CASE s = 1
    BY <1>1, <1>5, <2>2
  <2>3. CASE s = 2
    <3>1. held' = [held EXCEPT ![p[2]] = hi, ![p[1]] = ho]
      BY <1>1, <1>5, <2>3
    <3> HIDE DEF hi, ho
    <3>2. [held EXCEPT ![p[2]] = hi, ![p[1]] = ho] = [held EXCEPT ![p[1]] = ho, ![p[2]] = hi]
      BY <2>1
    <3> QED BY <2>3, <3>1, <3>2
  <2> QED BY <1>1, <2>2, <2>3
<1>9. e \in Nat \X Nat /\ h1 \in Nat /\ h2 \in Nat
  BY <1>2, <1>4, <1>5
<1>10. supply[p] \in Nat /\ shares[p] \in [Holder -> Nat]
  BY ReserveIs DEF AmmInv
<1>11. /\ supply' = [supply EXCEPT ![p] = supply[p]]
       /\ shares' = [shares EXCEPT ![p] = shares[p]]
  BY <1>5 DEF AmmInv, AmmTypeOK
<1>12. /\ IsFiniteSet(Stack(shares[p])) /\ supply[p] = Cardinality(Stack(shares[p]))
       /\ supply[p] = 0 <=> in = 0
       /\ out <= MaxReserve
  BY <1>1 DEF AmmInv, Whole, in, out
<1>13. h1 - e[1] = held[p[1]] - res[p][1] /\ h2 - e[2] = held[p[2]] - res[p][2]
  <2>1. CASE s = 1
    BY <1>1, <1>2, <1>4, <2>1 DEF in, out
  <2>2. CASE s = 2
    BY <1>1, <1>2, <1>4, <2>2 DEF in, out
  <2> QED BY <1>1, <2>1, <2>2
<1>14. (supply[p] = 0 <=> e[1] = 0) /\ (supply[p] = 0 <=> e[2] = 0)
  BY <1>2, <1>4, <1>12
<1>15. e[1] <= MaxReserve /\ e[2] <= MaxReserve
  BY <1>2, <1>4, <1>12, MaxReserveIsNat
<1> HIDE DEF e, h1, h2
<1> QED BY <1>7, <1>8, <1>9, <1>10, <1>11, <1>12, <1>13, <1>14, <1>15, PoolReplaced

LEMMA TransferKeeps ==
    ASSUME AmmInv, NEW a \in Address, NEW p \in Pools, NEW to \in Holder, NEW n \in Nat,
           TransferLP(a, p, to, n)
    PROVE  AmmInv'
<1>1. a \in Holder
  BY DEF Holder
<1>2. shares[p] \in [Holder -> Nat]
  BY ReserveIs DEF AmmInv
<1> DEFINE f == [shares[p] EXCEPT ![a] = shares[p][a] - n]
           g == [f EXCEPT ![to] = shares[p][to] + n]
<1>3. to # a /\ n <= shares[p][a] /\ shares' = [shares EXCEPT ![p] = g]
      /\ UNCHANGED <<res, supply, held>>
  BY DEF TransferLP, AmmInv, AmmTypeOK
<1>4. /\ shares[p][a] \in Nat /\ shares[p][to] \in Nat
      /\ shares[p][a] - n \in Nat /\ shares[p][to] + n \in Nat
  BY <1>1, <1>2, <1>3
<1>5. /\ f \in [Holder -> Nat] /\ IsFiniteSet(Stack(f))
      /\ Cardinality(Stack(f)) = supply[p] + (shares[p][a] - n) - shares[p][a]
  BY <1>1, <1>4, SharesFollow
<1>6. g \in [Holder -> Nat] /\ f[to] = shares[p][to] /\ g[to] = shares[p][to] + n
      /\ \A b \in Holder \ {to} : g[b] = f[b]
  BY <1>2, <1>3, <1>4, <1>5
<1> HIDE DEF f, g
<1>7. IsFiniteSet(Stack(g)) /\ Cardinality(Stack(g)) = Cardinality(Stack(f)) + g[to] - f[to]
  BY <1>5, <1>6, StackMoves
<1>8. supply[p] \in Nat
  BY ReserveIs DEF AmmInv
<1>9. supply[p] = Cardinality(Stack(g))
  BY <1>4, <1>5, <1>6, <1>7, <1>8
<1>10. AmmTypeOK'
  BY <1>3, <1>6 DEF AmmInv, AmmTypeOK
<1>11. \A t \in Token : Funded(t)'
  BY <1>3 DEF AmmInv, Funded, Reserves
<1>12. \A q \in Pools : Whole(q)'
  <2>1. shares'[p] = g /\ \A q \in Pools \ {p} : shares'[q] = shares[q]
    BY <1>3 DEF AmmInv, AmmTypeOK
  <2>2. Whole(p)'
    BY <1>3, <1>7, <1>9, <2>1 DEF AmmInv, Whole
  <2>3. ASSUME NEW q \in Pools \ {p} PROVE Whole(q)'
    BY <1>3, <2>1 DEF AmmInv, Whole
  <2> QED BY <2>2, <2>3
<1> QED BY <1>10, <1>11, <1>12 DEF AmmInv

LEMMA StrayKeeps ==
    ASSUME AmmInv, NEW t \in Token, NEW n \in Nat, Stray(t, n)
    PROVE  AmmInv'
<1>1. held' = [held EXCEPT ![t] = held[t] + n] /\ UNCHANGED <<res, supply, shares>>
  BY DEF Stray, AmmInv, AmmTypeOK
<1>2. AmmTypeOK'
  BY <1>1 DEF AmmInv, AmmTypeOK
<1>3. ASSUME NEW u \in Token PROVE Funded(u)'
  <2>1. IsFiniteSet(Stack(Reserves(u))) /\ Cardinality(Stack(Reserves(u))) <= held[u]
    BY DEF AmmInv, Funded
  <2>2. Cardinality(Stack(Reserves(u))) \in Nat
    BY <2>1, FS_CardinalityType
  <2>3. held[u] \in Nat /\ held'[u] >= held[u]
    BY <1>1 DEF AmmInv, AmmTypeOK
  <2>4. held'[u] \in Nat
    BY <1>2 DEF AmmTypeOK
  <2>5. Reserves(u)' = Reserves(u)
    BY <1>1 DEF Reserves
  <2>6. Cardinality(Stack(Reserves(u))) <= held'[u]
    BY <2>1, <2>2, <2>3, <2>4
  <2> QED BY <2>1, <2>5, <2>6 DEF Funded
<1>4. \A q \in Pools : Whole(q)'
  BY <1>1 DEF AmmInv, Whole
<1> QED BY <1>2, <1>3, <1>4 DEF AmmInv

LEMMA InitIsWhole == Init => AmmInv
<1> SUFFICES ASSUME Init PROVE AmmInv
  OBVIOUS
<1>1. AmmTypeOK
  BY DEF Init, AmmTypeOK
<1>2. ASSUME NEW t \in Token PROVE Funded(t)
  <2>1. ASSUME NEW q \in DOMAIN Reserves(t) PROVE Reserves(t)[q] = 0
    <3>1. q[1] \in Pools /\ q[2] \in Side /\ Reserves(t)[q] = res[q[1]][q[2]]
      BY DEF Reserves
    <3>2. res[q[1]] = <<0, 0>>
      BY <3>1 DEF Init
    <3> QED BY <3>1, <3>2, SideIs
  <2>2. held[t] = 0
    BY DEF Init
  <2> QED BY <2>1, <2>2, StackOfNothing DEF Funded
<1>3. ASSUME NEW p \in Pools PROVE Whole(p)
  <2>1. \A h \in DOMAIN shares[p] : shares[p][h] = 0
    BY DEF Init
  <2>2. supply[p] = 0 /\ \A s \in Side : res[p][s] = 0
    BY SideIs DEF Init
  <2> QED BY <2>1, <2>2, StackOfNothing, MaxReserveIsNat DEF Whole
<1> QED BY <1>1, <1>2, <1>3 DEF AmmInv

LEMMA AmmInductive == AmmInv /\ [Next]_vars => AmmInv'
<1> SUFFICES ASSUME AmmInv, [Next]_vars PROVE AmmInv'
  OBVIOUS
<1>1. ASSUME NEW a \in Address, NEW p \in Pools, NEW x \in Amounts, NEW y \in Amounts,
             AddLiquidity(a, p, x, y)
      PROVE  AmmInv'
  BY <1>1, AddKeeps, AmountsAssumption
<1>2. ASSUME NEW a \in Address, NEW p \in Pools, NEW n \in Amounts, RemoveLiquidity(a, p, n)
      PROVE  AmmInv'
  BY <1>2, RemoveKeeps, AmountsAssumption
<1>3. ASSUME NEW a \in Address, NEW p \in Pools, NEW to \in Holder, NEW n \in Amounts,
             TransferLP(a, p, to, n)
      PROVE  AmmInv'
  BY <1>3, TransferKeeps, AmountsAssumption
<1>4. ASSUME NEW p \in Pools, NEW s \in Side, NEW x \in Amounts, Swap(p, s, x)
      PROVE  AmmInv'
  BY <1>4, SwapKeeps, AmountsAssumption
<1>5. ASSUME NEW t \in Token, NEW n \in Amounts, Stray(t, n)
      PROVE  AmmInv'
  BY <1>5, StrayKeeps, AmountsAssumption
<1>6. CASE UNCHANGED vars
  BY <1>6 DEF vars, AmmInv, AmmTypeOK, Funded, Whole, Reserves
<1> QED BY <1>1, <1>2, <1>3, <1>4, <1>5, <1>6 DEF Next

\* The invariant holds throughout: what the theorems below are read off.
THEOREM AmmCorrect == Spec => []AmmInv
BY InitIsWhole, AmmInductive, PTL DEF Spec

-----------------------------------------------------------------------------
(* The properties. *)

\* No operation of the market makes an amount negative: what is burned, paid
\* out or moved was there.
THEOREM AmmTypeCorrect == Spec => []AmmTypeOK
<1>1. AmmInv => AmmTypeOK
  BY DEF AmmInv
<1> QED BY <1>1, AmmCorrect, PTL

\* However liquidity, trades and shares interleave, a pool's supply is what its
\* holders have, it has shares exactly while it has both reserves, and no
\* reserve passes the cap.
THEOREM PoolsStayWhole == Spec => []PoolsAreWhole
<1>1. AmmInv => PoolsAreWhole
  BY DEF AmmInv, Whole, PoolsAreWhole
<1> QED BY <1>1, AmmCorrect, PTL

\* The realm holds what all pools of a token count as their reserves together.
THEOREM MarketIsSolvent == Spec => []Solvent
<1>1. AmmInv => Solvent
  BY DEF AmmInv, Funded, Solvent
<1> QED BY <1>1, AmmCorrect, PTL

\* Both together: no pool, and no pool beside another, loses track of a unit.
THEOREM PoolsStaySound == Spec => []PoolsAreSound
BY PoolsStayWhole, MarketIsSolvent, PTL DEF PoolsAreSound

\* For every amount that a pool prices, the price is exact and less than the
\* reserve it is paid from.
THEOREM PricingStaysSound == Spec => []PricingIsSound
<1>1. AmmInv => PricingIsSound
  <2>1. SUFFICES ASSUME AmmInv, NEW p \in Pools, NEW s \in Side, NEW x \in 1 .. MaxInt,
                        Priced(x, res[p][s], res[p][Other(s)])
                 PROVE  LET in == res[p][s]  out == res[p][Other(s)] IN
                        /\ AmountOut(x, in, out) =
                              (x * FeeNum * out) \div (in * FeeDen + x * FeeNum)
                        /\ AmountOut(x, in, out) < out
    BY DEF PricingIsSound
  <2>2. x \in Nat /\ res[p][s] \in Nat /\ res[p][Other(s)] \in Nat
    <3>1. Other(s) \in Side /\ x \in Nat
      BY SideIs, FeeAssumption
    <3> QED BY <2>1, <3>1, ReserveIs DEF AmmInv
  <2> QED BY <2>1, <2>2, PriceIsExact
<1> QED BY <1>1, AmmCorrect, PTL

\* No trade, deposit or withdrawal lowers what each share stands for.
NotDiluted(p) ==
    supply[p] > 0 /\ supply'[p] > 0 =>
        res'[p][1] * res'[p][2] * supply[p] * supply[p] >=
        res[p][1] * res[p][2] * supply'[p] * supply'[p]

LEMMA NotTouched ==
    ASSUME AmmInv, NEW p \in Pools, res'[p] = res[p], supply'[p] = supply[p]
    PROVE  NotDiluted(p)
<1> DEFINE k == res[p][1] * res[p][2] * supply[p] * supply[p]
<1>1. k \in Nat
  BY ReserveIs DEF AmmInv
<1>2. res'[p][1] * res'[p][2] * supply[p] * supply[p] = k
      /\ res[p][1] * res[p][2] * supply'[p] * supply'[p] = k
  OBVIOUS
<1> HIDE DEF k
<1> QED BY <1>1, <1>2 DEF NotDiluted

LEMMA AddDilutesNot ==
    ASSUME AmmInv, NEW a \in Address, NEW p \in Pools,
           NEW x \in Nat, NEW y \in Nat, AddLiquidity(a, p, x, y), supply[p] > 0
    PROVE  NotDiluted(p)
<1>1. PICK d \in Nat \X Nat, n \in Nat :
         /\ supply[p] # 0 => /\ n <= MulDiv(d[1], supply[p], res[p][1])
                             /\ n <= MulDiv(d[2], supply[p], res[p][2])
         /\ res' = [res EXCEPT ![p] = <<res[p][1] + d[1], res[p][2] + d[2]>>]
         /\ supply' = [supply EXCEPT ![p] = supply[p] + n]
  BY Added
<1> DEFINE t == supply[p]
           r1 == res[p][1]
           r2 == res[p][2]
<1>2. t \in Nat /\ r1 \in Nat \ {0} /\ r2 \in Nat \ {0}
  BY ReserveIs, SideIs DEF AmmInv, Whole
<1>3. supply'[p] = t + n /\ res'[p][1] = r1 + d[1] /\ res'[p][2] = r2 + d[2]
  BY <1>1 DEF AmmInv, AmmTypeOK
<1>4. n <= MulDiv(d[1], t, r1) /\ n <= MulDiv(d[2], t, r2)
  BY <1>1, <1>2
<1> HIDE DEF t, r1, r2
<1>5. (r1 + d[1]) * t >= r1 * (t + n) /\ (r2 + d[2]) * t >= r2 * (t + n)
  BY <1>2, <1>4, JoiningKeepsSide
<1> DEFINE e1 == r1 + d[1]
           e2 == r2 + d[2]
           m == t + n
<1>6. e1 \in Nat /\ e2 \in Nat /\ m \in Nat
  BY <1>2
<1>7. e1 * t >= r1 * m /\ e2 * t >= r2 * m
  BY <1>5
<1>8. supply'[p] = m /\ res'[p][1] = e1 /\ res'[p][2] = e2
  BY <1>3
<1> HIDE DEF e1, e2, m
<1>9. e1 * e2 * t * t >= r1 * r2 * m * m
  BY <1>2, <1>6, <1>7, ProductPerShare
<1> QED BY <1>8, <1>9 DEF NotDiluted, t, r1, r2

LEMMA RemoveDilutesNot ==
    ASSUME AmmInv, NEW a \in Address, NEW p \in Pools, NEW n \in Nat,
           RemoveLiquidity(a, p, n), supply'[p] > 0
    PROVE  NotDiluted(p)
<1> DEFINE t == supply[p]
           r1 == res[p][1]
           r2 == res[p][2]
           d == PaidOut(res[p], t, n)
           e1 == r1 - d[1]
           e2 == r2 - d[2]
           m == t - n
<1>1. supply'[p] = m /\ res'[p][1] = e1 /\ res'[p][2] = e2
  <2> HIDE DEF d
  <2> QED BY DEF RemoveLiquidity, AmmInv, AmmTypeOK, d
<1>2. t \in Nat /\ n <= t /\ r1 \in Nat /\ r2 \in Nat /\ d \in Nat \X Nat
  BY Removed, ReserveIs DEF AmmInv
<1>3. n # t
  BY <1>1, <1>2
<1>4. /\ d[1] < r1 /\ e1 * t >= r1 * m
      /\ d[2] < r2 /\ e2 * t >= r2 * m
  BY <1>3, Removed, SideIs
<1> HIDE DEF d
<1>5. e1 \in Nat /\ e2 \in Nat /\ m \in Nat
  BY <1>2, <1>4
<1> HIDE DEF t, r1, r2, e1, e2, m
<1>6. e1 * e2 * t * t >= r1 * r2 * m * m
  BY <1>2, <1>4, <1>5, ProductPerShare
<1> QED BY <1>1, <1>6 DEF NotDiluted, t, r1, r2

LEMMA SwapDilutesNot ==
    ASSUME AmmInv, NEW p \in Pools, NEW s \in Side, NEW x \in Nat, Swap(p, s, x)
    PROVE  NotDiluted(p)
<1> DEFINE o == Other(s)
           in == res[p][s]
           out == res[p][o]
           y == AmountOut(x, in, out)
           t == supply[p]
<1>1. o \in Side /\ ((s = 1 /\ o = 2) \/ (s = 2 /\ o = 1))
  BY SideIs
<1>2. /\ (in + x) * (out - y) >= in * out
      /\ res' = [res EXCEPT ![p] = [res[p] EXCEPT ![s] = in + x, ![o] = out - y]]
      /\ supply' = supply
  <2> HIDE DEF y
  <2> QED BY DEF Swap, AmmInv, AmmTypeOK, y
<1>3. in \in Nat /\ out \in Nat /\ t \in Nat
  BY <1>1, ReserveIs DEF AmmInv
<1>4. Priced(x, in, out)
  BY DEF Swap
<1> HIDE DEF in, out, o
<1>5. y \in Nat /\ y < out
  BY <1>3, <1>4, PriceIsExact
<1> HIDE DEF y
<1>6. res'[p][s] = in + x /\ res'[p][o] = out - y
  BY <1>1, <1>2 DEF AmmInv, AmmTypeOK
<1> DEFINE a == (in + x) * (out - y)
           b == in * out
<1>7. a \in Nat /\ b \in Nat /\ a >= b
  BY <1>2, <1>3, <1>5
<1>8. res'[p][1] * res'[p][2] = a /\ res[p][1] * res[p][2] = b
  BY <1>1, <1>3, <1>5, <1>6 DEF in, out
<1> HIDE DEF a, b
<1>9. supply'[p] = t
  BY <1>2
<1> HIDE DEF t
<1>10. a * t * t >= b * t * t
  <2>1. a * t >= b * t
    BY <1>3, <1>7
  <2>2. a * t \in Nat /\ b * t \in Nat
    BY <1>3, <1>7
  <2> QED BY <1>3, <2>1, <2>2
<1> QED BY <1>8, <1>9, <1>10 DEF NotDiluted, t

LEMMA OtherPool ==
    ASSUME AmmInv, NEW p \in Pools, NEW q \in Pools \ {p}, NEW e, NEW m,
           res' = [res EXCEPT ![p] = e], supply' = [supply EXCEPT ![p] = m]
    PROVE  NotDiluted(q)
BY NotTouched DEF AmmInv, AmmTypeOK

LEMMA StepDilutesNot ==
    ASSUME AmmInv, [Next]_vars, NEW q \in Pools
    PROVE  NotDiluted(q)
<1>1. ASSUME NEW a \in Address, NEW p \in Pools, NEW x \in Amounts, NEW y \in Amounts,
             AddLiquidity(a, p, x, y)
      PROVE  NotDiluted(q)
  <2>1. x \in Nat /\ y \in Nat
    BY AmountsAssumption
  <2>2. CASE q = p /\ supply[q] > 0
    BY <1>1, <2>1, <2>2, AddDilutesNot
  <2>3. CASE q # p
    BY <1>1, <2>3, OtherPool DEF AddLiquidity
  <2> QED BY <2>2, <2>3 DEF NotDiluted
<1>2. ASSUME NEW a \in Address, NEW p \in Pools, NEW n \in Amounts, RemoveLiquidity(a, p, n)
      PROVE  NotDiluted(q)
  <2>1. n \in Nat
    BY AmountsAssumption
  <2>2. CASE q = p /\ supply'[q] > 0
    BY <1>2, <2>1, <2>2, RemoveDilutesNot
  <2>3. CASE q # p
    BY <1>2, <2>3, OtherPool DEF RemoveLiquidity
  <2> QED BY <2>2, <2>3 DEF NotDiluted
<1>3. ASSUME NEW a \in Address, NEW p \in Pools, NEW to \in Holder, NEW n \in Amounts,
             TransferLP(a, p, to, n)
      PROVE  NotDiluted(q)
  BY <1>3, NotTouched DEF TransferLP
<1>4. ASSUME NEW p \in Pools, NEW s \in Side, NEW x \in Amounts, Swap(p, s, x)
      PROVE  NotDiluted(q)
  <2>1. CASE q = p
    BY <1>4, <2>1, SwapDilutesNot, AmountsAssumption
  <2>2. CASE q # p
    BY <1>4, <2>2, NotTouched DEF Swap, AmmInv, AmmTypeOK
  <2> QED BY <2>1, <2>2
<1>5. ASSUME NEW t \in Token, NEW n \in Amounts, Stray(t, n)
      PROVE  NotDiluted(q)
  BY <1>5, NotTouched DEF Stray
<1>6. CASE UNCHANGED vars
  BY <1>6, NotTouched DEF vars
<1> QED BY <1>1, <1>2, <1>3, <1>4, <1>5, <1>6 DEF Next

\* Whoever trades, joins or leaves, the product of the reserves that a share
\* stands for never falls.
THEOREM SharesAreNeverDiluted == Spec => ShareNeverDiluted
<1>1. AmmInv /\ [Next]_vars => \A p \in Pools : NotDiluted(p)
  BY StepDilutesNot
<1>2. AmmInv /\ [Next]_vars =>
        [\A p \in Pools :
          supply[p] > 0 /\ supply'[p] > 0 =>
              res'[p][1] * res'[p][2] * supply[p] * supply[p] >=
              res[p][1] * res[p][2] * supply'[p] * supply'[p]]_vars
  BY <1>1 DEF NotDiluted
<1> QED BY <1>2, AmmCorrect, PTL DEF Spec, ShareNeverDiluted
=============================================================================
