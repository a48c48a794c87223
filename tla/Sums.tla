-------------------------------- MODULE Sums --------------------------------
(***************************************************************************)
(* Sums over finite sets, as the properties use them: what changing one    *)
(* summand does to the sum, and how a sum compares with its summands.      *)
(*                                                                         *)
(* SumFunctionOnSet is a fold, that is a recursive function on the subsets *)
(* of the set; everything here is by induction on those subsets, which is  *)
(* stated for a set of subsets rather than for a predicate.                *)
(***************************************************************************)
EXTENDS Functions, FiniteSetTheorems, TLAPS

LEMMA SubsetInduction ==
    ASSUME NEW S, IsFiniteSet(S), NEW Good,
           {} \in Good,
           \A T \in SUBSET S : T # {} /\ (\A x \in T : T \ {x} \in Good) => T \in Good
    PROVE  \A T \in SUBSET S : T \in Good
<1> DEFINE Bad == (SUBSET S) \ Good
<1> SUFFICES ASSUME Bad # {} PROVE FALSE
  OBVIOUS
<1>1. IsWellFoundedOn(StrictSubsetOrdering(S), SUBSET S)
  BY FS_StrictSubsetOrderingWellFounded, FS_FiniteSubsetsOfFinite
<1>2. PICK T \in Bad : \A U \in Bad : <<U, T>> \notin StrictSubsetOrdering(S)
  <2> HIDE DEF Bad
  <2>1. Bad \subseteq SUBSET S
    BY DEF Bad
  <2> QED BY <1>1, <2>1, WFMin
<1>3. ASSUME NEW x \in T PROVE T \ {x} \in Good
  <2>1. <<T \ {x}, T>> \in StrictSubsetOrdering(S)
    BY DEF StrictSubsetOrdering
  <2> QED BY <1>2, <2>1
<1> QED BY <1>2, <1>3

\* Counting up to a number, one at a time.
LEMMA CountingUp ==
    ASSUME NEW Good, 0 \in Good, \A n \in Nat : n \in Good => n + 1 \in Good
    PROVE  \A n \in Nat : n \in Good
<1> DEFINE Bad == Nat \ Good
<1> SUFFICES ASSUME Bad # {} PROVE FALSE
  OBVIOUS
<1>1. PICK m \in Bad : \A n \in Bad : <<n, m>> \notin OpToRel(<, Nat)
  <2> HIDE DEF Bad
  <2>1. Bad \subseteq Nat
    BY DEF Bad
  <2> QED BY <2>1, NatLessThanWellFounded, WFMin
<1>2. m # 0 /\ m - 1 \in Nat /\ m - 1 < m
  OBVIOUS
<1>3. <<m - 1, m>> \in OpToRel(<, Nat)
  BY <1>2 DEF OpToRel
<1>4. m - 1 \in Good
  BY <1>1, <1>2, <1>3
<1>5. (m - 1) + 1 \in Good
  BY <1>2, <1>4
<1>6. m \in Nat /\ (m - 1) + 1 = m
  OBVIOUS
<1> QED BY <1>5, <1>6

-----------------------------------------------------------------------------
(* The fold is the recursive function it is written as. *)

First(T) == CHOOSE x \in T : TRUE
Added(f, g, T) == IF T = {} THEN 0 ELSE f[First(T)] + g[T \ {First(T)}]
Partial(f, S) == CHOOSE g : g = [T \in SUBSET S |-> Added(f, g, T)]

LEMMA FirstIn == ASSUME NEW T, T # {} PROVE First(T) \in T
BY DEF First

LEMMA SumIsPartial ==
    ASSUME NEW f, NEW S
    PROVE  SumFunctionOnSet(f, S) = Partial(f, S)[S]
BY DEF SumFunctionOnSet, FoldFunctionOnSet, MapThenFoldSet, Partial, Added, First

LEMMA SumsExist ==
    ASSUME NEW S, IsFiniteSet(S), NEW f, \A x \in S : f[x] \in Int
    PROVE  /\ Partial(f, S) = [T \in SUBSET S |-> Added(f, Partial(f, S), T)]
           /\ Partial(f, S) \in [SUBSET S -> Int]
<1> DEFINE UpTo(n, g) == \A T \in SUBSET S : Cardinality(T) <= n => g[T] = Added(f, g, T)
           Good == {n \in Nat : \E g \in [SUBSET S -> Int] : UpTo(n, g)}
<1>0. \A T \in SUBSET S : IsFiniteSet(T) /\ Cardinality(T) \in Nat
  BY FS_Subset, FS_CardinalityType
<1>1. ASSUME NEW T \in SUBSET S, T # {}
      PROVE  /\ First(T) \in S /\ f[First(T)] \in Int
             /\ T \ {First(T)} \in SUBSET S
             /\ Cardinality(T \ {First(T)}) = Cardinality(T) - 1
  BY <1>0, <1>1, FirstIn, FS_RemoveElement
<1>2. 0 \in Good
  <2>1. [T \in SUBSET S |-> 0] \in [SUBSET S -> Int]
    OBVIOUS
  <2>2. UpTo(0, [T \in SUBSET S |-> 0])
    BY <1>0, FS_EmptySet DEF Added
  <2> QED BY <2>1, <2>2
<1>3. ASSUME NEW n \in Nat, n \in Good PROVE n + 1 \in Good
  <2>1. PICK g \in [SUBSET S -> Int] : UpTo(n, g)
    BY <1>3
  <2> DEFINE h == [T \in SUBSET S |-> IF Cardinality(T) = n + 1 THEN Added(f, g, T) ELSE g[T]]
  <2>2. ASSUME NEW T \in SUBSET S PROVE Added(f, g, T) \in Int
    <3>1. CASE T = {}
      BY <3>1 DEF Added
    <3>2. CASE T # {}
      <4>1. g[T \ {First(T)}] \in Int /\ f[First(T)] \in Int
        BY <1>1, <3>2
      <4> QED BY <3>2, <4>1 DEF Added
    <3> QED BY <3>1, <3>2
  <2>3. h \in [SUBSET S -> Int]
    BY <2>2
  <2>4. ASSUME NEW T \in SUBSET S, Cardinality(T) <= n + 1 PROVE Added(f, h, T) = Added(f, g, T)
    BY <1>0, <1>1, <2>4 DEF Added
  <2>5. UpTo(n + 1, h)
    <3> SUFFICES ASSUME NEW T \in SUBSET S, Cardinality(T) <= n + 1
                 PROVE  h[T] = Added(f, h, T)
      OBVIOUS
    <3>1. CASE Cardinality(T) = n + 1
      BY <2>4, <3>1
    <3>2. CASE Cardinality(T) # n + 1
      BY <1>0, <2>1, <2>4, <3>2
    <3> QED BY <3>1, <3>2
  <2> HIDE DEF h, UpTo
  <2> QED BY <2>3, <2>5
<1>4. Cardinality(S) \in Good
  <2> HIDE DEF Good
  <2> QED BY <1>0, <1>2, <1>3, CountingUp
<1>5. PICK g \in [SUBSET S -> Int] : UpTo(Cardinality(S), g)
  BY <1>4
<1>6. g = [T \in SUBSET S |-> Added(f, g, T)]
  BY <1>5, FS_Subset
<1>7. Partial(f, S) = [T \in SUBSET S |-> Added(f, Partial(f, S), T)]
  BY <1>6 DEF Partial
<1> DEFINE p == Partial(f, S)
           Whole == {T \in SUBSET S : p[T] \in Int}
<1>8. {} \in Whole
  BY <1>7 DEF Added
<1>9. ASSUME NEW T \in SUBSET S, T # {}, \A x \in T : T \ {x} \in Whole PROVE T \in Whole
  <2>1. p[T] = f[First(T)] + p[T \ {First(T)}]
    BY <1>7, <1>9 DEF Added
  <2> QED BY <1>1, <1>9, <2>1, FirstIn
<1>10. \A T \in SUBSET S : T \in Whole
  <2> HIDE DEF Whole
  <2> QED BY <1>8, <1>9, SubsetInduction
<1> QED BY <1>7, <1>10

-----------------------------------------------------------------------------
(* What a sum is made of. *)

\* A sum of integers is one.
LEMMA SumType ==
    ASSUME NEW S, IsFiniteSet(S), NEW f, \A x \in S : f[x] \in Int
    PROVE  SumFunctionOnSet(f, S) \in Int
BY SumsExist, SumIsPartial

\* Changing one summand changes the sum as much.
LEMMA SumChange ==
    ASSUME NEW S, IsFiniteSet(S),
           NEW f, \A x \in S : f[x] \in Int,
           NEW g, \A x \in S : g[x] \in Int,
           NEW a \in S, \A x \in S \ {a} : g[x] = f[x]
    PROVE  SumFunctionOnSet(g, S) = SumFunctionOnSet(f, S) + g[a] - f[a]
<1> DEFINE p == Partial(f, S)
           q == Partial(g, S)
           Good == {T \in SUBSET S : q[T] = p[T] + (IF a \in T THEN g[a] - f[a] ELSE 0)}
<1>1. /\ p = [T \in SUBSET S |-> Added(f, p, T)] /\ p \in [SUBSET S -> Int]
      /\ q = [T \in SUBSET S |-> Added(g, q, T)] /\ q \in [SUBSET S -> Int]
  BY SumsExist
<1> HIDE DEF p, q
<1>2. {} \in Good
  BY <1>1 DEF Added
<1>3. ASSUME NEW T \in SUBSET S, T # {}, \A x \in T : T \ {x} \in Good PROVE T \in Good
  <2> DEFINE c == First(T)
             R == T \ {c}
  <2>1. /\ c \in T /\ c \in S /\ R \in SUBSET S /\ R \in Good
        /\ p[T] \in Int /\ q[T] \in Int /\ p[R] \in Int /\ q[R] \in Int
        /\ f[c] \in Int /\ g[c] \in Int /\ f[a] \in Int /\ g[a] \in Int
    BY <1>1, <1>3, FirstIn
  <2>2. p[T] = f[c] + p[R] /\ q[T] = g[c] + q[R]
    BY <1>1, <1>3 DEF Added
  <2>3. q[R] = p[R] + (IF a \in R THEN g[a] - f[a] ELSE 0)
    BY <2>1
  <2>4. c # a => g[c] = f[c]
    BY <2>1
  <2>5. a \in T <=> a \in R \/ c = a
    BY <2>1
  <2>6. a \in R => c # a
    OBVIOUS
  <2> HIDE DEF c, R
  <2>7. q[T] = p[T] + (IF a \in T THEN g[a] - f[a] ELSE 0)
    <3>1. CASE c = a
      BY <2>1, <2>2, <2>3, <2>5, <2>6, <3>1
    <3>2. CASE c # a
      BY <2>1, <2>2, <2>3, <2>4, <2>5, <3>2
    <3> QED BY <3>1, <3>2
  <2> QED BY <2>7
<1>4. \A T \in SUBSET S : T \in Good
  <2> HIDE DEF Good
  <2> QED BY <1>2, <1>3, SubsetInduction
<1>9. S \in Good
  BY <1>4
<1>5. q[S] = p[S] + (g[a] - f[a]) /\ q[S] \in Int /\ p[S] \in Int
  BY <1>1, <1>9
<1>6. f[a] \in Int /\ g[a] \in Int
  OBVIOUS
<1> QED BY <1>5, <1>6, SumIsPartial DEF p, q

\* The same summands have the same sum.
LEMMA SumSame ==
    ASSUME NEW S, IsFiniteSet(S),
           NEW f, \A x \in S : f[x] \in Int, NEW g, \A x \in S : g[x] = f[x]
    PROVE  SumFunctionOnSet(g, S) = SumFunctionOnSet(f, S)
<1>1. CASE S = {}
  <2>1. \A h : SumFunctionOnSet(h, {}) = 0
    <3> TAKE h
    <3>1. Partial(h, {}) = [T \in SUBSET {} |-> Added(h, Partial(h, {}), T)]
      BY FS_EmptySet, SumsExist
    <3> QED BY <3>1, SumIsPartial DEF Added
  <2> QED BY <1>1, <2>1
<1>2. CASE S # {}
  <2>1. PICK a \in S : TRUE
    BY <1>2
  <2>2. SumFunctionOnSet(g, S) = SumFunctionOnSet(f, S) + g[a] - f[a]
    BY <2>1, SumChange
  <2> QED BY <2>1, <2>2, SumType
<1> QED BY <1>1, <1>2

\* A sum of nothing but zeros is zero.
LEMMA SumOfZeros ==
    ASSUME NEW S, IsFiniteSet(S), NEW f, \A x \in S : f[x] = 0
    PROVE  SumFunctionOnSet(f, S) = 0
<1> DEFINE p == Partial(f, S)
           Good == {T \in SUBSET S : p[T] = 0}
<1>1. p = [T \in SUBSET S |-> Added(f, p, T)]
  <2>1. \A x \in S : f[x] \in Int
    OBVIOUS
  <2> QED BY <2>1, SumsExist
<1> HIDE DEF p
<1>2. {} \in Good
  BY <1>1 DEF Added
<1>3. ASSUME NEW T \in SUBSET S, T # {}, \A x \in T : T \ {x} \in Good PROVE T \in Good
  <2>1. First(T) \in T
    BY <1>3, FirstIn
  <2>2. p[T] = f[First(T)] + p[T \ {First(T)}]
    BY <1>1, <1>3 DEF Added
  <2>3. f[First(T)] = 0 /\ p[T \ {First(T)}] = 0
    BY <1>3, <2>1
  <2> QED BY <2>2, <2>3
<1>4. \A T \in SUBSET S : T \in Good
  <2> HIDE DEF Good
  <2> QED BY <1>2, <1>3, SubsetInduction
<1>9. S \in Good
  BY <1>4
<1> QED BY <1>9, SumIsPartial DEF p

\* A sum of naturals is one, and no summand is more.
LEMMA SumCovers ==
    ASSUME NEW S, IsFiniteSet(S), NEW f, \A x \in S : f[x] \in Nat
    PROVE  /\ SumFunctionOnSet(f, S) \in Nat
           /\ \A a \in S : f[a] <= SumFunctionOnSet(f, S)
<1> DEFINE p == Partial(f, S)
           Good == {T \in SUBSET S : p[T] >= 0 /\ \A a \in T : f[a] <= p[T]}
<1>1. p = [T \in SUBSET S |-> Added(f, p, T)] /\ p \in [SUBSET S -> Int]
  <2>1. \A x \in S : f[x] \in Int
    OBVIOUS
  <2> QED BY <2>1, SumsExist
<1> HIDE DEF p
<1>2. {} \in Good
  BY <1>1 DEF Added
<1>3. ASSUME NEW T \in SUBSET S, T # {}, \A x \in T : T \ {x} \in Good PROVE T \in Good
  <2> DEFINE c == First(T)
             R == T \ {c}
  <2>1. c \in T /\ f[c] \in Nat /\ R \in SUBSET S /\ R \in Good /\ p[R] \in Int
    BY <1>1, <1>3, FirstIn
  <2>2. p[T] = f[c] + p[R]
    BY <1>1, <1>3 DEF Added
  <2>3. p[R] >= 0 /\ \A a \in R : f[a] <= p[R]
    BY <2>1
  <2>4. ASSUME NEW a \in T PROVE f[a] <= p[T]
    <3>1. CASE a = c
      BY <2>1, <2>2, <2>3, <3>1
    <3>2. CASE a # c
      <4>1. a \in R /\ f[a] \in Int
        BY <3>2
      <4>2. f[a] <= p[R] /\ f[c] \in Int /\ f[c] >= 0
        BY <2>1, <2>3, <4>1
      <4> HIDE DEF R, c
      <4> QED BY <2>1, <2>2, <4>1, <4>2
    <3> QED BY <3>1, <3>2
  <2>5. p[T] >= 0
    BY <2>1, <2>2, <2>3
  <2> QED BY <2>4, <2>5
<1>4. \A T \in SUBSET S : T \in Good
  <2> HIDE DEF Good
  <2> QED BY <1>2, <1>3, SubsetInduction
<1>9. S \in Good
  BY <1>4
<1>10. p[S] \in Int /\ p[S] >= 0 /\ (\A a \in S : f[a] <= p[S])
  BY <1>1, <1>9
<1>11. p[S] \in Nat
  BY <1>10
<1> QED BY <1>10, <1>11, SumIsPartial DEF p

\* The fold may take its elements in any order.
LEMMA AnyFirst ==
    ASSUME NEW S, IsFiniteSet(S), NEW f, \A x \in S : f[x] \in Int,
           NEW T \in SUBSET S, NEW a \in T
    PROVE  Partial(f, S)[T] = f[a] + Partial(f, S)[T \ {a}]
<1> DEFINE p == Partial(f, S)
           Good == {U \in SUBSET S : \A y \in U : p[U] = f[y] + p[U \ {y}]}
<1>1. p = [U \in SUBSET S |-> Added(f, p, U)] /\ p \in [SUBSET S -> Int]
  BY SumsExist
<1> HIDE DEF p
<1>2. {} \in Good
  OBVIOUS
<1>3. ASSUME NEW U \in SUBSET S, U # {}, \A x \in U : U \ {x} \in Good PROVE U \in Good
  <2> SUFFICES ASSUME NEW y \in U PROVE p[U] = f[y] + p[U \ {y}]
    OBVIOUS
  <2> DEFINE c == First(U)
  <2>1. c \in U /\ p[U] = f[c] + p[U \ {c}]
    BY <1>1, <1>3, FirstIn DEF Added
  <2> HIDE DEF c
  <2>2. CASE y # c
    <3>1. U \ {c} \in Good /\ U \ {y} \in Good /\ y \in U \ {c} /\ c \in U \ {y}
      BY <1>3, <2>1, <2>2
    <3>2. p[U \ {c}] = f[y] + p[(U \ {c}) \ {y}] /\ p[U \ {y}] = f[c] + p[(U \ {y}) \ {c}]
      BY <3>1
    <3>3. (U \ {c}) \ {y} = (U \ {y}) \ {c} /\ (U \ {c}) \ {y} \in SUBSET S
      OBVIOUS
    <3>4. f[c] \in Int /\ f[y] \in Int /\ p[(U \ {c}) \ {y}] \in Int
      BY <1>1, <2>1, <3>3
    <3>5. p[U] = f[c] + (f[y] + p[(U \ {c}) \ {y}])
      BY <2>1, <3>2
    <3>6. p[U \ {y}] = f[c] + p[(U \ {c}) \ {y}]
      BY <3>2, <3>3
    <3> QED BY <3>4, <3>5, <3>6
  <2> QED BY <2>1, <2>2
<1>4. \A U \in SUBSET S : U \in Good
  <2> HIDE DEF Good
  <2> QED BY <1>2, <1>3, SubsetInduction
<1> QED BY <1>4 DEF p

\* One more summand.
LEMMA SumExtend ==
    ASSUME NEW S, IsFiniteSet(S), NEW a, a \notin S,
           NEW f, \A x \in S \cup {a} : f[x] \in Int
    PROVE  SumFunctionOnSet(f, S \cup {a}) = SumFunctionOnSet(f, S) + f[a]
<1> DEFINE p == Partial(f, S)
           W == S \cup {a}
           q == Partial(f, W)
           Good == {T \in SUBSET S : q[T] = p[T]}
<1>0. IsFiniteSet(W) /\ \A x \in S : f[x] \in Int
  BY FS_AddElement
<1>1. p = [T \in SUBSET S |-> Added(f, p, T)] /\ p \in [SUBSET S -> Int]
  BY <1>0, SumsExist
<1>2. q = [T \in SUBSET W |-> Added(f, q, T)] /\ q \in [SUBSET W -> Int]
  BY <1>0, SumsExist
<1>3. q[W] = f[a] + q[W \ {a}]
  BY <1>0, AnyFirst
<1>4. W \ {a} = S
  OBVIOUS
<1>5. SUBSET S \subseteq SUBSET W
  OBVIOUS
<1> HIDE DEF p, q, W
<1>6. {} \in Good
  BY <1>1, <1>2, <1>5 DEF Added
<1>7. ASSUME NEW T \in SUBSET S, T # {}, \A x \in T : T \ {x} \in Good PROVE T \in Good
  <2>1. First(T) \in T
    BY <1>7, FirstIn
  <2>2. p[T] = f[First(T)] + p[T \ {First(T)}] /\ q[T] = f[First(T)] + q[T \ {First(T)}]
    BY <1>1, <1>2, <1>5, <1>7 DEF Added
  <2> QED BY <1>7, <2>1, <2>2
<1>8. \A T \in SUBSET S : T \in Good
  <2> HIDE DEF Good
  <2> QED BY <1>6, <1>7, SubsetInduction
<1>9. q[S] = p[S] /\ p[S] \in Int /\ f[a] \in Int
  BY <1>1, <1>8
<1>10. q[W] = f[a] + p[S]
  BY <1>3, <1>4, <1>9, Zenon
<1>11. q[W] = p[S] + f[a]
  BY <1>9, <1>10
<1> QED BY <1>11, SumIsPartial DEF p, q, W

\* A summand that is all of the sum is the only one.
LEMMA SumLeavesNothing ==
    ASSUME NEW S, IsFiniteSet(S), NEW f, \A x \in S : f[x] \in Nat,
           NEW a \in S, SumFunctionOnSet(f, S) = f[a]
    PROVE  \A b \in S \ {a} : f[b] = 0
<1> DEFINE g == [x \in S |-> IF x = a THEN 0 ELSE f[x]]
<1>1. /\ \A x \in S : g[x] \in Nat /\ g[x] \in Int /\ f[x] \in Int
      /\ \A x \in S \ {a} : g[x] = f[x]
      /\ g[a] = 0
  OBVIOUS
<1> HIDE DEF g
<1>2. SumFunctionOnSet(g, S) = SumFunctionOnSet(f, S) + g[a] - f[a]
  BY <1>1, SumChange
<1>3. SumFunctionOnSet(g, S) = 0
  BY <1>1, <1>2
<1>4. \A x \in S : g[x] <= 0
  BY <1>1, <1>3, SumCovers
<1> QED
  <2> TAKE b \in S \ {a}
  <2>1. g[b] = f[b] /\ g[b] <= 0 /\ f[b] \in Nat
    BY <1>1, <1>4
  <2> QED BY <2>1

\* One more summand, taken out of a set.
LEMMA SumSplit ==
    ASSUME NEW S, IsFiniteSet(S), NEW a \in S, NEW f, \A x \in S : f[x] \in Int
    PROVE  SumFunctionOnSet(f, S) = SumFunctionOnSet(f, S \ {a}) + f[a]
<1> DEFINE R == S \ {a}
<1>1. IsFiniteSet(R) /\ a \notin R /\ R \cup {a} = S
  BY FS_RemoveElement
<1>2. \A x \in R \cup {a} : f[x] \in Int
  BY <1>1
<1> HIDE DEF R
<1>3. SumFunctionOnSet(f, R \cup {a}) = SumFunctionOnSet(f, R) + f[a]
  BY <1>1, <1>2, SumExtend
<1> QED BY <1>1, <1>3 DEF R

LEMMA SumOfNone == \A f : SumFunctionOnSet(f, {}) = 0
BY FS_EmptySet, SumOfZeros

\* Sums add up, summand by summand.
LEMMA SumAdds ==
    ASSUME NEW S, IsFiniteSet(S), NEW f, NEW g, NEW h,
           \A x \in S : f[x] \in Int /\ g[x] \in Int /\ h[x] = f[x] + g[x]
    PROVE  SumFunctionOnSet(h, S) = SumFunctionOnSet(f, S) + SumFunctionOnSet(g, S)
<1> DEFINE Good == {T \in SUBSET S : SumFunctionOnSet(h, T) =
                                     SumFunctionOnSet(f, T) + SumFunctionOnSet(g, T)}
<1>1. {} \in Good
  BY SumOfNone
<1>2. ASSUME NEW T \in SUBSET S, T # {}, \A x \in T : T \ {x} \in Good PROVE T \in Good
  <2>1. PICK a \in T : TRUE
    BY <1>2
  <2> DEFINE R == T \ {a}
             F == SumFunctionOnSet(f, R)
             G == SumFunctionOnSet(g, R)
             H == SumFunctionOnSet(h, R)
  <2>2. /\ IsFiniteSet(T) /\ IsFiniteSet(R)
        /\ \A x \in T : f[x] \in Int /\ g[x] \in Int /\ h[x] \in Int
        /\ \A x \in R : f[x] \in Int /\ g[x] \in Int
    BY FS_Subset
  <2>3. F \in Int /\ G \in Int
    BY <2>2, SumType
  <2>4. H = F + G
    BY <1>2, <2>1
  <2>5. /\ SumFunctionOnSet(f, T) = F + f[a] /\ SumFunctionOnSet(g, T) = G + g[a]
        /\ SumFunctionOnSet(h, T) = H + h[a]
    BY <2>1, <2>2, SumSplit
  <2>6. f[a] \in Int /\ g[a] \in Int /\ h[a] = f[a] + g[a]
    BY <2>1
  <2> HIDE DEF F, G, H
  <2>7. SumFunctionOnSet(h, T) = SumFunctionOnSet(f, T) + SumFunctionOnSet(g, T)
    BY <2>3, <2>4, <2>5, <2>6
  <2> QED BY <2>7
<1> HIDE DEF Good
<1>3. \A T \in SUBSET S : T \in Good
  <2>1. \A T \in SUBSET S : T # {} /\ (\A x \in T : T \ {x} \in Good) => T \in Good
    BY <1>2
  <2> QED BY <1>1, <2>1, SubsetInduction
<1> QED BY <1>3 DEF Good

\* A sum of what is linear in each summand.
LEMMA SumScales ==
    ASSUME NEW S, IsFiniteSet(S), NEW f, NEW h, NEW a \in Int, NEW b \in Int,
           \A x \in S : f[x] \in Int /\ h[x] = a + b * f[x]
    PROVE  SumFunctionOnSet(h, S) = Cardinality(S) * a + b * SumFunctionOnSet(f, S)
<1> DEFINE Good == {T \in SUBSET S : SumFunctionOnSet(h, T) =
                                     Cardinality(T) * a + b * SumFunctionOnSet(f, T)}
<1>1. {} \in Good
  BY SumOfNone, FS_EmptySet
<1>2. ASSUME NEW T \in SUBSET S, T # {}, \A x \in T : T \ {x} \in Good PROVE T \in Good
  <2>1. PICK c \in T : TRUE
    BY <1>2
  <2> DEFINE R == T \ {c}
             n == Cardinality(R)
             F == SumFunctionOnSet(f, R)
             H == SumFunctionOnSet(h, R)
  <2>2. /\ IsFiniteSet(T) /\ IsFiniteSet(R)
        /\ \A x \in T : f[x] \in Int /\ h[x] \in Int
        /\ \A x \in R : f[x] \in Int
    BY FS_Subset
  <2>3. F \in Int /\ n \in Nat /\ Cardinality(T) = n + 1
    <3>1. Cardinality(R) = Cardinality(T) - 1 /\ Cardinality(T) \in Nat /\ Cardinality(R) \in Nat
      BY <2>1, <2>2, FS_RemoveElement, FS_CardinalityType
    <3> QED BY <2>2, <3>1, SumType
  <2>4. H = n * a + b * F
    BY <1>2, <2>1
  <2>5. /\ SumFunctionOnSet(f, T) = F + f[c] /\ SumFunctionOnSet(h, T) = H + h[c]
    BY <2>1, <2>2, SumSplit
  <2>6. f[c] \in Int /\ h[c] = a + b * f[c]
    BY <2>1
  <2> HIDE DEF F, H, n
  <2>7. SumFunctionOnSet(h, T) = Cardinality(T) * a + b * SumFunctionOnSet(f, T)
    BY <2>3, <2>4, <2>5, <2>6
  <2> QED BY <2>7
<1> HIDE DEF Good
<1>3. \A T \in SUBSET S : T \in Good
  <2>1. \A T \in SUBSET S : T # {} /\ (\A x \in T : T \ {x} \in Good) => T \in Good
    BY <1>2
  <2> QED BY <1>1, <2>1, SubsetInduction
<1> QED BY <1>3 DEF Good

\* A sum of smaller summands is no larger.
LEMMA SumAtMost ==
    ASSUME NEW S, IsFiniteSet(S), NEW f, NEW g,
           \A x \in S : f[x] \in Int /\ g[x] \in Int /\ f[x] <= g[x]
    PROVE  SumFunctionOnSet(f, S) <= SumFunctionOnSet(g, S)
<1> DEFINE d == [x \in S |-> g[x] - f[x]]
<1>1. \A x \in S : f[x] \in Int /\ g[x] = f[x] + d[x] /\ d[x] \in Int /\ d[x] \in Nat
  OBVIOUS
<1> HIDE DEF d
<1>2. SumFunctionOnSet(g, S) = SumFunctionOnSet(f, S) + SumFunctionOnSet(d, S)
  BY <1>1, SumAdds
<1>3. SumFunctionOnSet(d, S) \in Nat /\ SumFunctionOnSet(f, S) \in Int
  BY <1>1, SumCovers, SumType
<1> QED BY <1>2, <1>3

\* A sum over part of a set is the sum over the set of what is nothing elsewhere.
LEMMA SumOfPart ==
    ASSUME NEW S, IsFiniteSet(S), NEW T \in SUBSET S, NEW f, NEW g,
           \A x \in T : f[x] \in Int,
           \A x \in S : g[x] = IF x \in T THEN f[x] ELSE 0
    PROVE  SumFunctionOnSet(f, T) = SumFunctionOnSet(g, S)
<1> DEFINE Good == {U \in SUBSET S : SumFunctionOnSet(g, U) = SumFunctionOnSet(f, U \cap T)}
<1>1. {} \in Good
  <2>1. {} \cap T = {}
    OBVIOUS
  <2> QED BY <2>1, SumOfNone
<1>2. ASSUME NEW U \in SUBSET S, U # {}, \A x \in U : U \ {x} \in Good PROVE U \in Good
  <2>1. PICK a \in U : TRUE
    BY <1>2
  <2> DEFINE R == U \ {a}
  <2>2. /\ IsFiniteSet(U) /\ IsFiniteSet(U \cap T) /\ IsFiniteSet(R \cap T) /\ IsFiniteSet(R)
        /\ \A x \in U : g[x] \in Int
        /\ \A x \in U \cap T : f[x] \in Int
        /\ \A x \in R \cap T : f[x] \in Int
    BY FS_Subset
  <2>3. SumFunctionOnSet(g, R) = SumFunctionOnSet(f, R \cap T)
    BY <1>2, <2>1
  <2>4. SumFunctionOnSet(g, U) = SumFunctionOnSet(g, R) + g[a]
    BY <2>1, <2>2, SumSplit
  <2>5. CASE a \in T
    <3>1. (U \cap T) \ {a} = R \cap T /\ a \in U \cap T /\ g[a] = f[a]
      BY <2>1, <2>5
    <3>2. SumFunctionOnSet(f, U \cap T) = SumFunctionOnSet(f, (U \cap T) \ {a}) + f[a]
      BY <2>2, <3>1, SumSplit
    <3> QED BY <2>3, <2>4, <3>1, <3>2
  <2>6. CASE a \notin T
    <3>1. U \cap T = R \cap T /\ g[a] = 0
      BY <2>1, <2>6
    <3>2. SumFunctionOnSet(f, R \cap T) \in Int
      BY <2>2, SumType
    <3>3. SumFunctionOnSet(g, U) = SumFunctionOnSet(g, R)
      BY <2>2, <2>3, <2>4, <3>1, <3>2
    <3>4. SumFunctionOnSet(f, U \cap T) = SumFunctionOnSet(f, R \cap T)
      BY <3>1
    <3> QED BY <2>3, <3>3, <3>4
  <2> QED BY <2>5, <2>6
<1> HIDE DEF Good
<1>3. \A U \in SUBSET S : U \in Good
  <2>1. \A U \in SUBSET S : U # {} /\ (\A x \in U : U \ {x} \in Good) => U \in Good
    BY <1>2
  <2> QED BY <1>1, <2>1, SubsetInduction
<1>4. S \cap T = T
  OBVIOUS
<1> QED BY <1>3, <1>4 DEF Good
=============================================================================
