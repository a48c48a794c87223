---------------------------- MODULE Crews_proofs ----------------------------
(***************************************************************************)
(* What holds of crews for every opening price, voting period and size,    *)
(* and whatever amounts are paid in.                                       *)
(***************************************************************************)
EXTENDS Crews, Sums

-----------------------------------------------------------------------------
(* Rounding. *)

LEMMA RoundedDown ==
    ASSUME NEW a \in Nat, NEW b \in Nat, NEW c \in Nat \ {0}
    PROVE  /\ MulDiv(a, b, c) \in Nat
           /\ MulDiv(a, b, c) * c <= a * b
           /\ a * b < (MulDiv(a, b, c) + 1) * c
<1> DEFINE p == a * b
<1>1. p \in Nat
  OBVIOUS
<1> HIDE DEF p
<1>2. /\ p \div c \in Nat
      /\ (p \div c) * c <= p
      /\ p < ((p \div c) + 1) * c
  BY <1>1
<1> QED BY <1>2 DEF MulDiv, p

\* The price a crew quotes buys a share, and one coin less does not: MulDivUp
\* in joinPrice answers exactly to MulDiv in Join.
THEOREM JoinPriceExact ==
    ASSUME NEW t \in Nat \ {0}, NEW s \in Nat \ {0}, NEW n \in Nat
    PROVE  MulDiv(n, s, t) >= 1 <=> n >= MulDivUp(1, t, s)
<1> DEFINE q == t \div s
           r == t % s
<1>1. q \in Nat /\ r \in Nat /\ t = s * q + r /\ r < s
  OBVIOUS
<1>2. MulDivUp(1, t, s) = IF r = 0 THEN q ELSE q + 1
  BY DEF MulDivUp, MulDiv
<1>3. MulDiv(n, s, t) \in Nat /\ MulDiv(n, s, t) * t <= n * s
      /\ n * s < (MulDiv(n, s, t) + 1) * t
  BY RoundedDown
<1> DEFINE m == MulDiv(n, s, t)
<1>4. m \in Nat /\ m * t <= n * s /\ n * s < (m + 1) * t
  BY <1>3
<1> HIDE DEF m, q, r
<1>5. m >= 1 <=> n * s >= t
  <2>1. CASE m = 0
    BY <1>4, <2>1
  <2>2. CASE m >= 1
    <3>1. m * t >= t
      BY <1>4, <2>2
    <3> QED BY <3>1, <1>4, <2>2
  <2> QED BY <1>4, <2>1, <2>2
<1>6. n * s >= t <=> n >= (IF r = 0 THEN q ELSE q + 1)
  <2>1. CASE n >= q + 1
    <3>1. n * s >= (q + 1) * s
      BY <1>1, <2>1
    <3> QED BY <3>1, <1>1, <2>1
  <2>2. CASE n = q
    <3>1. n * s = s * q
      BY <1>1, <2>2
    <3> QED BY <3>1, <1>1, <2>2
  <2>3. CASE n < q
    <3>1. n + 1 <= q
      BY <1>1, <2>3
    <3>2. (n + 1) * s <= q * s
      BY <1>1, <3>1
    <3> QED BY <3>2, <1>1, <2>3
  <2> QED BY <1>1, <2>1, <2>2, <2>3
<1> QED BY <1>2, <1>5, <1>6 DEF m

\* Buying shares at their value, rounded down, keeps the value of the others.
LEMMA JoinKeepsValue ==
    ASSUME NEW t \in Nat \ {0}, NEW s \in Nat \ {0}, NEW n \in Nat
    PROVE  (t + n) * s >= t * (s + MulDiv(n, s, t))
<1> DEFINE m == MulDiv(n, s, t)
<1>1. m \in Nat /\ m * t <= n * s
  BY RoundedDown
<1> HIDE DEF m
<1> QED BY <1>1 DEF m

\* Taking out a share of the treasury, rounded down, does too.
LEMMA LeavingKeepsValue ==
    ASSUME NEW t \in Nat, NEW s \in Nat \ {0}, NEW k \in Nat
    PROVE  (t - MulDiv(k, t, s)) * s >= t * (s - k)
<1> DEFINE m == MulDiv(k, t, s)
<1>1. m \in Nat /\ m * s <= k * t
  BY RoundedDown
<1> HIDE DEF m
<1> QED BY <1>1 DEF m

-----------------------------------------------------------------------------
(* Types. *)

LEMMA CrewsInit == Init => CrewsTypeOK
BY DEF Init, CrewsTypeOK

LEMMA CrewIsOne ==
    ASSUME CrewsTypeOK, NEW i \in Ids, Exists(i)
    PROVE  crews[i] \in Crew
BY DEF CrewsTypeOK, Exists

LEMMA PayIsNat ==
    ASSUME NEW amount \in Payments
    PROVE  amount \in Nat /\ amount \div InitialPrice \in Nat
BY CrewAmountAssumption DEF Payments

\* A call that only replaces a crew by a well-formed one.
LEMMA CrewReplaced ==
    ASSUME CrewsTypeOK, NEW i \in Ids, NEW c \in Crew,
           crews' = [crews EXCEPT ![i] = c],
           height' \in Nat, held' \in Int, owed' \in Int,
           credits' \in [Address -> Nat], props' = props
    PROVE  CrewsTypeOK'
BY DEF CrewsTypeOK

LEMMA CrewUpdated ==
    ASSUME NEW c \in Crew, NEW a \in Address, NEW t \in Int, NEW s \in Int,
           NEW k \in Nat
    PROVE  [c EXCEPT !.treasury = t, !.total = s, !.shares = [@ EXCEPT ![a] = k]] \in Crew
BY DEF Crew

LEMMA MintedIsNat ==
    ASSUME CrewsTypeOK, NEW i \in Ids, Exists(i), NEW n \in Payments,
           ~ AtOpeningPrice(crews[i]) => Fits(n, crews[i].total, crews[i].treasury)
    PROVE  Minted(crews[i], n) \in Nat
<1>1. crews[i].total \in Int /\ crews[i].treasury \in Int
  BY CrewIsOne DEF Crew
<1>2. CASE AtOpeningPrice(crews[i])
  BY <1>2, PayIsNat DEF Minted
<1>3. CASE ~ AtOpeningPrice(crews[i])
  <2>1. crews[i].total \in Nat /\ crews[i].treasury \in Nat \ {0} /\ n \in Nat
    BY <1>1, <1>3, PayIsNat DEF Fits
  <2> QED BY <2>1, <1>3, RoundedDown DEF Minted
<1> QED BY <1>2, <1>3

LEMMA CreateType ==
    ASSUME CrewsTypeOK, NEW a \in Address, NEW i \in Ids, NEW n \in Payments,
           Create(a, i, n)
    PROVE  CrewsTypeOK'
<1> DEFINE c == [treasury |-> n, total |-> n \div InitialPrice,
                 shares |-> [b \in Address |-> IF b = a THEN n \div InitialPrice ELSE 0]]
<1>1. c \in Crew
  BY PayIsNat DEF Crew
<1>2. crews' = [crews EXCEPT ![i] = c]
  BY DEF Create
<1>3. height' \in Nat /\ held' \in Int /\ owed' \in Int
      /\ credits' \in [Address -> Nat] /\ props' = props
  BY PayIsNat DEF Create, CrewsTypeOK
<1> HIDE DEF c
<1> QED BY <1>1, <1>2, <1>3, CrewReplaced

LEMMA JoinType ==
    ASSUME CrewsTypeOK, NEW a \in Address, NEW i \in Ids, NEW n \in Payments,
           Join(a, i, n)
    PROVE  CrewsTypeOK'
<1> DEFINE bought == Minted(crews[i], n)
           c == [crews[i] EXCEPT !.treasury = @ + n, !.total = @ + bought,
                                 !.shares = [@ EXCEPT ![a] = bought]]
<1>1. bought \in Nat
  BY MintedIsNat DEF Join
<1>2. crews[i] \in Crew /\ n \in Nat
  BY CrewIsOne, PayIsNat DEF Join
<1>3. crews' = [crews EXCEPT ![i] = c]
  BY DEF Join
<1> HIDE DEF bought
<1>4. c \in Crew
  <2>1. crews[i].treasury + n \in Int /\ crews[i].total + bought \in Int
    BY <1>1, <1>2 DEF Crew
  <2> QED BY <1>1, <1>2, <2>1, CrewUpdated
<1>5. height' \in Nat /\ held' \in Int /\ owed' \in Int
      /\ credits' \in [Address -> Nat] /\ props' = props
  BY <1>2 DEF Join, CrewsTypeOK
<1> HIDE DEF c
<1> QED BY <1>3, <1>4, <1>5, CrewReplaced

LEMMA FundType ==
    ASSUME CrewsTypeOK, NEW i \in Ids, NEW n \in Payments, Fund(i, n)
    PROVE  CrewsTypeOK'
<1> DEFINE c == [crews[i] EXCEPT !.treasury = @ + n]
<1>1. crews[i] \in Crew /\ n \in Nat
  BY CrewIsOne, PayIsNat DEF Fund
<1>2. c \in Crew
  BY <1>1 DEF Crew
<1>3. crews' = [crews EXCEPT ![i] = c]
  BY DEF Fund
<1>4. height' \in Nat /\ held' \in Int /\ owed' \in Int
      /\ credits' \in [Address -> Nat] /\ props' = props
  BY <1>1 DEF Fund, CrewsTypeOK
<1> HIDE DEF c
<1> QED BY <1>2, <1>3, <1>4, CrewReplaced

LEMMA RagequitType ==
    ASSUME CrewsTypeOK, NEW a \in Address, NEW i \in Ids, Ragequit(a, i)
    PROVE  CrewsTypeOK'
<1> DEFINE s == crews[i].shares[a]
           amount == MulDiv(s, crews[i].treasury, crews[i].total)
           c == [crews[i] EXCEPT !.treasury = @ - amount, !.total = @ - s,
                                 !.shares = [@ EXCEPT ![a] = 0]]
<1>1. crews[i] \in Crew
  BY CrewIsOne DEF Ragequit
<1>2. s \in Nat /\ crews[i].treasury \in Int /\ crews[i].total \in Int
  BY <1>1 DEF Crew
<1>3. crews[i].treasury \in Nat /\ crews[i].total \in Nat \ {0}
  BY <1>2 DEF Ragequit, Fits
<1>4. amount \in Nat
  BY <1>2, <1>3, RoundedDown
<1>5. crews' = [crews EXCEPT ![i] = c]
  BY DEF Ragequit
<1>6. credits' = [credits EXCEPT ![a] = @ + amount] /\ owed' = owed + amount
      /\ UNCHANGED <<height, props, held>>
  BY DEF Ragequit
<1> HIDE DEF amount, s
<1>7. c \in Crew
  <2>1. crews[i].treasury - amount \in Int /\ crews[i].total - s \in Int
    BY <1>2, <1>4
  <2> QED BY <1>1, <2>1, CrewUpdated
<1>8. height' \in Nat /\ held' \in Int /\ owed' \in Int
      /\ credits' \in [Address -> Nat] /\ props' = props
  BY <1>4, <1>6 DEF CrewsTypeOK
<1> HIDE DEF c
<1> QED BY <1>5, <1>7, <1>8, CrewReplaced

LEMMA WithdrawType ==
    ASSUME CrewsTypeOK, NEW a \in Address, Withdraw(a)
    PROVE  CrewsTypeOK'
<1>1. credits' \in [Address -> Nat] /\ owed' \in Int /\ held' \in Int
  BY DEF CrewsTypeOK, Withdraw
<1> QED BY <1>1 DEF CrewsTypeOK, Withdraw

\* A call that only replaces a proposal by a well-formed one.
LEMMA ProposalReplaced ==
    ASSUME CrewsTypeOK, NEW p \in PropIds, NEW q \in Proposal,
           props' = [props EXCEPT ![p] = q],
           UNCHANGED <<height, crews, credits, owed, held>>
    PROVE  CrewsTypeOK'
BY DEF CrewsTypeOK

LEMMA ProposalIsOne ==
    ASSUME CrewsTypeOK, NEW p \in PropIds, props[p] # NoProposal
    PROVE  props[p] \in Proposal
BY DEF CrewsTypeOK

LEMMA ProposeType ==
    ASSUME CrewsTypeOK, NEW a \in Address, NEW i \in Ids, NEW p \in PropIds,
           Propose(a, i, p)
    PROVE  CrewsTypeOK'
<1> DEFINE q == [crew |-> i, deadline |-> height + VoteBlocks, yes |-> 0, no |-> 0,
                 closed |-> FALSE, passed |-> FALSE,
                 votes |-> [b \in Address |-> NoBallot]]
<1>1. height + VoteBlocks \in Int
  BY CrewAmountAssumption DEF CrewsTypeOK
<1>2. q \in Proposal
  BY <1>1 DEF Proposal
<1>3. props' = [props EXCEPT ![p] = q]
  BY DEF Propose
<1>4. UNCHANGED <<height, crews, credits, owed, held>>
  BY DEF Propose
<1> HIDE DEF q
<1> QED BY <1>2, <1>3, <1>4, ProposalReplaced

LEMMA TallyIsInt ==
    ASSUME NEW tally \in Int, NEW b \in Ballot \cup {NoBallot}, NEW new \in Ballot,
           NEW yes \in BOOLEAN
    PROVE  With(Without(tally, b, yes), new, yes) \in Int
<1>1. b # NoBallot => b.weight \in Int
  BY DEF Ballot
<1>2. new.weight \in Int
  BY DEF Ballot
<1> QED BY <1>1, <1>2 DEF With, Without

LEMMA VoteType ==
    ASSUME CrewsTypeOK, NEW a \in Address, NEW p \in PropIds, NEW yes \in BOOLEAN,
           Vote(a, p, yes)
    PROVE  CrewsTypeOK'
<1> DEFINE q == props[p]
           old == q.votes[a]
           new == [yes |-> yes, weight |-> crews[q.crew].shares[a]]
           r == [q EXCEPT !.votes = [@ EXCEPT ![a] = new],
                          !.yes = With(Without(@, old, TRUE), new, TRUE),
                          !.no  = With(Without(@, old, FALSE), new, FALSE)]
<1>1. q \in Proposal
  BY ProposalIsOne DEF Vote
<1>2. q.crew \in Ids /\ old \in Ballot \cup {NoBallot} /\ q.yes \in Int /\ q.no \in Int
  BY <1>1 DEF Proposal
<1>3. crews[q.crew] \in Crew
  BY <1>2, CrewIsOne DEF Vote
<1>4. new \in Ballot
  <2>1. crews[q.crew].shares[a] \in Nat
    BY <1>3 DEF Crew
  <2>2. crews[q.crew].shares[a] > 0
    BY DEF Vote
  <2> QED BY <2>1, <2>2 DEF Ballot
<1>5. props' = [props EXCEPT ![p] = r] /\ UNCHANGED <<height, crews, credits, owed, held>>
  BY DEF Vote
<1>6. /\ With(Without(q.yes, old, TRUE), new, TRUE) \in Int
      /\ With(Without(q.no, old, FALSE), new, FALSE) \in Int
  <2> HIDE DEF new, old, q
  <2> QED BY <1>2, <1>4, TallyIsInt
<1> HIDE DEF new, old
<1>7. r \in Proposal
  BY <1>1, <1>4, <1>6 DEF Proposal
<1> HIDE DEF r
<1> QED BY <1>5, <1>7, ProposalReplaced

LEMMA CloseType ==
    ASSUME CrewsTypeOK, NEW p \in PropIds, Close(p)
    PROVE  CrewsTypeOK'
<1> DEFINE q == [props[p] EXCEPT !.closed = TRUE, !.passed = props[p].yes > props[p].no]
<1>1. props[p] \in Proposal
  BY ProposalIsOne DEF Close
<1>2. q \in Proposal
  <2> DEFINE won == props[p].yes > props[p].no
  <2>1. won \in BOOLEAN
    OBVIOUS
  <2> HIDE DEF won
  <2>2. [props[p] EXCEPT !.closed = TRUE, !.passed = won] \in Proposal
    BY <1>1, <2>1 DEF Proposal
  <2> QED BY <2>2 DEF won
<1>3. props' = [props EXCEPT ![p] = q] /\ UNCHANGED <<height, crews, credits, owed, held>>
  BY DEF Close
<1> HIDE DEF q
<1> QED BY <1>2, <1>3, ProposalReplaced

LEMMA TickType == CrewsTypeOK /\ Tick => CrewsTypeOK'
BY DEF CrewsTypeOK, Tick

LEMMA CrewsStep == CrewsTypeOK /\ [Next]_vars => CrewsTypeOK'
<1> SUFFICES ASSUME CrewsTypeOK, [Next]_vars PROVE CrewsTypeOK'
  OBVIOUS
<1>1. ASSUME NEW a \in Address, NEW i \in Ids, NEW n \in Payments, Create(a, i, n)
      PROVE  CrewsTypeOK'
  BY <1>1, CreateType
<1>2. ASSUME NEW a \in Address, NEW i \in Ids, NEW n \in Payments, Join(a, i, n)
      PROVE  CrewsTypeOK'
  BY <1>2, JoinType
<1>3. ASSUME NEW i \in Ids, NEW n \in Payments, Fund(i, n)
      PROVE  CrewsTypeOK'
  BY <1>3, FundType
<1>4. ASSUME NEW a \in Address, NEW i \in Ids, Ragequit(a, i)
      PROVE  CrewsTypeOK'
  BY <1>4, RagequitType
<1>5. ASSUME NEW a \in Address, Withdraw(a) PROVE CrewsTypeOK'
  BY <1>5, WithdrawType
<1>6. ASSUME NEW a \in Address, NEW i \in Ids, NEW p \in PropIds, Propose(a, i, p)
      PROVE  CrewsTypeOK'
  BY <1>6, ProposeType
<1>7. ASSUME NEW a \in Address, NEW p \in PropIds, NEW yes \in BOOLEAN, Vote(a, p, yes)
      PROVE  CrewsTypeOK'
  BY <1>7, VoteType
<1>8. ASSUME NEW p \in PropIds, Close(p) PROVE CrewsTypeOK'
  BY <1>8, CloseType
<1>9. CASE UNCHANGED vars
  BY <1>9 DEF CrewsTypeOK, vars
<1> QED
  BY <1>1, <1>2, <1>3, <1>4, <1>5, <1>6, <1>7, <1>8, <1>9, TickType DEF Next

\* No call, whatever it is sent, breaks a record of a crew, a proposal or the
\* ledger of credits.
THEOREM CrewsTypeCorrect == Spec => []CrewsTypeOK
BY CrewsInit, CrewsStep, PTL DEF Spec

-----------------------------------------------------------------------------
(* The value of a share. *)

\* What ValueNeverFalls says of one step and one crew.
KeepsValue(i) ==
    Exists(i) /\ crews[i].total > 0 /\ crews'[i].total > 0
        => crews'[i].treasury * crews[i].total >= crews[i].treasury * crews'[i].total

LEMMA JoinValue ==
    ASSUME CrewsTypeOK, NEW a \in Address, NEW i \in Ids, NEW n \in Payments,
           Join(a, i, n), NEW j \in Ids
    PROVE  KeepsValue(j)
<1> DEFINE bought == Minted(crews[i], n)
           t == crews[i].treasury
           s == crews[i].total
<1>1. crews[i] \in Crew /\ n \in Nat
  BY CrewIsOne, PayIsNat DEF Join
<1>2. t \in Int /\ s \in Int
  BY <1>1 DEF Crew
<1>3. crews' = [crews EXCEPT ![i] =
                  [crews[i] EXCEPT !.treasury = t + n, !.total = s + bought,
                                   !.shares = [@ EXCEPT ![a] = bought]]]
  BY DEF Join
<1>4. bought \in Nat
  BY MintedIsNat DEF Join
<1>5. CASE j # i
  <2>1. crews'[j] = crews[j]
    BY <1>3, <1>5 DEF CrewsTypeOK
  <2>2. Exists(j) => crews[j].treasury \in Int /\ crews[j].total \in Int
    BY CrewIsOne DEF Crew
  <2> QED BY <2>1, <2>2 DEF KeepsValue
<1>6. CASE j = i
  <2>1. crews'[i].treasury = t + n /\ crews'[i].total = s + bought
    <3> HIDE DEF bought
    <3> QED BY <1>1, <1>3 DEF CrewsTypeOK, Crew
  <2>2. ASSUME s > 0 PROVE (t + n) * s >= t * (s + bought)
    <3>1. CASE t = 0
      <4> HIDE DEF bought, t, s
      <4>1. n * s >= 0
        BY <1>1, <1>2, <2>2
      <4> QED BY <1>1, <1>2, <1>4, <3>1, <4>1
    <3>2. CASE t # 0
      <4>1. ~ AtOpeningPrice(crews[i])
        BY <2>2, <3>2, <1>2 DEF AtOpeningPrice
      <4>2. t > 0
        BY <4>1 DEF Join, Fits
      <4>3. bought = MulDiv(n, s, t)
        BY <4>1 DEF Minted
      <4>4. t \in Nat \ {0} /\ s \in Nat \ {0}
        BY <1>2, <2>2, <4>2
      <4> HIDE DEF bought, t, s
      <4> QED BY <1>1, <4>3, <4>4, JoinKeepsValue
    <3> QED BY <3>1, <3>2
  <2> QED BY <1>6, <2>1, <2>2 DEF KeepsValue
<1> QED BY <1>5, <1>6

LEMMA FundValue ==
    ASSUME CrewsTypeOK, NEW i \in Ids, NEW n \in Payments, Fund(i, n), NEW j \in Ids
    PROVE  KeepsValue(j)
<1> DEFINE t == crews[i].treasury
           s == crews[i].total
<1>1. crews[i] \in Crew /\ n \in Nat
  BY CrewIsOne, PayIsNat DEF Fund
<1>2. t \in Int /\ s \in Int
  BY <1>1 DEF Crew
<1>3. crews' = [crews EXCEPT ![i] = [crews[i] EXCEPT !.treasury = t + n]]
  BY DEF Fund
<1>4. CASE j # i
  <2>1. crews'[j] = crews[j]
    BY <1>3, <1>4 DEF CrewsTypeOK
  <2>2. Exists(j) => crews[j].treasury \in Int /\ crews[j].total \in Int
    BY CrewIsOne DEF Crew
  <2> QED BY <2>1, <2>2 DEF KeepsValue
<1>5. CASE j = i
  <2>1. crews'[i].treasury = t + n /\ crews'[i].total = s
    BY <1>1, <1>3 DEF CrewsTypeOK, Crew
  <2>2. ASSUME s > 0 PROVE (t + n) * s >= t * s
    <3> HIDE DEF t, s
    <3>1. n * s >= 0
      BY <1>1, <1>2, <2>2
    <3> QED BY <1>1, <1>2, <3>1
  <2> QED BY <1>5, <2>1, <2>2 DEF KeepsValue
<1> QED BY <1>4, <1>5

LEMMA RagequitValue ==
    ASSUME CrewsTypeOK, NEW a \in Address, NEW i \in Ids, Ragequit(a, i), NEW j \in Ids
    PROVE  KeepsValue(j)
<1> DEFINE t == crews[i].treasury
           s == crews[i].total
           k == crews[i].shares[a]
           amount == MulDiv(k, t, s)
<1>1. crews[i] \in Crew
  BY CrewIsOne DEF Ragequit
<1>2. t \in Int /\ s \in Int /\ k \in Nat
  BY <1>1 DEF Crew
<1>3. t \in Nat /\ s \in Nat \ {0}
  BY <1>2 DEF Ragequit, Fits
<1>4. crews' = [crews EXCEPT ![i] =
                  [crews[i] EXCEPT !.treasury = t - amount, !.total = s - k,
                                   !.shares = [@ EXCEPT ![a] = 0]]]
  BY DEF Ragequit
<1>5. CASE j # i
  <2>1. crews'[j] = crews[j]
    BY <1>4, <1>5 DEF CrewsTypeOK
  <2>2. Exists(j) => crews[j].treasury \in Int /\ crews[j].total \in Int
    BY CrewIsOne DEF Crew
  <2> QED BY <2>1, <2>2 DEF KeepsValue
<1>6. CASE j = i
  <2>1. crews'[i].treasury = t - amount /\ crews'[i].total = s - k
    <3> HIDE DEF amount, k
    <3> QED BY <1>1, <1>4 DEF CrewsTypeOK, Crew
  <2>2. (t - amount) * s >= t * (s - k)
    <3> HIDE DEF t, s, k
    <3> QED BY <1>2, <1>3, LeavingKeepsValue
  <2> QED BY <1>6, <2>1, <2>2 DEF KeepsValue
<1> QED BY <1>5, <1>6

\* A created crew did not exist before.
LEMMA CreateValue ==
    ASSUME CrewsTypeOK, NEW a \in Address, NEW i \in Ids, NEW n \in Payments,
           Create(a, i, n), NEW j \in Ids
    PROVE  KeepsValue(j)
<1>1. Exists(j) => j # i
  BY DEF Create
<1>2. Exists(j) => crews'[j] = crews[j]
  BY <1>1 DEF Create, CrewsTypeOK
<1>3. Exists(j) => crews[j].treasury \in Int /\ crews[j].total \in Int
  BY CrewIsOne DEF Crew
<1> QED BY <1>2, <1>3 DEF KeepsValue

LEMMA QuietValue ==
    ASSUME CrewsTypeOK, crews' = crews, NEW j \in Ids
    PROVE  KeepsValue(j)
<1>1. Exists(j) => crews[j].treasury \in Int /\ crews[j].total \in Int
  BY CrewIsOne DEF Crew
<1> QED BY <1>1 DEF KeepsValue

LEMMA ValueStep ==
    ASSUME CrewsTypeOK, [Next]_vars, NEW j \in Ids
    PROVE  KeepsValue(j)
<1>1. ASSUME NEW a \in Address, NEW i \in Ids, NEW n \in Payments, Create(a, i, n)
      PROVE  KeepsValue(j)
  BY <1>1, CreateValue
<1>2. ASSUME NEW a \in Address, NEW i \in Ids, NEW n \in Payments, Join(a, i, n)
      PROVE  KeepsValue(j)
  BY <1>2, JoinValue
<1>3. ASSUME NEW i \in Ids, NEW n \in Payments, Fund(i, n)
      PROVE  KeepsValue(j)
  BY <1>3, FundValue
<1>4. ASSUME NEW a \in Address, NEW i \in Ids, Ragequit(a, i)
      PROVE  KeepsValue(j)
  BY <1>4, RagequitValue
<1>5. ASSUME \/ \E a \in Address : Withdraw(a)
             \/ \E a \in Address, i \in Ids, p \in PropIds : Propose(a, i, p)
             \/ \E a \in Address, p \in PropIds, yes \in BOOLEAN : Vote(a, p, yes)
             \/ \E p \in PropIds : Close(p)
             \/ Tick
             \/ UNCHANGED vars
      PROVE  crews' = crews
  BY <1>5 DEF Withdraw, Propose, Vote, Close, Tick, vars
<1> QED
  BY <1>1, <1>2, <1>3, <1>4, <1>5, QuietValue DEF Next

\* Whatever the opening price, the amounts and the order of calls, no step makes
\* a share of any crew worth less.
THEOREM CrewsKeepValue == Spec => ValueNeverFalls
<1>1. CrewsTypeOK /\ [Next]_vars =>
        \A i \in Ids : LET c == crews[i]  d == crews'[i] IN
            Exists(i) /\ c.total > 0 /\ d.total > 0
                => d.treasury * c.total >= c.treasury * d.total
  BY ValueStep DEF KeepsValue
<1> QED BY <1>1, CrewsTypeCorrect, PTL DEF Spec, ValueNeverFalls

-----------------------------------------------------------------------------
(* What a crew keeps beside its shares. *)

\* A crew whose total is the sum of its shares and whose pot is not empty while
\* somebody holds a share.
SoundCrew(c) ==
    /\ c \in Crew /\ c.treasury >= 0
    /\ c.total = SumFunction(c.shares)
    /\ c.total > 0 => c.treasury > 0

CrewsSound == \A i \in Ids : Exists(i) => SoundCrew(crews[i])

LEMMA SoundCrewFacts ==
    ASSUME NEW c, SoundCrew(c)
    PROVE  /\ c.treasury \in Nat /\ c.total \in Nat
           /\ \A a \in Address : c.shares[a] \in Nat /\ c.shares[a] <= c.total
<1>1. c.treasury \in Nat /\ c.shares \in [Address -> Nat]
  BY DEF SoundCrew, Crew
<1>2. /\ SumFunctionOnSet(c.shares, Address) \in Nat
      /\ \A a \in Address : c.shares[a] <= SumFunctionOnSet(c.shares, Address)
  BY <1>1, CrewFiniteAssumption, SumCovers
<1> QED BY <1>1, <1>2 DEF SoundCrew, SumFunction

\* One member's shares change, and the total with them.
LEMMA TotalFollows ==
    ASSUME NEW c, SoundCrew(c), NEW a \in Address, NEW k \in Nat,
           NEW t \in Nat, NEW s \in Int, s = c.total + k - c.shares[a], s > 0 => t > 0
    PROVE  SoundCrew([c EXCEPT !.treasury = t, !.total = s, !.shares = [@ EXCEPT ![a] = k]])
<1> DEFINE f == [c.shares EXCEPT ![a] = k]
           d == [c EXCEPT !.treasury = t, !.total = s, !.shares = [@ EXCEPT ![a] = k]]
<1>1. c \in Crew /\ c.shares \in [Address -> Nat] /\ c.total = SumFunction(c.shares)
  BY DEF SoundCrew, Crew
<1>2. d \in Crew
  <2>1. c \in Crew /\ t \in Int
    BY <1>1
  <2> QED BY <2>1, CrewUpdated
<1>3. d.treasury = t /\ d.total = s /\ d.shares = f
  BY <1>1 DEF Crew
<1>4. /\ f \in [Address -> Nat] /\ f[a] = k /\ \A b \in Address \ {a} : f[b] = c.shares[b]
      /\ \A b \in Address : f[b] \in Int /\ c.shares[b] \in Int
  BY <1>1
<1> HIDE DEF f, d
<1>5. SumFunctionOnSet(f, Address) = SumFunctionOnSet(c.shares, Address) + f[a] - c.shares[a]
  BY <1>4, CrewFiniteAssumption, SumChange
<1>6. SumFunction(f) = s
  BY <1>1, <1>4, <1>5 DEF SumFunction
<1>7. SoundCrew(d)
  BY <1>2, <1>3, <1>6 DEF SoundCrew
<1> QED BY <1>7 DEF d

\* A call that stores one sound crew.
LEMMA CrewStored ==
    ASSUME CrewsTypeOK, CrewsSound, NEW i \in Ids, NEW c, SoundCrew(c),
           crews' = [crews EXCEPT ![i] = c]
    PROVE  CrewsSound'
BY DEF CrewsSound, CrewsTypeOK, Exists

-----------------------------------------------------------------------------
(* The coins of the treasuries. *)

LEMMA PotsAreInts == CrewsTypeOK => \A i \in Ids : Pot(i) \in Int
BY CrewIsOne DEF Pot, Crew

PotsFit == \A i \in Ids : Pot(i) \in Int
LEMMA PotsDoFit == CrewsTypeOK => PotsFit
BY PotsAreInts DEF PotsFit

LEMMA TreasuriesType == ASSUME CrewsTypeOK PROVE Treasuries \in Int
<1> DEFINE f == [i \in Ids |-> Pot(i)]
<1>1. DOMAIN f = Ids /\ \A i \in Ids : f[i] \in Int
  BY PotsAreInts
<1> HIDE DEF f
<1>2. SumFunction(f) \in Int
  BY <1>1, CrewFiniteAssumption, SumType DEF SumFunction
<1> QED BY <1>2 DEF Treasuries, f

LEMMA OnePotChanges ==
    ASSUME CrewsTypeOK, CrewsTypeOK', NEW i \in Ids,
           \A j \in Ids \ {i} : crews'[j] = crews[j]
    PROVE  Treasuries' = Treasuries + Pot(i)' - Pot(i)
<1>1. PotsFit /\ PotsFit'
  BY PotsDoFit, PTL
<1>2. \A j \in Ids \ {i} : Pot(j)' = Pot(j)
  BY DEF Pot, Exists
<1> DEFINE f == [j \in Ids |-> Pot(j)]
           g == [j \in Ids |-> Pot(j)']
<1>3. /\ \A j \in Ids : f[j] \in Int /\ g[j] \in Int
      /\ \A j \in Ids \ {i} : g[j] = f[j]
  BY <1>1, <1>2 DEF PotsFit
<1>4. SumFunctionOnSet(g, Ids) = SumFunctionOnSet(f, Ids) + g[i] - f[i]
  <2> HIDE DEF f, g
  <2> QED BY <1>3, CrewFiniteAssumption, SumChange
<1> QED BY <1>4 DEF Treasuries, SumFunction

-----------------------------------------------------------------------------
(* What each call does to one crew. *)

LEMMA CreateMoves ==
    ASSUME CrewsTypeOK, CrewsSound, NEW a \in Address, NEW i \in Ids, NEW n \in Payments,
           Create(a, i, n)
    PROVE  /\ CrewsSound' /\ Pot(i) = 0 /\ Pot(i)' = n
           /\ \A j \in Ids \ {i} : crews'[j] = crews[j]
<1> DEFINE m == n \div InitialPrice
           f == [b \in Address |-> IF b = a THEN m ELSE 0]
           z == [b \in Address |-> 0]
           c == [treasury |-> n, total |-> m, shares |-> f]
<1>1. n \in Nat /\ n >= InitialPrice /\ m \in Nat /\ n > 0
  BY PayIsNat, CrewAmountAssumption DEF Create, Payments
<1> HIDE DEF m
<1>2. /\ f \in [Address -> Nat] /\ DOMAIN f = Address /\ f[a] = m /\ z[a] = 0
      /\ \A b \in Address : f[b] \in Int /\ z[b] \in Int /\ z[b] = 0
      /\ \A b \in Address \ {a} : f[b] = z[b]
  BY <1>1
<1>3. c.treasury = n /\ c.total = m /\ c.shares = f /\ crews' = [crews EXCEPT ![i] = c] /\ ~ Exists(i)
  BY DEF Create, m
<1> HIDE DEF f, z
<1>4. SumFunctionOnSet(f, Address) = SumFunctionOnSet(z, Address) + f[a] - z[a]
  BY <1>2, CrewFiniteAssumption, SumChange
<1>5. SumFunctionOnSet(z, Address) = 0
  BY <1>2, CrewFiniteAssumption, SumOfZeros
<1>6. SumFunction(f) = m
  BY <1>1, <1>2, <1>4, <1>5 DEF SumFunction
<1>7. c \in Crew
  BY <1>1, <1>2 DEF Crew
<1> HIDE DEF c
<1>8. SoundCrew(c)
  BY <1>1, <1>3, <1>6, <1>7 DEF SoundCrew
<1>9. crews'[i] = c /\ c # NoCrew /\ \A j \in Ids \ {i} : crews'[j] = crews[j]
  BY <1>3, <1>7, NothingAssumption DEF CrewsTypeOK
<1> QED BY <1>3, <1>8, <1>9, CrewStored DEF Pot, Exists

LEMMA JoinMoves ==
    ASSUME CrewsTypeOK, CrewsSound, NEW a \in Address, NEW i \in Ids, NEW n \in Payments,
           Join(a, i, n)
    PROVE  /\ CrewsSound' /\ Pot(i)' = Pot(i) + n
           /\ crews'[i].total > 0
           /\ \A j \in Ids \ {i} : crews'[j] = crews[j]
<1> DEFINE c == crews[i]
           bought == Minted(c, n)
           t == c.treasury + n
           s == c.total + bought
           d == [c EXCEPT !.treasury = t, !.total = s, !.shares = [@ EXCEPT ![a] = bought]]
<1>1. Exists(i) /\ SoundCrew(c) /\ c \in Crew /\ c.shares[a] = 0 /\ bought >= 1
  BY DEF Join, CrewsSound, SoundCrew
<1>2. bought \in Nat /\ n \in Nat /\ n > 0
  BY MintedIsNat, PayIsNat DEF Join, Payments
<1>3. crews' = [crews EXCEPT ![i] = d]
  BY DEF Join
<1> HIDE DEF bought
<1>4. c.treasury \in Nat /\ c.total \in Nat
  BY <1>1, SoundCrewFacts
<1>5. t \in Nat /\ t > 0 /\ s \in Int /\ s > 0 /\ s = c.total + bought - c.shares[a]
  BY <1>1, <1>2, <1>4
<1>6. d.treasury = t /\ d.total = s
  BY <1>1 DEF Crew
<1>7. SoundCrew(d)
  <2> HIDE DEF t, s, c
  <2> QED BY <1>1, <1>2, <1>5, TotalFollows
<1> HIDE DEF d
<1>8. d # NoCrew
  BY <1>7, NothingAssumption DEF SoundCrew
<1>9. crews'[i] = d /\ \A j \in Ids \ {i} : crews'[j] = crews[j]
  BY <1>3 DEF CrewsTypeOK
<1> QED BY <1>1, <1>3, <1>5, <1>6, <1>7, <1>8, <1>9, CrewStored DEF Pot, Exists

LEMMA FundMoves ==
    ASSUME CrewsTypeOK, CrewsSound, NEW i \in Ids, NEW n \in Payments, Fund(i, n)
    PROVE  /\ CrewsSound' /\ Pot(i)' = Pot(i) + n
           /\ crews'[i].total = crews[i].total
           /\ \A j \in Ids \ {i} : crews'[j] = crews[j]
<1> DEFINE c == crews[i]
           d == [c EXCEPT !.treasury = @ + n]
<1>1. Exists(i) /\ SoundCrew(c) /\ c \in Crew /\ c.treasury \in Nat /\ c.total \in Nat
  BY SoundCrewFacts DEF Fund, CrewsSound, SoundCrew
<1>2. n \in Nat /\ n > 0
  BY PayIsNat DEF Payments
<1>3. crews' = [crews EXCEPT ![i] = d]
  BY DEF Fund
<1>4. d \in Crew /\ d.treasury = c.treasury + n /\ d.total = c.total /\ d.shares = c.shares
  BY <1>1, <1>2 DEF Crew
<1> HIDE DEF d
<1>5. SoundCrew(d)
  BY <1>1, <1>2, <1>4 DEF SoundCrew
<1>6. crews'[i] = d /\ d # NoCrew /\ \A j \in Ids \ {i} : crews'[j] = crews[j]
  BY <1>3, <1>4, NothingAssumption DEF CrewsTypeOK
<1> QED BY <1>1, <1>3, <1>4, <1>5, <1>6, CrewStored DEF Pot, Exists

\* A leaver takes their part of the pot, all of it when there is nobody else.
LEMMA PartOfThePot ==
    ASSUME NEW t \in Nat, NEW s \in Nat \ {0}, NEW k \in Nat, k <= s
    PROVE  /\ MulDiv(k, t, s) \in Nat /\ MulDiv(k, t, s) <= t
           /\ k = s => MulDiv(k, t, s) = t
           /\ k < s /\ t > 0 => MulDiv(k, t, s) < t
<1> DEFINE m == MulDiv(k, t, s)
<1>1. m \in Nat /\ m * s <= k * t /\ k * t < (m + 1) * s
  BY RoundedDown
<1> HIDE DEF m
<1>2. ASSUME k < s, t > 0 PROVE m < t
  <2> SUFFICES ASSUME m >= t PROVE FALSE
    BY <1>1
  <2>1. m * s >= t * s
    BY <1>1
  <2>2. k * t < s * t
    BY <1>2
  <2> QED BY <1>1, <2>1, <2>2
<1>3. ASSUME k = s PROVE m = t
  <2>1. CASE m > t
    <3>1. m * s >= (t + 1) * s
      BY <1>1, <2>1
    <3> QED BY <1>1, <1>3, <3>1
  <2>2. CASE m < t
    <3>1. (m + 1) * s <= t * s
      BY <1>1, <2>2
    <3> QED BY <1>1, <1>3, <3>1
  <2> QED BY <1>1, <2>1, <2>2
<1>4. m <= t
  <2>1. CASE t = 0
    <3>1. m * s <= 0
      BY <1>1, <2>1
    <3>2. m > 0 => m * s >= s
      BY <1>1
    <3> QED BY <1>1, <2>1, <3>1, <3>2
  <2>2. CASE t > 0
    BY <1>1, <1>2, <1>3, <2>2
  <2> QED BY <2>1, <2>2
<1> QED BY <1>1, <1>2, <1>3, <1>4 DEF m

LEMMA RagequitMoves ==
    ASSUME CrewsTypeOK, CrewsSound, NEW a \in Address, NEW i \in Ids, Ragequit(a, i)
    PROVE  \E amount \in Nat :
              /\ CrewsSound' /\ Pot(i)' = Pot(i) - amount
              /\ \A j \in Ids \ {i} : crews'[j] = crews[j]
              /\ credits' = [credits EXCEPT ![a] = @ + amount] /\ owed' = owed + amount
              /\ held' = held
              /\ crews'[i].treasury = crews[i].treasury - amount
              /\ crews'[i].total = 0 =>
                    /\ amount = crews[i].treasury
                    /\ crews[i].total = crews[i].shares[a]
                    /\ crews[i].shares[a] > 0
<1> DEFINE c == crews[i]
           k == c.shares[a]
           amount == MulDiv(k, c.treasury, c.total)
           t == c.treasury - amount
           s == c.total - k
           d == [c EXCEPT !.treasury = t, !.total = s, !.shares = [@ EXCEPT ![a] = 0]]
<1>1. /\ Exists(i) /\ SoundCrew(c) /\ c \in Crew /\ k > 0
      /\ c.treasury \in Nat /\ c.total \in Nat /\ k \in Nat /\ k <= c.total
  BY SoundCrewFacts DEF Ragequit, CrewsSound, SoundCrew
<1>2. /\ crews' = [crews EXCEPT ![i] = d]
      /\ credits' = [credits EXCEPT ![a] = @ + amount] /\ owed' = owed + amount /\ held' = held
  BY DEF Ragequit
<1>3. c.total \in Nat \ {0} /\ c.treasury > 0
  BY <1>1 DEF SoundCrew
<1>4. /\ amount \in Nat /\ amount <= c.treasury
      /\ k = c.total => amount = c.treasury
      /\ k < c.total => amount < c.treasury
  <2> HIDE DEF c, k
  <2> QED BY <1>1, <1>3, PartOfThePot
<1> HIDE DEF amount
<1>5. t \in Nat /\ s \in Int /\ s = c.total + 0 - c.shares[a] /\ (s > 0 => t > 0)
  BY <1>1, <1>4
<1>6. d.treasury = t /\ d.total = s
  BY <1>1 DEF Crew
<1>7. SoundCrew(d)
  <2> HIDE DEF t, s, c
  <2> QED BY <1>1, <1>5, TotalFollows
<1> HIDE DEF d
<1>8. crews'[i] = d /\ d # NoCrew /\ \A j \in Ids \ {i} : crews'[j] = crews[j]
  BY <1>2, <1>7, NothingAssumption DEF CrewsTypeOK, SoundCrew
<1>9. CrewsSound'
  BY <1>2, <1>7, CrewStored
<1>10. Pot(i) = c.treasury /\ Pot(i)' = t
  BY <1>1, <1>6, <1>8 DEF Pot, Exists
<1>11. s = 0 => k = c.total
  BY <1>1
<1>12. amount \in Nat
  BY <1>4
<1> QED BY <1>1, <1>2, <1>4, <1>6, <1>8, <1>9, <1>10, <1>11, <1>12

-----------------------------------------------------------------------------
(* The running tallies. *)

\* A ballot that takes the place of another moves a tally by their difference.
LEMMA BallotReplaced ==
    ASSUME NEW q \in Proposal, NEW a \in Address, NEW new \in Ballot, NEW yes \in BOOLEAN,
           NEW r \in Proposal, r.votes = [q.votes EXCEPT ![a] = new],
           NEW tally, tally = Weight(q, yes)
    PROVE  /\ Weight(r, yes) = With(Without(tally, q.votes[a], yes), new, yes)
           /\ Weight(r, yes) \in Int
<1> DEFINE f == [b \in Address |-> Counts(q.votes[b], yes)]
           g == [b \in Address |-> Counts(r.votes[b], yes)]
<1>1. q.votes \in [Address -> Ballot \cup {NoBallot}]
  BY DEF Proposal
<1>2. \A b \in Ballot : b # NoBallot /\ b.weight \in Int
  BY NothingAssumption DEF Ballot
<1>3. \A b \in Ballot \cup {NoBallot} : Counts(b, yes) \in Int
  BY <1>2 DEF Counts, With
<1>4. /\ DOMAIN f = Address /\ DOMAIN g = Address
      /\ \A b \in Address : f[b] \in Int /\ g[b] \in Int
      /\ \A b \in Address \ {a} : g[b] = f[b]
  BY <1>1, <1>3
<1>5. g[a] = Counts(new, yes) /\ f[a] = Counts(q.votes[a], yes)
  BY <1>1
<1>6. Weight(q, yes) = SumFunction(f) /\ Weight(r, yes) = SumFunction(g)
  BY DEF Weight
<1> HIDE DEF f, g
<1>7. SumFunctionOnSet(g, Address) = SumFunctionOnSet(f, Address) + g[a] - f[a]
  BY <1>4, CrewFiniteAssumption, SumChange
<1>8. SumFunctionOnSet(f, Address) \in Int
  BY <1>4, CrewFiniteAssumption, SumType
<1>9. Weight(r, yes) = tally + Counts(new, yes) - Counts(q.votes[a], yes) /\ tally \in Int
  BY <1>4, <1>5, <1>6, <1>7, <1>8 DEF SumFunction
<1>10. q.votes[a] = NoBallot \/ q.votes[a] \in Ballot
  BY <1>1
<1>11. new.weight \in Int /\ new # NoBallot
  BY <1>2
<1>12. Counts(new, yes) = IF new.yes = yes THEN new.weight ELSE 0
  BY <1>11 DEF Counts, With
<1>13. CASE q.votes[a] = NoBallot
  BY <1>9, <1>11, <1>12, <1>13 DEF Counts, With, Without
<1>14. CASE q.votes[a] \in Ballot
  <2> DEFINE old == q.votes[a]
  <2>1. old.weight \in Int /\ old # NoBallot
    BY <1>2, <1>14
  <2>2. Counts(old, yes) = IF old.yes = yes THEN old.weight ELSE 0
    BY <2>1 DEF Counts, With
  <2>3. Without(tally, old, yes) = IF old.yes = yes THEN tally - old.weight ELSE tally
    BY <2>1 DEF Without
  <2> HIDE DEF old
  <2>4. Weight(r, yes) = tally + Counts(new, yes) - Counts(old, yes)
    BY <1>9 DEF old
  <2>5. With(Without(tally, old, yes), new, yes) =
            IF new.yes = yes THEN Without(tally, old, yes) + new.weight
                             ELSE Without(tally, old, yes)
    BY DEF With
  <2>6. /\ Weight(r, yes) = With(Without(tally, old, yes), new, yes)
        /\ Weight(r, yes) \in Int
    BY <1>9, <1>11, <1>12, <2>1, <2>2, <2>3, <2>4, <2>5
  <2> QED BY <2>6 DEF old
<1> QED BY <1>10, <1>13, <1>14

\* What TallyMatchesBallots says of one proposal.
Tallied(q) ==
    /\ q.yes = Weight(q, TRUE) /\ q.no = Weight(q, FALSE)
    /\ q.closed => (q.passed <=> Weight(q, TRUE) > Weight(q, FALSE))

LEMMA ProposeTallies ==
    ASSUME CrewsTypeOK, TallyMatchesBallots,
           NEW a \in Address, NEW i \in Ids, NEW p \in PropIds, Propose(a, i, p)
    PROVE  TallyMatchesBallots'
<1> DEFINE v == [b \in Address |-> NoBallot]
           q == [crew |-> i, deadline |-> height + VoteBlocks, yes |-> 0, no |-> 0,
                 closed |-> FALSE, passed |-> FALSE, votes |-> v]
<1>1. \A yes \in BOOLEAN : Weight(q, yes) = 0
  <2> TAKE yes \in BOOLEAN
  <2> DEFINE f == [b \in Address |-> Counts(q.votes[b], yes)]
  <2>1. DOMAIN f = Address /\ \A b \in Address : f[b] = 0
    BY DEF Counts
  <2>2. Weight(q, yes) = SumFunction(f)
    BY DEF Weight
  <2> HIDE DEF f, q
  <2>3. SumFunction(f) = 0
    BY <2>1, CrewFiniteAssumption, SumOfZeros DEF SumFunction
  <2> QED BY <2>2, <2>3
<1>2. props' = [props EXCEPT ![p] = q] /\ q.yes = 0 /\ q.no = 0 /\ q.closed = FALSE
  BY DEF Propose
<1> HIDE DEF q
<1>3. Tallied(q)
  BY <1>1, <1>2 DEF Tallied
<1>4. \A r \in PropIds : props'[r] = IF r = p THEN q ELSE props[r]
  BY <1>2 DEF CrewsTypeOK
<1> QED BY <1>3, <1>4 DEF TallyMatchesBallots, Tallied

LEMMA VoteTallies ==
    ASSUME CrewsTypeOK, CrewsTypeOK', TallyMatchesBallots,
           NEW a \in Address, NEW p \in PropIds, NEW yes \in BOOLEAN, Vote(a, p, yes)
    PROVE  TallyMatchesBallots'
<1> DEFINE q == props[p]
           old == q.votes[a]
           new == [yes |-> yes, weight |-> crews[q.crew].shares[a]]
           r == [q EXCEPT !.votes = [@ EXCEPT ![a] = new],
                          !.yes = With(Without(@, old, TRUE), new, TRUE),
                          !.no  = With(Without(@, old, FALSE), new, FALSE)]
<1>1. q \in Proposal /\ ~ q.closed /\ Tallied(q)
  BY ProposalIsOne DEF Vote, TallyMatchesBallots, Tallied
<1>2. props' = [props EXCEPT ![p] = r] /\ q # NoProposal
  BY DEF Vote
<1>3. props'[p] = r /\ \A s \in PropIds \ {p} : props'[s] = props[s]
  BY <1>2 DEF CrewsTypeOK
<1>4. new \in Ballot
  <2>1. q.crew \in Ids /\ Exists(q.crew)
    BY <1>1 DEF Vote, Proposal
  <2>2. crews[q.crew] \in Crew
    BY <2>1, CrewIsOne
  <2>3. crews[q.crew].shares[a] \in Nat
    BY <2>2 DEF Crew
  <2>4. crews[q.crew].shares[a] > 0
    BY DEF Vote
  <2> QED BY <2>3, <2>4 DEF Ballot
<1>5. /\ r.votes = [q.votes EXCEPT ![a] = new] /\ r.closed = q.closed
      /\ r.yes = With(Without(q.yes, q.votes[a], TRUE), new, TRUE)
      /\ r.no = With(Without(q.no, q.votes[a], FALSE), new, FALSE)
  BY <1>1 DEF Proposal
<1> HIDE DEF new
<1>6. r \in Proposal
  <2>1. /\ With(Without(q.yes, old, TRUE), new, TRUE) \in Int
        /\ With(Without(q.no, old, FALSE), new, FALSE) \in Int
    <3>1. old \in Ballot \cup {NoBallot} /\ q.yes \in Int /\ q.no \in Int
      BY <1>1 DEF Proposal
    <3> HIDE DEF old, q
    <3> QED BY <1>4, <3>1, TallyIsInt
  <2> HIDE DEF old
  <2> QED BY <1>1, <1>4, <2>1 DEF Proposal
<1> HIDE DEF r
<1>7. Weight(r, TRUE) = r.yes /\ Weight(r, FALSE) = r.no
  <2>1. q.yes = Weight(q, TRUE) /\ q.no = Weight(q, FALSE)
    BY <1>1 DEF Tallied
  <2> HIDE DEF q
  <2>2. \A v \in BOOLEAN :
           Weight(r, v) = With(Without(Weight(q, v), q.votes[a], v), new, v)
    BY <1>1, <1>4, <1>5, <1>6, BallotReplaced
  <2>3. TRUE \in BOOLEAN /\ FALSE \in BOOLEAN
    OBVIOUS
  <2>4. /\ Weight(r, TRUE) = With(Without(Weight(q, TRUE), q.votes[a], TRUE), new, TRUE)
        /\ Weight(r, FALSE) = With(Without(Weight(q, FALSE), q.votes[a], FALSE), new, FALSE)
    BY <2>2, <2>3, Zenon
  <2> QED BY <1>5, <2>1, <2>4
<1>8. Tallied(r)
  BY <1>1, <1>5, <1>7 DEF Tallied
<1> QED BY <1>3, <1>8 DEF TallyMatchesBallots, Tallied

LEMMA CloseTallies ==
    ASSUME CrewsTypeOK, TallyMatchesBallots, NEW p \in PropIds, Close(p)
    PROVE  TallyMatchesBallots'
<1> DEFINE q == props[p]
           won == q.yes > q.no
           r == [q EXCEPT !.closed = TRUE, !.passed = won]
<1>1. q \in Proposal /\ Tallied(q) /\ props' = [props EXCEPT ![p] = r]
  BY ProposalIsOne DEF Close, TallyMatchesBallots, Tallied
<1>2. props'[p] = r /\ \A s \in PropIds \ {p} : props'[s] = props[s]
  BY <1>1 DEF CrewsTypeOK
<1>3. r.votes = q.votes /\ r.yes = q.yes /\ r.no = q.no /\ (r.passed <=> won)
  <2>1. won \in BOOLEAN
    OBVIOUS
  <2> HIDE DEF won
  <2> QED BY <1>1, <2>1 DEF Proposal
<1>4. \A yes \in BOOLEAN : Weight(r, yes) = Weight(q, yes)
  BY <1>3 DEF Weight
<1> HIDE DEF r
<1>5. Tallied(r)
  BY <1>1, <1>3, <1>4 DEF Tallied
<1> QED BY <1>2, <1>5 DEF TallyMatchesBallots, Tallied

-----------------------------------------------------------------------------
(* The invariant. *)

\* Beside the types and the three facts CrewsAreSound names, no pot is below zero:
\* the next joiner of a crew nobody is left in would find it so otherwise.
CrewsInv ==
    /\ CrewsTypeOK /\ CrewsSound /\ TallyMatchesBallots
    /\ held = Treasuries + owed

LEMMA CrewsInvInit == Init => CrewsInv
<1> SUFFICES ASSUME Init PROVE CrewsInv
  OBVIOUS
<1>1. CrewsTypeOK /\ CrewsSound /\ TallyMatchesBallots
  BY CrewsInit DEF Init, CrewsSound, Exists, TallyMatchesBallots
<1>2. Treasuries = 0
  <2> DEFINE f == [i \in Ids |-> Pot(i)]
  <2>1. DOMAIN f = Ids /\ \A i \in Ids : f[i] = 0
    BY DEF Init, Pot, Exists
  <2> HIDE DEF f
  <2>2. SumFunction(f) = 0
    BY <2>1, CrewFiniteAssumption, SumOfZeros DEF SumFunction
  <2> QED BY <2>2 DEF Treasuries, f
<1> QED BY <1>1, <1>2 DEF CrewsInv, Init

\* Calls that touch no proposal leave every tally alone.
LEMMA SameTallies ==
    ASSUME TallyMatchesBallots, props' = props PROVE TallyMatchesBallots'
BY DEF TallyMatchesBallots

\* Calls that touch no crew leave every pot alone.
LEMMA SameCrews ==
    ASSUME crews' = crews PROVE Treasuries' = Treasuries /\ (CrewsSound => CrewsSound')
BY DEF Treasuries, Pot, Exists, CrewsSound

LEMMA CrewsInvStep == CrewsInv /\ [Next]_vars => CrewsInv'
<1> SUFFICES ASSUME CrewsInv, [Next]_vars PROVE CrewsInv'
  OBVIOUS
<1>0. /\ CrewsTypeOK /\ CrewsTypeOK' /\ CrewsSound /\ TallyMatchesBallots
      /\ held = Treasuries + owed
      /\ Treasuries \in Int /\ owed \in Int /\ held \in Int /\ PotsFit
  BY CrewsStep, TreasuriesType, PotsDoFit DEF CrewsInv, CrewsTypeOK
<1>1. ASSUME NEW i \in Ids, NEW n \in Nat, CrewsSound', Pot(i)' = Pot(i) + n,
             \A j \in Ids \ {i} : crews'[j] = crews[j],
             held' = held + n, owed' = owed, props' = props
      PROVE  CrewsInv'
  <2>1. Treasuries' = Treasuries + Pot(i)' - Pot(i) /\ Pot(i) \in Int
    BY <1>0, <1>1, OnePotChanges DEF PotsFit
  <2> QED BY <1>0, <1>1, <2>1, SameTallies DEF CrewsInv
<1>2. ASSUME NEW a \in Address, NEW i \in Ids, NEW n \in Payments, Create(a, i, n)
      PROVE  CrewsInv'
  <2>1. /\ CrewsSound' /\ Pot(i) = 0 /\ Pot(i)' = n
        /\ \A j \in Ids \ {i} : crews'[j] = crews[j]
    BY <1>0, <1>2, CreateMoves
  <2>2. n \in Nat /\ Pot(i)' = Pot(i) + n
    BY <2>1, PayIsNat
  <2>3. held' = held + n /\ owed' = owed /\ props' = props
    BY <1>2 DEF Create
  <2> QED BY <1>1, <2>1, <2>2, <2>3
<1>3. ASSUME NEW a \in Address, NEW i \in Ids, NEW n \in Payments, Join(a, i, n)
      PROVE  CrewsInv'
  <2>1. /\ CrewsSound' /\ Pot(i)' = Pot(i) + n /\ n \in Nat
        /\ \A j \in Ids \ {i} : crews'[j] = crews[j]
    BY <1>0, <1>3, JoinMoves, PayIsNat
  <2>2. held' = held + n /\ owed' = owed /\ props' = props
    BY <1>3 DEF Join
  <2> QED BY <1>1, <2>1, <2>2
<1>4. ASSUME NEW i \in Ids, NEW n \in Payments, Fund(i, n) PROVE CrewsInv'
  <2>1. /\ CrewsSound' /\ Pot(i)' = Pot(i) + n /\ n \in Nat
        /\ \A j \in Ids \ {i} : crews'[j] = crews[j]
    BY <1>0, <1>4, FundMoves, PayIsNat
  <2>2. held' = held + n /\ owed' = owed /\ props' = props
    BY <1>4 DEF Fund
  <2> QED BY <1>1, <2>1, <2>2
<1>5. ASSUME NEW a \in Address, NEW i \in Ids, Ragequit(a, i) PROVE CrewsInv'
  <2>1. PICK amount \in Nat :
           /\ CrewsSound' /\ Pot(i)' = Pot(i) - amount
           /\ \A j \in Ids \ {i} : crews'[j] = crews[j]
           /\ owed' = owed + amount /\ held' = held
    BY <1>0, <1>5, RagequitMoves
  <2>2. Treasuries' = Treasuries + Pot(i)' - Pot(i) /\ Pot(i) \in Int
    BY <1>0, <2>1, OnePotChanges DEF PotsFit
  <2>3. props' = props
    BY <1>5 DEF Ragequit
  <2> QED BY <1>0, <2>1, <2>2, <2>3, SameTallies DEF CrewsInv
<1>6. ASSUME NEW a \in Address, Withdraw(a) PROVE CrewsInv'
  <2>1. credits[a] \in Int
    BY <1>0 DEF CrewsTypeOK
  <2>2. crews' = crews /\ props' = props /\ owed' = owed - credits[a] /\ held' = held - credits[a]
    BY <1>6 DEF Withdraw
  <2> QED BY <1>0, <2>1, <2>2, SameCrews, SameTallies DEF CrewsInv
<1>7. ASSUME TallyMatchesBallots', UNCHANGED <<crews, owed, held>> PROVE CrewsInv'
  BY <1>0, <1>7, SameCrews DEF CrewsInv
<1>8. ASSUME NEW a \in Address, NEW i \in Ids, NEW p \in PropIds, Propose(a, i, p)
      PROVE  CrewsInv'
  BY <1>0, <1>7, <1>8, ProposeTallies DEF Propose
<1>9. ASSUME NEW a \in Address, NEW p \in PropIds, NEW yes \in BOOLEAN, Vote(a, p, yes)
      PROVE  CrewsInv'
  BY <1>0, <1>7, <1>9, VoteTallies DEF Vote
<1>10. ASSUME NEW p \in PropIds, Close(p) PROVE CrewsInv'
  BY <1>0, <1>7, <1>10, CloseTallies DEF Close
<1>11. CASE Tick \/ UNCHANGED vars
  <2>1. props' = props /\ UNCHANGED <<crews, owed, held>>
    BY <1>11 DEF Tick, vars
  <2> QED BY <1>0, <1>7, <2>1, SameTallies
<1> QED BY <1>2, <1>3, <1>4, <1>5, <1>6, <1>8, <1>9, <1>10, <1>11 DEF Next

LEMMA CrewsInvariant == Spec => []CrewsInv
BY CrewsInvInit, CrewsInvStep, PTL DEF Spec

-----------------------------------------------------------------------------
(* What follows from it. *)

LEMMA SoundCrewQuotes ==
    ASSUME NEW c, SoundCrew(c), NEW n \in Nat
    PROVE  Minted(c, n) >= 1 <=> n >= JoinPrice(c)
<1>1. c.treasury \in Nat /\ c.total \in Nat
  BY SoundCrewFacts
<1>2. CASE AtOpeningPrice(c)
  <2>1. n \div InitialPrice >= 1 <=> n >= InitialPrice
    <3> DEFINE q == n \div InitialPrice
    <3>1. InitialPrice \in Nat \ {0}
      BY CrewAmountAssumption
    <3>2. q \in Nat /\ InitialPrice * q <= n /\ n < InitialPrice * (q + 1)
      BY <3>1
    <3> HIDE DEF q
    <3>3. q >= 1 => InitialPrice * q >= InitialPrice
      BY <3>1, <3>2
    <3>4. q = 0 => n < InitialPrice
      BY <3>1, <3>2
    <3>5. q >= 1 <=> n >= InitialPrice
      BY <3>1, <3>2, <3>3, <3>4
    <3> QED BY <3>5 DEF q
  <2> QED BY <1>2, <2>1 DEF Minted, JoinPrice
<1>3. CASE ~ AtOpeningPrice(c)
  <2>1. c.treasury \in Nat \ {0} /\ c.total \in Nat \ {0}
    BY <1>1, <1>3 DEF AtOpeningPrice
  <2> QED BY <1>3, <2>1, JoinPriceExact DEF Minted, JoinPrice
<1> QED BY <1>2, <1>3

\* However members come, go and vote: the total of a crew is the sum of its shares and
\* its pot is never empty under them, the price it quotes is the least that buys a
\* share, and the tallies of its proposals are the sums of their latest ballots.
THEOREM CrewsStaySound == Spec => []CrewsAreSound
<1>1. CrewsInv => CrewsAreSound
  <2> SUFFICES ASSUME CrewsInv PROVE CrewsAreSound
    OBVIOUS
  <2>1. SharesAddUp
    BY DEF CrewsInv, CrewsSound, SoundCrew, SharesAddUp
  <2>2. JoinPriceIsLeast
    <3> SUFFICES ASSUME NEW i \in Ids, NEW n \in 1 .. MaxInt, Exists(i)
                 PROVE  Minted(crews[i], n) >= 1 <=> n >= JoinPrice(crews[i])
      BY DEF JoinPriceIsLeast
    <3>1. n \in Nat /\ SoundCrew(crews[i])
      BY CrewAmountAssumption DEF CrewsInv, CrewsSound
    <3> QED BY <3>1, SoundCrewQuotes
  <2> QED BY <2>1, <2>2 DEF CrewsInv, CrewsAreSound
<1> QED BY <1>1, CrewsInvariant, PTL

\* What LastOneTakesAll says of one step and one crew.
EmptiesPot(i) ==
    Exists(i) /\ crews[i].total > 0 /\ crews'[i].total = 0
        => /\ crews'[i].treasury = 0
           /\ \E a \in Address : Members(crews[i]) = {a}
                 /\ credits'[a] = credits[a] + crews[i].treasury

LEMMA OnlyMember ==
    ASSUME NEW c, SoundCrew(c), NEW a \in Address, c.total = c.shares[a], c.shares[a] > 0
    PROVE  Members(c) = {a}
<1> DEFINE f == c.shares
<1>1. f \in [Address -> Nat] /\ SumFunctionOnSet(f, Address) = f[a]
  BY DEF SoundCrew, Crew, SumFunction
<1> HIDE DEF f
<1>2. \A b \in Address \ {a} : f[b] = 0
  <2>1. \A b \in Address : f[b] \in Nat
    BY <1>1
  <2> QED BY <1>1, <2>1, CrewFiniteAssumption, SumLeavesNothing
<1>3. f[a] > 0
  BY DEF f
<1>4. \A b \in Address : f[b] > 0 <=> b = a
  BY <1>2, <1>3
<1>5. Members(c) = {b \in Address : f[b] > 0}
  BY DEF Members, f
<1> QED BY <1>4, <1>5

LEMMA EmptiedByTheLast == CrewsInv /\ [Next]_vars => \A i \in Ids : EmptiesPot(i)
<1> SUFFICES ASSUME CrewsInv, [Next]_vars, NEW i \in Ids,
                    Exists(i), crews[i].total > 0, crews'[i].total = 0
             PROVE  EmptiesPot(i)
  BY DEF EmptiesPot
<1>0. CrewsTypeOK /\ CrewsSound /\ SoundCrew(crews[i])
  BY DEF CrewsInv, CrewsSound
<1>1. ASSUME NEW a \in Address, NEW j \in Ids, Ragequit(a, j) PROVE EmptiesPot(i)
  <2>1. PICK amount \in Nat :
           /\ \A k \in Ids \ {j} : crews'[k] = crews[k]
           /\ credits' = [credits EXCEPT ![a] = @ + amount]
           /\ crews'[j].treasury = crews[j].treasury - amount
           /\ crews'[j].total = 0 => /\ amount = crews[j].treasury
                                     /\ crews[j].total = crews[j].shares[a]
                                     /\ crews[j].shares[a] > 0
    BY <1>0, <1>1, RagequitMoves
  <2>2. i = j
    BY <2>1
  <2> DEFINE c == crews[i]
  <2>3. /\ amount = c.treasury /\ c.total = c.shares[a] /\ c.shares[a] > 0
        /\ crews'[i].treasury = c.treasury - amount
    BY <2>1, <2>2
  <2>4. c.treasury \in Nat
    BY <1>0, SoundCrewFacts
  <2>5. SoundCrew(c)
    BY <1>0
  <2> HIDE DEF c
  <2>6. Members(c) = {a}
    BY <2>3, <2>5, OnlyMember
  <2>7. credits'[a] = credits[a] + c.treasury /\ crews'[i].treasury = 0
    BY <1>0, <2>1, <2>3, <2>4 DEF CrewsTypeOK
  <2> QED BY <2>6, <2>7 DEF EmptiesPot, c
<1>2. ASSUME NEW a \in Address, NEW j \in Ids, NEW n \in Payments, Create(a, j, n)
      PROVE  EmptiesPot(i)
  <2>1. crews'[i] = crews[i]
    BY <1>0, <1>2, CreateMoves DEF Create
  <2> QED BY <2>1
<1>3. ASSUME NEW a \in Address, NEW j \in Ids, NEW n \in Payments, Join(a, j, n)
      PROVE  EmptiesPot(i)
  <2>1. crews'[j].total > 0 /\ \A k \in Ids \ {j} : crews'[k] = crews[k]
    BY <1>0, <1>3, JoinMoves
  <2> QED BY <2>1
<1>4. ASSUME NEW j \in Ids, NEW n \in Payments, Fund(j, n) PROVE EmptiesPot(i)
  <2>1. crews'[j].total = crews[j].total /\ \A k \in Ids \ {j} : crews'[k] = crews[k]
    BY <1>0, <1>4, FundMoves
  <2> QED BY <2>1
<1>5. ASSUME crews' = crews PROVE EmptiesPot(i)
  BY <1>5
<1>6. ASSUME \/ \E a \in Address : Withdraw(a)
             \/ \E a \in Address, k \in Ids, p \in PropIds : Propose(a, k, p)
             \/ \E a \in Address, p \in PropIds, yes \in BOOLEAN : Vote(a, p, yes)
             \/ \E p \in PropIds : Close(p)
             \/ Tick
             \/ UNCHANGED vars
      PROVE  crews' = crews
  BY <1>6 DEF Withdraw, Propose, Vote, Close, Tick, vars
<1> QED BY <1>1, <1>2, <1>3, <1>4, <1>5, <1>6 DEF Next

\* Whatever the roundings on the way, a crew loses its last share only to its one
\* member's leaving, who is credited the pot to the last coin.
THEOREM LastLeaverTakesAll == Spec => LastOneTakesAll
<1>1. CrewsInv /\ [Next]_vars =>
        \A i \in Ids :
          Exists(i) /\ crews[i].total > 0 /\ crews'[i].total = 0
              => /\ crews'[i].treasury = 0
                 /\ \E a \in Address : Members(crews[i]) = {a}
                       /\ credits'[a] = credits[a] + crews[i].treasury
  BY EmptiedByTheLast DEF EmptiesPot
<1> QED BY <1>1, CrewsInvariant, PTL DEF Spec, LastOneTakesAll

-----------------------------------------------------------------------------
(* Pull payments. *)

\* The coins of the realm are its crews' pots and what it owes, and what it owes
\* leaves only to its payee, all of it at once.
THEOREM CrewsKeepBooks == Spec => KeepsBooks
<1>1. Init => Books!Init
  <2> SUFFICES ASSUME Init PROVE Books!Init
    OBVIOUS
  <2>1. CrewsInv
    BY CrewsInvInit
  <2>2. Treasuries \in Int /\ held = Treasuries + owed
    BY <2>1, TreasuriesType DEF CrewsInv
  <2> QED BY <2>2 DEF Init, Books!Init
<1>2. CrewsInv /\ CrewsInv' /\ [Next]_vars => [Books!Next]_(Books!vars)
  <2> SUFFICES ASSUME CrewsInv, CrewsInv', [Next]_vars
               PROVE  [Books!Next]_(Books!vars)
    OBVIOUS
  <2>0. /\ CrewsTypeOK /\ CrewsSound /\ held' = Treasuries' + owed'
        /\ credits \in [Address -> Nat] /\ owed \in Int /\ held \in Int
    BY DEF CrewsInv, CrewsTypeOK
  <2>1. ASSUME NEW n \in Payments, held' = held + n, UNCHANGED <<credits, owed>>
        PROVE  Books!Next
    <3>1. held' >= held /\ owed' >= owed /\ \A b \in Address : credits'[b] >= credits[b]
      BY <2>0, <2>1, PayIsNat
    <3> QED BY <2>0, <2>1, <3>1 DEF Books!Next, Books!Book, Books!Balanced
  <2>2. ASSUME NEW a \in Address, NEW i \in Ids, Ragequit(a, i) PROVE Books!Next
    <3>1. PICK amount \in Nat : /\ credits' = [credits EXCEPT ![a] = @ + amount]
                                /\ owed' = owed + amount /\ held' = held
      BY <2>0, <2>2, RagequitMoves
    <3>2. /\ \A b \in Address : credits'[b] >= credits[b]
          /\ credits' = credits <=> amount = 0
      BY <2>0, <3>1
    <3>3. held' >= held /\ owed' >= owed /\ (owed' = owed <=> amount = 0)
      BY <2>0, <3>1
    <3> QED BY <2>0, <3>2, <3>3 DEF Books!Next, Books!Book, Books!Balanced
  <2>3. ASSUME NEW a \in Address, Withdraw(a) PROVE Books!Next
    <3>1. Treasuries' = Treasuries /\ credits[a] > 0
      BY <2>0, <2>3, SameCrews DEF Withdraw
    <3> QED BY <2>3, <3>1 DEF Withdraw, Books!Next, Books!Collect
  <2>4. ASSUME UNCHANGED <<crews, credits, owed, held>> PROVE UNCHANGED Books!vars
    BY <2>4, SameCrews DEF Books!vars
  <2>5. ASSUME \/ \E a \in Address, i \in Ids, p \in PropIds : Propose(a, i, p)
               \/ \E a \in Address, p \in PropIds, yes \in BOOLEAN : Vote(a, p, yes)
               \/ \E p \in PropIds : Close(p)
               \/ Tick
               \/ UNCHANGED vars
        PROVE  UNCHANGED <<crews, credits, owed, held>>
    BY <2>5 DEF Propose, Vote, Close, Tick, vars
  <2>6. ASSUME \/ \E a \in Address, i \in Ids, n \in Payments : Create(a, i, n)
               \/ \E a \in Address, i \in Ids, n \in Payments : Join(a, i, n)
               \/ \E i \in Ids, n \in Payments : Fund(i, n)
        PROVE  \E n \in Payments : held' = held + n /\ UNCHANGED <<credits, owed>>
    BY <2>6 DEF Create, Join, Fund
  <2> QED BY <2>1, <2>2, <2>3, <2>4, <2>5, <2>6 DEF Next
<1> QED BY <1>1, <1>2, CrewsInvariant, PTL DEF Spec, KeepsBooks, Books!Spec
=============================================================================
