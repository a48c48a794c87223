------------------------------- MODULE Crews -------------------------------
(***************************************************************************)
(* Small groups with a shared pot: p/moul/x/social/crew and the realm      *)
(* r/moul/x/social/crews on it.  A share is at once a vote and a claim on  *)
(* the treasury; it is bought at its current value and burned on leaving.  *)
(*                                                                         *)
(* Every exported function is one transaction and one action.  A crew that *)
(* was not created and a proposal that was not made are model values.      *)
(* Names, texts and listings are left out.                                 *)
(***************************************************************************)
EXTENDS Integers, FiniteSets, Functions

CONSTANTS
    Address,             \* the addresses that make calls
    Ids,                 \* ids crews may get
    PropIds,             \* ids proposals may get
    NoCrew, NoProposal,  \* what the stores hold under an id not yet given
    NoBallot,            \* the ballot of an address that has not voted
    InitialPrice,        \* InitialPricePerShare
    VoteBlocks,          \* how long a proposal takes votes
    MaxMembers,          \* how many members a crew takes
    MaxInt,              \* the largest amount an integer holds
    MaxPaid,             \* bound: coins one call sends
    MaxHeight            \* bound: the last block

ASSUME CrewFiniteAssumption == IsFiniteSet(Address) /\ IsFiniteSet(Ids)
ASSUME CrewAmountAssumption ==
    /\ InitialPrice \in Nat \ {0} /\ VoteBlocks \in Nat \ {0}
    /\ MaxMembers \in Nat /\ MaxInt \in Nat /\ MaxPaid \in Nat /\ MaxHeight \in Nat

VARIABLES
    height,   \* the height of the chain
    crews,    \* Crews.crews
    props,    \* Crews.props
    credits,  \* Crews.credit
    owed,     \* Crews.owed
    held      \* the coins of the realm's address, kept by the bank

vars == <<height, crews, props, credits, owed, held>>

Crew   == [treasury : Int, total : Int, shares : [Address -> Nat]]
Ballot == [yes : BOOLEAN, weight : Nat \ {0}]
Proposal == [crew : Ids, deadline : Int, yes : Int, no : Int,
             closed : BOOLEAN, passed : BOOLEAN,
             votes : [Address -> Ballot \cup {NoBallot}]]
ASSUME NothingAssumption ==
    NoCrew \notin Crew /\ NoProposal \notin Proposal /\ NoBallot \notin Ballot

Exists(i)     == crews[i] # NoCrew
Members(c)    == {a \in Address : c.shares[a] > 0}
Payments      == 1 .. MaxPaid

\* Mutant: divides before it multiplies.
MulDivEarly(a, b, c) == a * (b \div c)

\* Integer ratios; the code panics outside the domain of Fits.
MulDiv(a, b, c) == (a * b) \div c

MulDivUp(a, b, c) == MulDiv(a, b, c) + (IF (a * b) % c = 0 THEN 0 ELSE 1)

Fits(a, b, c) == a >= 0 /\ b >= 0 /\ c > 0 /\ MulDiv(a, b, c) <= MaxInt

\* With nobody to share with, or nothing to share, a share has its first price.
AtOpeningPrice(c) == c.total = 0 \/ c.treasury = 0

\* Mutant: a flat price.
MintedFlat(c, amount) == amount \div InitialPrice

\* The shares an amount buys, rounded down, so that the crew keeps the rest.
Minted(c, amount) ==
    IF AtOpeningPrice(c) THEN amount \div InitialPrice
                         ELSE MulDiv(amount, c.total, c.treasury)

\* The least a joiner may send.
JoinPrice(c) ==
    IF AtOpeningPrice(c) THEN InitialPrice ELSE MulDivUp(1, c.treasury, c.total)

-----------------------------------------------------------------------------
Init ==
    /\ height = 0
    /\ crews = [i \in Ids |-> NoCrew]
    /\ props = [p \in PropIds |-> NoProposal]
    /\ credits = [a \in Address |-> 0]
    /\ owed = 0 /\ held = 0

\* What is left after the founder's shares stays in the treasury.
Create(a, i, amount) ==
    /\ ~ Exists(i)
    /\ amount >= InitialPrice
    /\ crews' = [crews EXCEPT ![i] =
                    [treasury |-> amount, total |-> amount \div InitialPrice,
                     shares |-> [b \in Address |-> IF b = a THEN amount \div InitialPrice
                                                            ELSE 0]]]
    /\ held' = held + amount
    /\ UNCHANGED <<height, props, credits, owed>>

Join(a, i, amount) ==
    /\ Exists(i)
    /\ LET c == crews[i]  bought == Minted(c, amount) IN
       /\ ~ AtOpeningPrice(c) => Fits(1, c.treasury, c.total)
       /\ amount >= JoinPrice(c)
       /\ c.shares[a] = 0
       /\ Cardinality(Members(c)) < MaxMembers
       /\ c.treasury <= MaxInt - amount
       /\ ~ AtOpeningPrice(c) => Fits(amount, c.total, c.treasury)
       /\ bought >= 1
       /\ c.total <= MaxInt - bought
       /\ crews' = [crews EXCEPT ![i] =
                       [c EXCEPT !.treasury = @ + amount, !.total = @ + bought,
                                 !.shares = [@ EXCEPT ![a] = bought]]]
    /\ held' = held + amount
    /\ UNCHANGED <<height, props, credits, owed>>

\* Anyone may; nothing is minted.
Fund(i, amount) ==
    /\ Exists(i)
    /\ crews[i].treasury <= MaxInt - amount
    /\ crews' = [crews EXCEPT ![i].treasury = @ + amount]
    /\ held' = held + amount
    /\ UNCHANGED <<height, props, credits, owed>>

\* Whatever the amount, it must fit the payee's credit and the total owed.
Ragequit(a, i) ==
    /\ Exists(i)
    /\ LET c == crews[i]  s == c.shares[a]  amount == MulDiv(s, c.treasury, c.total) IN
       /\ s > 0
       /\ Fits(s, c.treasury, c.total)
       /\ amount > 0 => credits[a] <= MaxInt - amount /\ owed <= MaxInt - amount
       /\ crews' = [crews EXCEPT ![i] =
                       [c EXCEPT !.treasury = @ - amount, !.total = @ - s,
                                 !.shares = [@ EXCEPT ![a] = 0]]]
       /\ credits' = [credits EXCEPT ![a] = @ + amount]
       /\ owed' = owed + amount
    /\ UNCHANGED <<height, props, held>>

\* Mutant: what was collected still counts as owed.
WithdrawStillOwed(a) ==
    /\ credits[a] # 0
    /\ credits' = [credits EXCEPT ![a] = 0]
    /\ held' = held - credits[a]
    /\ UNCHANGED <<height, crews, props, owed>>

\* The credit is gone before the coins leave.
Withdraw(a) ==
    /\ credits[a] # 0
    /\ credits' = [credits EXCEPT ![a] = 0]
    /\ owed' = owed - credits[a]
    /\ held' = held - credits[a]
    /\ UNCHANGED <<height, crews, props>>

Propose(a, i, p) ==
    /\ Exists(i)
    /\ crews[i].shares[a] > 0
    /\ props[p] = NoProposal
    /\ props' = [props EXCEPT ![p] =
                    [crew |-> i, deadline |-> height + VoteBlocks, yes |-> 0, no |-> 0,
                     closed |-> FALSE, passed |-> FALSE,
                     votes |-> [b \in Address |-> NoBallot]]]
    /\ UNCHANGED <<height, crews, credits, owed, held>>

\* Mutant: the replaced ballot still counts.
WithoutNothing(tally, b, yes) == tally

\* A tally without the ballot it counted, and with a new one.
Without(tally, b, yes) == IF b # NoBallot /\ b.yes = yes THEN tally - b.weight ELSE tally
With(tally, b, yes)    == IF b.yes = yes THEN tally + b.weight ELSE tally

\* A ballot weighs the shares its member has now; a second one replaces it.
Vote(a, p, yes) ==
    /\ props[p] # NoProposal
    /\ LET q == props[p]
           old == q.votes[a]
           new == [yes |-> yes, weight |-> crews[q.crew].shares[a]]
       IN  /\ ~ q.closed /\ height < q.deadline
           /\ Exists(q.crew)
           /\ new.weight > 0
           /\ props' = [props EXCEPT ![p] =
                 [q EXCEPT !.votes = [@ EXCEPT ![a] = new],
                           !.yes = With(Without(@, old, TRUE), new, TRUE),
                           !.no  = With(Without(@, old, FALSE), new, FALSE)]]
    /\ UNCHANGED <<height, crews, credits, owed, held>>

\* Anyone may; a tie fails.
Close(p) ==
    /\ props[p] # NoProposal
    /\ ~ props[p].closed
    /\ height >= props[p].deadline
    /\ props' = [props EXCEPT ![p] =
                    [@ EXCEPT !.closed = TRUE, !.passed = props[p].yes > props[p].no]]
    /\ UNCHANGED <<height, crews, credits, owed, held>>

\* A block passes.
Tick ==
    /\ height < MaxHeight
    /\ height' = height + 1
    /\ UNCHANGED <<crews, props, credits, owed, held>>

Next ==
    \/ \E a \in Address, i \in Ids, n \in Payments : Create(a, i, n)
    \/ \E a \in Address, i \in Ids, n \in Payments : Join(a, i, n)
    \/ \E i \in Ids, n \in Payments : Fund(i, n)
    \/ \E a \in Address, i \in Ids : Ragequit(a, i)
    \/ \E a \in Address : Withdraw(a)
    \/ \E a \in Address, i \in Ids, p \in PropIds : Propose(a, i, p)
    \/ \E a \in Address, p \in PropIds, yes \in BOOLEAN : Vote(a, p, yes)
    \/ \E p \in PropIds : Close(p)
    \/ Tick

Spec == Init /\ [][Next]_vars

-----------------------------------------------------------------------------
(* Properties. *)

\* Every record is well formed, no credit is negative and every ballot weighs
\* something.
CrewsTypeOK ==
    /\ height \in Nat /\ held \in Int /\ owed \in Int
    /\ crews \in [Ids -> Crew \cup {NoCrew}]
    /\ props \in [PropIds -> Proposal \cup {NoProposal}]
    /\ credits \in [Address -> Nat]

\* However members come and go, the total is the sum of what they hold, and a
\* crew with members is never broke: were its pot empty, the next joiner would
\* pay the opening price and take from the members.
SharesAddUp ==
    \A i \in Ids : Exists(i) =>
        /\ crews[i].total = SumFunction(crews[i].shares)
        /\ crews[i].total > 0 => crews[i].treasury > 0

\* A share is never worth less after a call than before, whoever joins, leaves
\* or rounds: the value of a share is compared as a fraction.
ValueNeverFalls ==
    [][\A i \in Ids :
          LET c == crews[i]  d == crews'[i] IN
          Exists(i) /\ c.total > 0 /\ d.total > 0
              => d.treasury * c.total >= c.treasury * d.total]_vars

\* The dust of every division is paid in the end: whoever leaves last gets the
\* whole pot, to the last coin.
LastOneTakesAll ==
    [][\A i \in Ids :
          Exists(i) /\ crews[i].total > 0 /\ crews'[i].total = 0
              => /\ crews'[i].treasury = 0
                 /\ \E a \in Address : Members(crews[i]) = {a}
                       /\ credits'[a] = credits[a] + crews[i].treasury]_vars

\* The price the page quotes, and the guard of Join asks for, is exactly the
\* least amount that buys a share.
JoinPriceIsLeast ==
    \A i \in Ids, n \in 1 .. MaxInt : Exists(i) =>
        (Minted(crews[i], n) >= 1 <=> n >= JoinPrice(crews[i]))

\* The running tallies of a proposal are the sums of its latest ballots, and the
\* recorded result is theirs.
Counts(b, yes) == IF b = NoBallot THEN 0 ELSE With(0, b, yes)
Weight(q, yes) == SumFunction([a \in Address |-> Counts(q.votes[a], yes)])
TallyMatchesBallots ==
    \A p \in PropIds : props[p] # NoProposal =>
        LET q == props[p] IN
        /\ q.yes = Weight(q, TRUE) /\ q.no = Weight(q, FALSE)
        /\ q.closed => (q.passed <=> Weight(q, TRUE) > Weight(q, FALSE))

\* What a crew keeps beside its shares says what they say: the total, the price
\* it quotes and the tallies of its proposals.
CrewsAreSound == SharesAddUp /\ JoinPriceIsLeast /\ TallyMatchesBallots

\* The coins in the crews' treasuries.
Pot(i) == IF Exists(i) THEN crews[i].treasury ELSE 0
Treasuries == SumFunction([i \in Ids |-> Pot(i)])

\* Coins come and go as the pull-payment pattern has it: what the realm holds is
\* the treasuries and what is owed, and what is owed leaves only to its payee.
Books == INSTANCE PullPayments WITH locked <- Treasuries
KeepsBooks == Books!Spec
=============================================================================
