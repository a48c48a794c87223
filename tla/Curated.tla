------------------------------ MODULE Curated ------------------------------
(***************************************************************************)
(* A list anyone gets onto by locking a deposit, and off which anyone may  *)
(* try to get somebody by matching the deposit with a bond: the package    *)
(* p/moul/x/social/curated and the realm r/moul/x/social/curated on it.    *)
(*                                                                         *)
(* Every exported function is one transaction and one action.  URLs,       *)
(* descriptions and the order of the listing are left out.  Coins sent to  *)
(* the realm without a call are too: nothing here reads the balance.       *)
(***************************************************************************)
EXTENDS Integers, FiniteSets, Functions

CONSTANTS
    Address,          \* the addresses that make calls
    Keys,             \* the valid keys of entries
    NoEntry,          \* what the list holds under a key never listed
    NoChallenge,      \* the challenge of an entry that is not challenged
    Deposit,          \* what a listing costs
    ChallengeBlocks,  \* how long a challenge takes votes
    MaxEntries,       \* keys the list may ever hold
    MaxPayees,        \* addresses that may be owed something at a time
    MaxInt,           \* the largest amount an integer holds
    MaxHeight         \* bound: the last block

ASSUME FiniteAssumption == IsFiniteSet(Address) /\ IsFiniteSet(Keys)
ASSUME AmountAssumption ==
    /\ Deposit \in Nat \ {0} /\ MaxInt \in Nat
    /\ ChallengeBlocks \in Nat \ {0} /\ MaxHeight \in Nat
    /\ MaxEntries \in Nat /\ MaxPayees \in Nat

VARIABLES
    height,    \* the height of the chain
    entries,   \* Registry.entries
    credits,   \* Registry.credits: no entry in the code is 0 here
    owed,      \* Registry.owed
    locked,    \* Registry.locked
    held,      \* the coins of the realm's address, kept by the bank
    wallet     \* history: what each address got from the realm, less what it paid

moneyVars == <<credits, owed, locked, held, wallet>>
vars == <<height, entries, credits, owed, locked, held, wallet>>

Challenge == [challenger : Address, bond : Nat, deadline : Nat,
              keep : Nat, remove : Nat, voters : SUBSET Address]
State     == {"listed", "challenged", "removed"}
Entry     == [owner : Address, deposit : Nat, state : State,
              challenge : Challenge \cup {NoChallenge}]
ASSUME NothingAssumption == NoChallenge \notin Challenge /\ NoEntry \notin Entry

Seen(k) == entries[k] # NoEntry
Live(k) == Seen(k) /\ entries[k].state # "removed"
IsChallenged(k) ==
    Seen(k) /\ entries[k].state = "challenged" /\ entries[k].challenge # NoChallenge
Open(c) == height < c.deadline

\* The bond a challenge of k must post; 0 when it cannot be challenged.
BondFor(k) ==
    IF Seen(k) /\ entries[k].state = "listed" THEN entries[k].deposit ELSE 0

-----------------------------------------------------------------------------
Init ==
    /\ height = 0
    /\ entries = [k \in Keys |-> NoEntry]
    /\ credits = [a \in Address |-> 0]
    /\ owed = 0 /\ locked = 0 /\ held = 0
    /\ wallet = [a \in Address |-> 0]

\* The coins of a call, attached by its signer, back what the call files.
PayIn(a, amount) ==
    /\ locked' = locked + amount
    /\ held' = held + amount
    /\ wallet' = [wallet EXCEPT ![a] = @ - amount]
    /\ UNCHANGED <<credits, owed>>

\* Mutant: the coins credited stay counted as locked.
CreditStaysLocked(a, amount) ==
    /\ amount > 0
    /\ credits[a] = 0 => Cardinality({b \in Address : credits[b] # 0}) < MaxPayees
    /\ credits[a] <= MaxInt - amount /\ owed <= MaxInt - amount
    /\ credits' = [credits EXCEPT ![a] = @ + amount]
    /\ owed' = owed + amount
    /\ UNCHANGED <<locked, held, wallet>>

\* Coins that backed something become somebody's; refused when the ledger of
\* credits is full or would overflow.
Credit(a, amount) ==
    /\ amount > 0
    /\ credits[a] = 0 => Cardinality({b \in Address : credits[b] # 0}) < MaxPayees
    /\ credits[a] <= MaxInt - amount
    /\ owed <= MaxInt - amount
    /\ credits' = [credits EXCEPT ![a] = @ + amount]
    /\ owed' = owed + amount
    /\ locked' = locked - amount
    /\ UNCHANGED <<held, wallet>>

Apply(a, k) ==
    /\ ~ Live(k)
    /\ ~ Seen(k) => Cardinality({j \in Keys : Seen(j)}) < MaxEntries
    /\ entries' = [entries EXCEPT ![k] =
                      [owner |-> a, deposit |-> Deposit, state |-> "listed",
                       challenge |-> NoChallenge]]
    /\ PayIn(a, Deposit)
    /\ UNCHANGED height

Object(a, k) ==
    /\ BondFor(k) > 0
    /\ a # entries[k].owner
    /\ height + ChallengeBlocks <= MaxHeight   \* bound: time to see it resolved
    /\ entries' = [entries EXCEPT
          ![k].state = "challenged",
          ![k].challenge = [challenger |-> a, bond |-> BondFor(k),
                            deadline |-> height + ChallengeBlocks,
                            keep |-> 0, remove |-> 0, voters |-> {}]]
    /\ PayIn(a, BondFor(k))
    /\ UNCHANGED height

Vote(a, k, keep) ==
    /\ IsChallenged(k)
    /\ LET c == entries[k].challenge IN
       /\ Open(c)
       /\ a \notin c.voters
       /\ entries' = [entries EXCEPT
             ![k].challenge = [c EXCEPT !.voters = @ \cup {a},
                                        !.keep = IF keep THEN @ + 1 ELSE @,
                                        !.remove = IF keep THEN @ ELSE @ + 1]]
    /\ UNCHANGED <<height, credits, owed, locked, held, wallet>>

\* A tie keeps the entry.
Kept(c)   == c.keep >= c.remove
Winner(e) == IF Kept(e.challenge) THEN e.owner ELSE e.challenge.challenger
Prize(e)  == IF Kept(e.challenge) THEN e.challenge.bond
                                  ELSE e.challenge.bond + e.deposit
Settled(e) == IF Kept(e.challenge) THEN "listed" ELSE "removed"

Resolve(k) ==
    /\ IsChallenged(k)
    /\ ~ Open(entries[k].challenge)
    /\ Credit(Winner(entries[k]), Prize(entries[k]))
    /\ entries' = [entries EXCEPT ![k].state = Settled(entries[k]),
                                  ![k].challenge = NoChallenge]
    /\ UNCHANGED height

\* Mutant: an owner may leave in the middle of a challenge.
UnlistAnytime(a, k) ==
    /\ Live(k) /\ entries[k].owner = a
    /\ Credit(a, entries[k].deposit)
    /\ entries' = [entries EXCEPT ![k].state = "removed"]
    /\ UNCHANGED height

Unlist(a, k) ==
    /\ Live(k)
    /\ entries[k].owner = a
    /\ entries[k].state # "challenged"
    /\ Credit(a, entries[k].deposit)
    /\ entries' = [entries EXCEPT ![k].state = "removed"]
    /\ UNCHANGED height

\* Mutant: the coins leave and the credit stays.
WithdrawAgain(a) ==
    /\ credits[a] > 0
    /\ held' = held - credits[a]
    /\ owed' = owed - credits[a]
    /\ wallet' = [wallet EXCEPT ![a] = @ + credits[a]]
    /\ UNCHANGED <<height, entries, credits, locked>>

\* Mutant: what was collected still counts as owed.
WithdrawStillOwed(a) ==
    /\ credits[a] > 0
    /\ credits' = [credits EXCEPT ![a] = 0]
    /\ held' = held - credits[a]
    /\ wallet' = [wallet EXCEPT ![a] = @ + credits[a]]
    /\ UNCHANGED <<height, entries, owed, locked>>

\* The credit is gone before the coins leave.
Withdraw(a) ==
    /\ credits[a] > 0
    /\ credits' = [credits EXCEPT ![a] = 0]
    /\ owed' = owed - credits[a]
    /\ held' = held - credits[a]
    /\ wallet' = [wallet EXCEPT ![a] = @ + credits[a]]
    /\ UNCHANGED <<height, entries, locked>>

\* A block passes.
Tick ==
    /\ height < MaxHeight
    /\ height' = height + 1
    /\ UNCHANGED <<entries, credits, owed, locked, held, wallet>>

Next ==
    \/ \E a \in Address, k \in Keys : Apply(a, k)
    \/ \E a \in Address, k \in Keys : Object(a, k)
    \/ \E a \in Address, k \in Keys, keep \in BOOLEAN : Vote(a, k, keep)
    \/ \E k \in Keys : Resolve(k)
    \/ \E a \in Address, k \in Keys : Unlist(a, k)
    \/ \E a \in Address : Withdraw(a)
    \/ Tick

Spec == Init /\ [][Next]_vars

\* Blocks keep coming, and somebody calls Resolve for as long as it is refused now and
\* then: the winner has coins to gain.  Nobody has to collect what he is owed.
Fairness ==
    /\ WF_vars(Tick)
    /\ \A k \in Keys : SF_vars(Resolve(k))

FairSpec == Spec /\ Fairness

-----------------------------------------------------------------------------
(* Properties. *)

\* Every record is well formed, and an entry has a challenge when it says so.
CuratedTypeOK ==
    /\ height \in Nat
    /\ entries \in [Keys -> Entry \cup {NoEntry}]
    /\ credits \in [Address -> Nat]
    /\ owed \in Int /\ locked \in Int /\ held \in Int
    /\ \A k \in Keys : Seen(k) =>
          entries[k].state = "challenged" <=> entries[k].challenge # NoChallenge

\* What an address has at stake in the list: the deposits of its live entries
\* and the bonds of its open challenges.
StakeIn(a, k) ==
    (IF Live(k) /\ entries[k].owner = a THEN entries[k].deposit ELSE 0) +
    (IF IsChallenged(k) /\ entries[k].challenge.challenger = a
     THEN entries[k].challenge.bond ELSE 0)
Stake(a) == SumFunction([k \in Keys |-> StakeIn(a, k)])

\* The coins that back an entry: its deposit and the bond of its challenge.
Backing(k) ==
    (IF Live(k) THEN entries[k].deposit ELSE 0) +
    (IF IsChallenged(k) THEN entries[k].challenge.bond ELSE 0)

\* The counters are the sums they stand for: every coin held backs a live entry
\* or an open challenge, or is owed to somebody.
Backed ==
    /\ held = locked + owed
    /\ locked = SumFunction([k \in Keys |-> Backing(k)])
    /\ owed = SumFunction(credits)

\* What an address has, in its pocket or in the realm, moves only when a
\* challenge closes after its full window, and then by the stake of the side
\* that lost the vote to the other.
Wealth(a) == wallet[a] + credits[a] + Stake(a)
MovesByVerdict(k) ==
    LET e == entries[k]  c == e.challenge
        loser == IF c.remove > c.keep THEN e.owner ELSE c.challenger
        winner == IF c.remove > c.keep THEN c.challenger ELSE e.owner
    IN  /\ IsChallenged(k) /\ ~ Open(c) /\ ~ IsChallenged(k)'
        /\ \A a \in Address :
              Wealth(a)' = Wealth(a) + (IF a = winner THEN e.deposit ELSE 0)
                                     - (IF a = loser THEN e.deposit ELSE 0)
OnlyVerdictsMoveWealth ==
    [][(\E a \in Address : Wealth(a)' # Wealth(a)) =>
          \E k \in Keys : MovesByVerdict(k)]_vars

\* Coins come and go as the pull-payment pattern has it.
Books == INSTANCE PullPayments
KeepsBooks == Books!Spec

\* What some payees leave uncollected keeps the outcome of a challenge out of the ledger:
\* they are as many as it takes and the winner has no row yet, or their coins fill it.
InTheWay(S, k) ==
    /\ IsChallenged(k)
    /\ \A a \in S : credits[a] > 0
    /\ LET e == entries[k]
       IN  \/ Winner(e) \notin S /\ Cardinality(S) = MaxPayees
           \/ FoldFunctionOnSet(+, 0, credits, S) > MaxInt - Prize(e)

\* A challenge ends, unless the same payees stay in its way for ever: neither party can
\* stall the other by a vote, by another listing or challenge, or by taking coins out, and
\* one collection by those who do makes room.
ChallengesEnd ==
    \A k \in Keys :
        \/ []<>~ IsChallenged(k)
        \/ \E S \in SUBSET Address : <>[]InTheWay(S, k)
=============================================================================
