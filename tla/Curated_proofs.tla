--------------------------- MODULE Curated_proofs ---------------------------
(***************************************************************************)
(* What holds of a curated list for every deposit, window, set of keys and *)
(* addresses, and every limit of its ledger of credits.                    *)
(***************************************************************************)
EXTENDS Curated, Sums

-----------------------------------------------------------------------------
(* Types. *)

CuratedInv == CuratedTypeOK /\ held = locked + owed

LEMMA CuratedInit == Init => CuratedInv
BY DEF Init, CuratedInv, CuratedTypeOK, Seen

\* Paying in or crediting keeps the amounts integers and the books balanced.
LEMMA PayInKeeps ==
    ASSUME CuratedInv, NEW a \in Address, NEW amount \in Nat, PayIn(a, amount)
    PROVE  /\ credits' \in [Address -> Nat]
           /\ owed' \in Int /\ locked' \in Int /\ held' \in Int
           /\ held' = locked' + owed'
           /\ UNCHANGED <<credits, owed>> /\ held' >= held
BY DEF PayIn, CuratedInv, CuratedTypeOK

LEMMA CreditKeeps ==
    ASSUME CuratedInv, NEW a \in Address, NEW amount \in Nat, Credit(a, amount)
    PROVE  /\ credits' \in [Address -> Nat]
           /\ owed' \in Int /\ locked' \in Int /\ held' \in Int
           /\ held' = locked' + owed'
           /\ held' = held /\ owed' = owed + amount /\ amount > 0
           /\ credits' = [credits EXCEPT ![a] = @ + amount]
BY DEF Credit, CuratedInv, CuratedTypeOK

LEMMA EntryFacts ==
    ASSUME CuratedTypeOK, NEW k \in Keys, Seen(k)
    PROVE  /\ entries[k] \in Entry
           /\ entries[k].owner \in Address /\ entries[k].deposit \in Nat
           /\ entries[k].challenge # NoChallenge => entries[k].challenge \in Challenge
BY DEF CuratedTypeOK, Seen, Entry

LEMMA PrizeFacts ==
    ASSUME CuratedTypeOK, NEW k \in Keys, IsChallenged(k)
    PROVE  Winner(entries[k]) \in Address /\ Prize(entries[k]) \in Nat
<1>1. entries[k] \in Entry /\ entries[k].challenge \in Challenge
  BY EntryFacts DEF IsChallenged
<1> QED BY <1>1 DEF Winner, Prize, Entry, Challenge

\* Replacing one entry by a well-formed one keeps the list well formed.
LEMMA EntryReplaced ==
    ASSUME CuratedTypeOK, NEW k \in Keys, NEW e \in Entry,
           e.state = "challenged" <=> e.challenge # NoChallenge,
           entries' = [entries EXCEPT ![k] = e],
           height' = height,
           credits' \in [Address -> Nat],
           owed' \in Int, locked' \in Int, held' \in Int
    PROVE  CuratedTypeOK'
<1>1. entries' \in [Keys -> Entry \cup {NoEntry}]
  BY DEF CuratedTypeOK
<1>2. \A j \in Keys : entries'[j] = IF j = k THEN e ELSE entries[j]
  BY DEF CuratedTypeOK
<1> QED BY <1>1, <1>2 DEF CuratedTypeOK, Seen

LEMMA CuratedStep == CuratedInv /\ [Next]_vars => CuratedInv'
<1> SUFFICES ASSUME CuratedInv, [Next]_vars PROVE CuratedInv'
  OBVIOUS
<1>0. CuratedTypeOK /\ Deposit \in Nat /\ ChallengeBlocks \in Nat
  BY AmountAssumption DEF CuratedInv
<1>1. ASSUME NEW a \in Address, NEW k \in Keys, Apply(a, k)
      PROVE  CuratedInv'
  <2> DEFINE e == [owner |-> a, deposit |-> Deposit, state |-> "listed",
                   challenge |-> NoChallenge]
  <2>1. e \in Entry /\ e.state = "listed" /\ e.challenge = NoChallenge
    BY <1>0 DEF Entry, State
  <2>2. entries' = [entries EXCEPT ![k] = e] /\ height' = height /\ PayIn(a, Deposit)
    BY <1>1 DEF Apply
  <2> HIDE DEF e
  <2> QED BY <1>0, <2>1, <2>2, PayInKeeps, EntryReplaced DEF CuratedInv
<1>2. ASSUME NEW a \in Address, NEW k \in Keys, Object(a, k)
      PROVE  CuratedInv'
  <2> DEFINE c == [challenger |-> a, bond |-> BondFor(k),
                   deadline |-> height + ChallengeBlocks,
                   keep |-> 0, remove |-> 0, voters |-> {}]
             e == [entries[k] EXCEPT !.state = "challenged", !.challenge = c]
  <2>1. Seen(k) /\ BondFor(k) = entries[k].deposit /\ entries[k] \in Entry
    BY <1>0, <1>2, EntryFacts DEF Object, BondFor
  <2>2. BondFor(k) \in Nat /\ height + ChallengeBlocks \in Nat
    BY <1>0, <2>1, EntryFacts DEF CuratedTypeOK
  <2>3. c \in Challenge
    BY <2>2 DEF Challenge
  <2>4. c # NoChallenge
    BY NothingAssumption, <2>3
  <2>5. entries' = [entries EXCEPT ![k] = e]
    BY <1>0, <1>2 DEF Object, CuratedTypeOK
  <2> HIDE DEF c
  <2>6. e \in Entry /\ e.state = "challenged" /\ e.challenge = c
    BY <2>1, <2>3 DEF Entry, State
  <2>7. height' = height /\ PayIn(a, BondFor(k))
    BY <1>2 DEF Object
  <2> HIDE DEF e
  <2> QED BY <1>0, <2>2, <2>4, <2>5, <2>6, <2>7, PayInKeeps, EntryReplaced DEF CuratedInv
<1>3. ASSUME NEW a \in Address, NEW k \in Keys, NEW keep \in BOOLEAN, Vote(a, k, keep)
      PROVE  CuratedInv'
  <2> DEFINE d == entries[k].challenge
             c == [d EXCEPT !.voters = @ \cup {a},
                            !.keep = IF keep THEN @ + 1 ELSE @,
                            !.remove = IF keep THEN @ ELSE @ + 1]
             e == [entries[k] EXCEPT !.challenge = c]
  <2>1. /\ Seen(k) /\ entries[k] \in Entry /\ d \in Challenge
        /\ entries[k].state = "challenged"
    BY <1>0, <1>3, EntryFacts DEF Vote, IsChallenged
  <2>2. c \in Challenge
    <3>1. /\ d.voters \cup {a} \in SUBSET Address
          /\ (IF keep THEN d.keep + 1 ELSE d.keep) \in Nat
          /\ (IF keep THEN d.remove ELSE d.remove + 1) \in Nat
      BY <2>1 DEF Challenge
    <3> HIDE DEF d
    <3> QED BY <2>1, <3>1 DEF Challenge
  <2>3. c # NoChallenge
    BY NothingAssumption, <2>2
  <2>4. entries' = [entries EXCEPT ![k] = e]
    BY <1>0, <1>3 DEF Vote, CuratedTypeOK
  <2> HIDE DEF c, d
  <2>5. e \in Entry /\ e.state = "challenged" /\ e.challenge = c
    BY <2>1, <2>2 DEF Entry, State
  <2>6. UNCHANGED <<height, credits, owed, locked, held>>
    BY <1>3 DEF Vote
  <2> HIDE DEF e
  <2>7. CuratedTypeOK'
    <3>1. /\ credits' \in [Address -> Nat]
          /\ owed' \in Int /\ locked' \in Int /\ held' \in Int
      BY <1>0, <2>6 DEF CuratedTypeOK
    <3> QED BY <1>0, <2>3, <2>4, <2>5, <2>6, <3>1, EntryReplaced
  <2> QED BY <2>6, <2>7 DEF CuratedInv
<1>4. ASSUME NEW k \in Keys, Resolve(k)
      PROVE  CuratedInv'
  <2> DEFINE e == [entries[k] EXCEPT !.state = Settled(entries[k]),
                                     !.challenge = NoChallenge]
  <2>1. /\ Seen(k) /\ entries[k] \in Entry
        /\ Winner(entries[k]) \in Address /\ Prize(entries[k]) \in Nat
    BY <1>0, <1>4, EntryFacts, PrizeFacts DEF Resolve, IsChallenged
  <2>2. entries' = [entries EXCEPT ![k] = e]
    BY <1>0, <1>4 DEF Resolve, CuratedTypeOK
  <2>3. e \in Entry /\ e.state # "challenged" /\ e.challenge = NoChallenge
    BY <2>1 DEF Entry, State, Settled
  <2>4. height' = height /\ Credit(Winner(entries[k]), Prize(entries[k]))
    BY <1>4 DEF Resolve
  <2> HIDE DEF e
  <2> QED BY <1>0, <2>1, <2>2, <2>3, <2>4, CreditKeeps, EntryReplaced DEF CuratedInv
<1>5. ASSUME NEW a \in Address, NEW k \in Keys, Unlist(a, k)
      PROVE  CuratedInv'
  <2> DEFINE e == [entries[k] EXCEPT !.state = "removed"]
  <2>1. /\ Seen(k) /\ entries[k] \in Entry /\ entries[k].deposit \in Nat
        /\ entries[k].state # "challenged"
    BY <1>0, <1>5, EntryFacts DEF Unlist, Live
  <2>2. entries' = [entries EXCEPT ![k] = e]
    BY <1>0, <1>5 DEF Unlist, CuratedTypeOK
  <2>3. entries[k].challenge = NoChallenge
    BY <1>0, <2>1 DEF CuratedTypeOK
  <2>4. e \in Entry /\ e.state = "removed" /\ e.challenge = NoChallenge
    BY <2>1, <2>3 DEF Entry, State
  <2>5. height' = height /\ Credit(a, entries[k].deposit)
    BY <1>5 DEF Unlist
  <2> HIDE DEF e
  <2> QED BY <1>0, <2>1, <2>2, <2>4, <2>5, CreditKeeps, EntryReplaced DEF CuratedInv
<1>6. ASSUME NEW a \in Address, Withdraw(a)
      PROVE  CuratedInv'
  BY <1>6 DEF Withdraw, CuratedInv, CuratedTypeOK, Seen
<1>7. CASE Tick
  BY <1>7 DEF Tick, CuratedInv, CuratedTypeOK, Seen
<1>8. CASE UNCHANGED vars
  BY <1>8 DEF vars, CuratedInv, CuratedTypeOK, Seen
<1> QED BY <1>1, <1>2, <1>3, <1>4, <1>5, <1>6, <1>7, <1>8 DEF Next

LEMMA CuratedInvariant == Spec => []CuratedInv
BY CuratedInit, CuratedStep, PTL DEF Spec

\* Every record of the list is well formed, and challenged when it says so.
THEOREM CuratedTypeCorrect == Spec => []CuratedTypeOK
BY CuratedInvariant, PTL DEF CuratedInv

-----------------------------------------------------------------------------
(* Pull payments. *)

\* The coins held back something or are owed, no credit shrinks but by being
\* collected whole, and nothing else takes coins out of the realm.
THEOREM CuratedKeepsBooks == Spec => KeepsBooks
<1>1. Init => Books!Init
  BY DEF Init, Books!Init
<1>2. CuratedInv /\ CuratedInv' /\ [Next]_vars => [Books!Next]_(Books!vars)
  <2> SUFFICES ASSUME CuratedInv, CuratedInv', [Next]_vars
               PROVE  [Books!Next]_(Books!vars)
    OBVIOUS
  <2>0. CuratedTypeOK /\ Deposit \in Nat /\ held' = locked' + owed'
    BY AmountAssumption DEF CuratedInv
  <2>1. ASSUME NEW a \in Address, NEW amount \in Nat, PayIn(a, amount)
        PROVE  Books!Book
    <3>1. UNCHANGED <<credits, owed>> /\ held' >= held
      BY <2>1, PayInKeeps
    <3>2. credits \in [Address -> Nat] /\ owed \in Int
      BY <2>0 DEF CuratedTypeOK
    <3> QED BY <2>0, <3>1, <3>2 DEF Books!Book, Books!Balanced
  <2>2. ASSUME NEW a \in Address, NEW amount \in Nat, Credit(a, amount)
        PROVE  Books!Book
    <3>1. /\ held' = held /\ owed' = owed + amount /\ amount > 0
          /\ credits' = [credits EXCEPT ![a] = @ + amount]
      BY <2>2, CreditKeeps
    <3>2. credits \in [Address -> Nat] /\ owed \in Int /\ held \in Int
      BY <2>0 DEF CuratedTypeOK
    <3>3. /\ \A b \in Address : credits'[b] >= credits[b]
          /\ credits'[a] # credits[a]
      BY <3>1, <3>2
    <3>4. held' >= held /\ owed' >= owed /\ owed' # owed
      BY <3>1, <3>2
    <3> QED BY <2>0, <3>3, <3>4 DEF Books!Book, Books!Balanced
  <2>3. ASSUME NEW a \in Address, NEW k \in Keys, Apply(a, k)
        PROVE  Books!Next
    BY <2>0, <2>1, <2>3 DEF Apply, Books!Next
  <2>4. ASSUME NEW a \in Address, NEW k \in Keys, Object(a, k)
        PROVE  Books!Next
    <3>1. BondFor(k) \in Nat
      BY <2>0, <2>4, EntryFacts DEF Object, BondFor
    <3> QED BY <2>1, <2>4, <3>1 DEF Object, Books!Next
  <2>5. ASSUME NEW k \in Keys, Resolve(k)
        PROVE  Books!Next
    <3>1. Winner(entries[k]) \in Address /\ Prize(entries[k]) \in Nat
      BY <2>0, <2>5, PrizeFacts DEF Resolve
    <3> QED BY <2>2, <2>5, <3>1 DEF Resolve, Books!Next
  <2>6. ASSUME NEW a \in Address, NEW k \in Keys, Unlist(a, k)
        PROVE  Books!Next
    <3>1. entries[k].deposit \in Nat
      BY <2>0, <2>6, EntryFacts DEF Unlist, Live
    <3> QED BY <2>2, <2>6, <3>1 DEF Unlist, Books!Next
  <2>7. ASSUME NEW a \in Address, Withdraw(a)
        PROVE  Books!Next
    BY <2>7 DEF Withdraw, Books!Collect, Books!Next
  <2>8. CASE UNCHANGED <<credits, owed, locked, held>>
    BY <2>8 DEF Books!vars
  <2>9. CASE Tick \/ \E a \in Address, k \in Keys, keep \in BOOLEAN : Vote(a, k, keep)
    BY <2>8, <2>9 DEF Tick, Vote
  <2>10. CASE UNCHANGED vars
    BY <2>8, <2>10 DEF vars
  <2> QED BY <2>3, <2>4, <2>5, <2>6, <2>7, <2>9, <2>10 DEF Next
<1> QED BY <1>1, <1>2, CuratedInvariant, PTL DEF Spec, KeepsBooks, Books!Spec
-----------------------------------------------------------------------------
(* The counters and the sums they stand for. *)

\* With the books: no challenge is fought for more or less than what it may take.
BondsMatch ==
    \A k \in Keys : IsChallenged(k) => entries[k].challenge.bond = entries[k].deposit

BackedInv ==
    /\ Backed
    /\ BondsMatch
    /\ wallet \in [Address -> Int]

\* What one entry backs and is at stake for each address are amounts of addresses.
EntriesFit ==
    \A k \in Keys :
        /\ Backing(k) \in Int
        /\ \A a \in Address : StakeIn(a, k) \in Int
        /\ IsChallenged(k) => /\ entries[k].challenge.bond \in Nat
                              /\ entries[k].challenge.challenger \in Address
        /\ Seen(k) => entries[k].deposit \in Nat /\ entries[k].owner \in Address

LEMMA EntriesDoFit == CuratedTypeOK => EntriesFit
<1> SUFFICES ASSUME CuratedTypeOK, NEW k \in Keys
             PROVE  /\ Backing(k) \in Int
                    /\ \A a \in Address : StakeIn(a, k) \in Int
                    /\ IsChallenged(k) => /\ entries[k].challenge.bond \in Nat
                                          /\ entries[k].challenge.challenger \in Address
                    /\ Seen(k) => entries[k].deposit \in Nat /\ entries[k].owner \in Address
  BY DEF EntriesFit
<1>1. Seen(k) => entries[k].deposit \in Nat /\ entries[k].owner \in Address
  BY EntryFacts
<1>2. IsChallenged(k) => /\ entries[k].challenge.bond \in Nat
                         /\ entries[k].challenge.challenger \in Address
  BY EntryFacts DEF IsChallenged, Challenge
<1> QED BY <1>1, <1>2 DEF Backing, StakeIn, Live, IsChallenged

Backings == SumFunction([k \in Keys |-> Backing(k)])

\* When one entry changes, the sums change by what it backed and backs.
LEMMA OneEntryChanges ==
    ASSUME CuratedTypeOK, CuratedTypeOK', NEW k \in Keys,
           \A j \in Keys \ {k} : entries'[j] = entries[j]
    PROVE  /\ Backings' = Backings + Backing(k)' - Backing(k)
           /\ \A a \in Address : Stake(a)' = Stake(a) + StakeIn(a, k)' - StakeIn(a, k)
<1>1. /\ \A j \in Keys : Backing(j) \in Int /\ Backing(j)' \in Int
      /\ \A a \in Address, j \in Keys : StakeIn(a, j) \in Int /\ StakeIn(a, j)' \in Int
  <2>1. EntriesFit /\ EntriesFit'
    BY EntriesDoFit, PTL
  <2> QED BY <2>1 DEF EntriesFit
<1>2. \A j \in Keys \ {k} : Backing(j)' = Backing(j) /\ \A a \in Address : StakeIn(a, j)' = StakeIn(a, j)
  BY DEF Backing, StakeIn, Live, IsChallenged, Seen
<1>3. Backings' = Backings + Backing(k)' - Backing(k)
  <2> DEFINE f == [j \in Keys |-> Backing(j)]
             g == [j \in Keys |-> Backing(j)']
  <2>1. /\ \A j \in Keys : f[j] \in Int /\ g[j] \in Int
        /\ \A j \in Keys \ {k} : g[j] = f[j]
    BY <1>1, <1>2
  <2>2. SumFunctionOnSet(g, Keys) = SumFunctionOnSet(f, Keys) + g[k] - f[k]
    <3> HIDE DEF f, g
    <3> QED BY <2>1, FiniteAssumption, SumChange
  <2> QED BY <2>2 DEF Backings, SumFunction
<1>4. ASSUME NEW a \in Address
      PROVE  Stake(a)' = Stake(a) + StakeIn(a, k)' - StakeIn(a, k)
  <2> DEFINE f == [j \in Keys |-> StakeIn(a, j)]
             g == [j \in Keys |-> StakeIn(a, j)']
  <2>1. /\ \A j \in Keys : f[j] \in Int /\ g[j] \in Int
        /\ \A j \in Keys \ {k} : g[j] = f[j]
    BY <1>1, <1>2
  <2>2. SumFunctionOnSet(g, Keys) = SumFunctionOnSet(f, Keys) + g[k] - f[k]
    <3> HIDE DEF f, g
    <3> QED BY <2>1, FiniteAssumption, SumChange
  <2> QED BY <2>2 DEF Stake, SumFunction
<1> QED BY <1>3, <1>4

\* Each action, as what it does to what one entry backs.
Keeps(k) == IsChallenged(k)' => entries'[k].challenge.bond = entries'[k].deposit

LEMMA ApplyBacks ==
    ASSUME CuratedTypeOK, NEW a \in Address, NEW k \in Keys, Apply(a, k)
    PROVE  /\ Backing(k) = 0 /\ Backing(k)' = Deposit /\ Keeps(k)
           /\ \A j \in Keys \ {k} : entries'[j] = entries[j]
           /\ \A b \in Address : /\ StakeIn(b, k) = 0
                                 /\ StakeIn(b, k)' = IF b = a THEN Deposit ELSE 0
<1> DEFINE e == [owner |-> a, deposit |-> Deposit, state |-> "listed", challenge |-> NoChallenge]
<1>1. e \in Entry /\ e # NoEntry /\ e.state = "listed" /\ e.deposit = Deposit /\ e.owner = a
  BY AmountAssumption, NothingAssumption DEF Entry, State
<1>2. entries'[k] = e /\ \A j \in Keys \ {k} : entries'[j] = entries[j]
  BY DEF Apply, CuratedTypeOK
<1>3. ~ Live(k) /\ ~ IsChallenged(k)
  BY DEF Apply, Live, IsChallenged
<1> HIDE DEF e
<1> QED BY <1>1, <1>2, <1>3, AmountAssumption
        DEF Backing, StakeIn, Live, IsChallenged, Seen, Keeps

LEMMA ObjectBacks ==
    ASSUME CuratedTypeOK, NEW a \in Address, NEW k \in Keys, Object(a, k)
    PROVE  /\ Backing(k) = entries[k].deposit /\ Backing(k)' = Backing(k) + BondFor(k)
           /\ Keeps(k) /\ BondFor(k) \in Nat
           /\ \A j \in Keys \ {k} : entries'[j] = entries[j]
           /\ \A b \in Address :
                 StakeIn(b, k)' = StakeIn(b, k) + (IF b = a THEN BondFor(k) ELSE 0)
<1> DEFINE c == [challenger |-> a, bond |-> BondFor(k), deadline |-> height + ChallengeBlocks,
                 keep |-> 0, remove |-> 0, voters |-> {}]
           e == [entries[k] EXCEPT !.state = "challenged", !.challenge = c]
<1>1. /\ Seen(k) /\ BondFor(k) = entries[k].deposit /\ entries[k] \in Entry
      /\ entries[k].state = "listed"
  BY EntryFacts DEF Object, BondFor
<1>2. entries[k].deposit \in Nat /\ height + ChallengeBlocks \in Nat
  BY <1>1, EntryFacts, AmountAssumption DEF CuratedTypeOK
<1>3. c \in Challenge /\ c # NoChallenge /\ c.challenger = a /\ c.bond = entries[k].deposit
  BY <1>1, <1>2, NothingAssumption DEF Challenge
<1>4. entries'[k] = e /\ \A j \in Keys \ {k} : entries'[j] = entries[j]
  BY DEF Object, CuratedTypeOK
<1> HIDE DEF c
<1>5. /\ e \in Entry /\ e.state = "challenged" /\ e.challenge = c
      /\ e.owner = entries[k].owner /\ e.deposit = entries[k].deposit
  BY <1>1, <1>3 DEF Entry, State
<1>6. e # NoEntry
  BY <1>5, NothingAssumption
<1> HIDE DEF e
<1> QED BY <1>1, <1>2, <1>3, <1>4, <1>5, <1>6
        DEF Backing, StakeIn, Live, IsChallenged, Seen, Keeps

LEMMA VoteBacks ==
    ASSUME CuratedTypeOK, NEW a \in Address, NEW k \in Keys, NEW keep \in BOOLEAN, Vote(a, k, keep)
    PROVE  /\ Backing(k)' = Backing(k)
           /\ BondsMatch => Keeps(k)
           /\ \A j \in Keys \ {k} : entries'[j] = entries[j]
           /\ \A b \in Address : StakeIn(b, k)' = StakeIn(b, k)
<1> DEFINE d == entries[k].challenge
           c == [d EXCEPT !.voters = @ \cup {a},
                          !.keep = IF keep THEN @ + 1 ELSE @,
                          !.remove = IF keep THEN @ ELSE @ + 1]
           e == [entries[k] EXCEPT !.challenge = c]
<1>1. IsChallenged(k) /\ Seen(k) /\ entries[k] \in Entry /\ d \in Challenge /\ entries[k].state = "challenged"
  BY EntryFacts DEF Vote, IsChallenged
<1>2. c \in Challenge /\ c.bond = d.bond /\ c.challenger = d.challenger
  <2>1. /\ d.voters \cup {a} \in SUBSET Address
        /\ (IF keep THEN d.keep + 1 ELSE d.keep) \in Nat
        /\ (IF keep THEN d.remove ELSE d.remove + 1) \in Nat
    BY <1>1 DEF Challenge
  <2> HIDE DEF d
  <2> QED BY <1>1, <2>1 DEF Challenge
<1>3. c # NoChallenge
  BY <1>2, NothingAssumption
<1>4. entries'[k] = e /\ \A j \in Keys \ {k} : entries'[j] = entries[j]
  BY DEF Vote, CuratedTypeOK
<1> HIDE DEF c
<1>5. /\ e \in Entry /\ e.state = "challenged" /\ e.challenge = c
      /\ e.owner = entries[k].owner /\ e.deposit = entries[k].deposit
  BY <1>1, <1>2 DEF Entry, State
<1>6. e # NoEntry
  BY <1>5, NothingAssumption
<1> HIDE DEF e
<1> QED BY <1>1, <1>2, <1>3, <1>4, <1>5, <1>6
        DEF Backing, StakeIn, Live, IsChallenged, Seen, Keeps, BondsMatch

LEMMA ResolveBacks ==
    ASSUME CuratedTypeOK, BondsMatch, NEW k \in Keys, Resolve(k)
    PROVE  LET e == entries[k]  d == entries[k].deposit
               c == entries[k].challenge
           IN  /\ IsChallenged(k) /\ ~ IsChallenged(k)' /\ d \in Nat /\ c.bond = d
               /\ Backing(k) = d + d
               /\ Backing(k)' = Backing(k) - Prize(e)
               /\ \A j \in Keys \ {k} : entries'[j] = entries[j]
               /\ Prize(e) = IF Kept(c) THEN d ELSE d + d
               /\ Winner(e) = IF Kept(c) THEN e.owner ELSE c.challenger
               /\ e.owner \in Address /\ c.challenger \in Address
               /\ \A b \in Address :
                     /\ StakeIn(b, k) = (IF b = e.owner THEN d ELSE 0)
                                        + (IF b = c.challenger THEN d ELSE 0)
                     /\ StakeIn(b, k)' = IF Kept(c) /\ b = e.owner THEN d ELSE 0
<1> DEFINE e == entries[k]
           d == entries[k].deposit
           c == entries[k].challenge
           f == [entries[k] EXCEPT !.state = Settled(entries[k]), !.challenge = NoChallenge]
<1>1. /\ IsChallenged(k) /\ Seen(k) /\ e \in Entry /\ c \in Challenge
      /\ e.state = "challenged" /\ c # NoChallenge /\ d \in Nat /\ c.bond = d
      /\ e.owner \in Address /\ c.challenger \in Address
  BY EntryFacts, EntriesDoFit DEF Resolve, IsChallenged, EntriesFit, BondsMatch
<1>2. /\ Prize(e) = IF Kept(c) THEN d ELSE d + d
      /\ Winner(e) = IF Kept(c) THEN e.owner ELSE c.challenger
  BY <1>1 DEF Prize, Winner
<1>3. entries'[k] = f /\ \A j \in Keys \ {k} : entries'[j] = entries[j]
  BY DEF Resolve, CuratedTypeOK
<1>4. /\ f \in Entry /\ f.state = Settled(e) /\ f.challenge = NoChallenge
      /\ f.owner = e.owner /\ f.deposit = d
  BY <1>1 DEF Entry, State, Settled
<1>5. f # NoEntry
  BY <1>4, NothingAssumption
<1>6. ~ IsChallenged(k)' /\ Seen(k)' /\ (Live(k)' <=> Kept(c))
  BY <1>3, <1>4, <1>5 DEF IsChallenged, Live, Seen, Settled
<1>7. Live(k)
  BY <1>1 DEF Live
<1>8. Backing(k) = d + d /\ Backing(k)' = IF Kept(c) THEN d ELSE 0
  BY <1>1, <1>3, <1>4, <1>6, <1>7 DEF Backing
<1>9. ASSUME NEW b \in Address
      PROVE  /\ StakeIn(b, k) = (IF b = e.owner THEN d ELSE 0)
                                + (IF b = c.challenger THEN d ELSE 0)
             /\ StakeIn(b, k)' = IF Kept(c) /\ b = e.owner THEN d ELSE 0
  BY <1>1, <1>3, <1>4, <1>6, <1>7 DEF StakeIn
<1>10. Backing(k)' = Backing(k) - Prize(e)
  BY <1>1, <1>2, <1>8
<1> HIDE DEF f
<1> QED BY <1>1, <1>2, <1>3, <1>6, <1>8, <1>9, <1>10

LEMMA UnlistBacks ==
    ASSUME CuratedTypeOK, NEW a \in Address, NEW k \in Keys, Unlist(a, k)
    PROVE  /\ entries[k].deposit \in Nat
           /\ Backing(k) = entries[k].deposit /\ Backing(k)' = 0 /\ Keeps(k)
           /\ \A j \in Keys \ {k} : entries'[j] = entries[j]
           /\ \A b \in Address : /\ StakeIn(b, k) = IF b = a THEN entries[k].deposit ELSE 0
                                 /\ StakeIn(b, k)' = 0
<1> DEFINE e == [entries[k] EXCEPT !.state = "removed"]
<1>1. /\ Live(k) /\ Seen(k) /\ entries[k] \in Entry /\ entries[k].deposit \in Nat
      /\ entries[k].state # "challenged" /\ entries[k].owner = a
  BY EntryFacts DEF Unlist, Live
<1>2. ~ IsChallenged(k)
  BY <1>1 DEF IsChallenged
<1>3. entries'[k] = e /\ \A j \in Keys \ {k} : entries'[j] = entries[j]
  BY DEF Unlist, CuratedTypeOK
<1>4. e.state = "removed"
  BY <1>1 DEF Entry
<1> HIDE DEF e
<1>5. ~ IsChallenged(k)' /\ ~ Live(k)'
  BY <1>3, <1>4 DEF IsChallenged, Live
<1> QED BY <1>1, <1>2, <1>3, <1>5 DEF Backing, StakeIn, Keeps

\* Crediting one address moves the sum of the credits as much.
LEMMA CreditsChange ==
    ASSUME CuratedTypeOK, CuratedTypeOK', NEW a \in Address,
           \A b \in Address \ {a} : credits'[b] = credits[b]
    PROVE  SumFunction(credits)' = SumFunction(credits) + credits'[a] - credits[a]
<1>1. /\ DOMAIN credits = Address /\ DOMAIN credits' = Address
      /\ \A b \in Address : credits[b] \in Int /\ credits'[b] \in Int
  BY DEF CuratedTypeOK
<1>2. SumFunctionOnSet(credits', Address) =
      SumFunctionOnSet(credits, Address) + credits'[a] - credits[a]
  BY <1>1, FiniteAssumption, SumChange
<1> QED BY <1>1, <1>2 DEF SumFunction

LEMMA SumsAreInts ==
    ASSUME CuratedTypeOK
    PROVE  /\ Backings \in Int /\ SumFunction(credits) \in Int
           /\ \A a \in Address : Stake(a) \in Int
<1>1. DOMAIN credits = Address /\ \A b \in Address : credits[b] \in Int
  BY DEF CuratedTypeOK
<1>2. SumFunction(credits) \in Int
  BY <1>1, FiniteAssumption, SumType DEF SumFunction
<1>3. Backings \in Int
  <2> DEFINE f == [k \in Keys |-> Backing(k)]
  <2>1. DOMAIN f = Keys /\ \A k \in Keys : f[k] \in Int
    BY EntriesDoFit DEF EntriesFit
  <2> HIDE DEF f
  <2>2. SumFunction(f) \in Int
    BY <2>1, FiniteAssumption, SumType DEF SumFunction
  <2> QED BY <2>2 DEF Backings, f
<1>4. ASSUME NEW a \in Address PROVE Stake(a) \in Int
  <2> DEFINE f == [k \in Keys |-> StakeIn(a, k)]
  <2>1. DOMAIN f = Keys /\ \A k \in Keys : f[k] \in Int
    BY EntriesDoFit DEF EntriesFit
  <2> HIDE DEF f
  <2>2. SumFunction(f) \in Int
    BY <2>1, FiniteAssumption, SumType DEF SumFunction
  <2> QED BY <2>2 DEF Stake, f
<1> QED BY <1>2, <1>3, <1>4

\* Nothing that is summed changes.
LEMMA NoEntryChanges ==
    ASSUME entries' = entries
    PROVE  /\ Backings' = Backings /\ (BondsMatch => BondsMatch')
           /\ \A a \in Address : Stake(a)' = Stake(a)
BY DEF Backings, Backing, Stake, StakeIn, BondsMatch, Live, IsChallenged, Seen

\* With one entry changed as Keeps has it, every bond matches.
LEMMA BondsKept ==
    ASSUME BondsMatch, NEW k \in Keys, Keeps(k),
           \A j \in Keys \ {k} : entries'[j] = entries[j]
    PROVE  BondsMatch'
BY DEF BondsMatch, Keeps, IsChallenged, Seen

LEMMA BackedInit == Init => BackedInv
<1> SUFFICES ASSUME Init PROVE BackedInv
  OBVIOUS
<1>1. \A k \in Keys : ~ Seen(k)
  BY DEF Init, Seen
<1>2. \A k \in Keys : Backing(k) = 0 /\ ~ IsChallenged(k)
  BY <1>1 DEF Backing, Live, IsChallenged
<1>3. Backings = 0
  <2> DEFINE f == [k \in Keys |-> Backing(k)]
  <2>1. DOMAIN f = Keys /\ \A k \in Keys : f[k] = 0
    BY <1>2
  <2> HIDE DEF f
  <2>2. SumFunction(f) = 0
    BY <2>1, FiniteAssumption, SumOfZeros DEF SumFunction
  <2> QED BY <2>2 DEF Backings, f
<1>4. SumFunction(credits) = 0
  <2>1. DOMAIN credits = Address /\ \A a \in Address : credits[a] = 0
    BY DEF Init
  <2> QED BY <2>1, FiniteAssumption, SumOfZeros DEF SumFunction
<1>5. Backed
  BY <1>3, <1>4 DEF Init, Backed, Backings
<1> QED BY <1>2, <1>5 DEF Init, BackedInv, BondsMatch

\* Paying in, with an entry that backs as much more; and crediting, with one that
\* backs as much less.
LEMMA PayInBacked ==
    ASSUME CuratedInv, CuratedInv', BackedInv, NEW a \in Address, NEW amount \in Nat, PayIn(a, amount),
           NEW k \in Keys, Backing(k)' = Backing(k) + amount, Keeps(k),
           \A j \in Keys \ {k} : entries'[j] = entries[j]
    PROVE  BackedInv'
<1>1. Backings' = Backings + Backing(k)' - Backing(k)
  BY OneEntryChanges DEF CuratedInv
<1>2. Backings \in Int /\ Backing(k) \in Int
  BY SumsAreInts, EntriesDoFit DEF CuratedInv, EntriesFit
<1>3. locked' = Backings' /\ owed' = SumFunction(credits)'
  BY <1>1, <1>2 DEF BackedInv, Backed, Backings, PayIn
<1>4. wallet' \in [Address -> Int]
  BY DEF BackedInv, PayIn
<1> QED BY <1>3, <1>4, BondsKept DEF BackedInv, Backed, Backings, CuratedInv

LEMMA CreditBacked ==
    ASSUME CuratedInv, CuratedInv', BackedInv, NEW a \in Address, NEW amount \in Nat, Credit(a, amount),
           NEW k \in Keys, Backing(k)' = Backing(k) - amount, Keeps(k),
           \A j \in Keys \ {k} : entries'[j] = entries[j]
    PROVE  BackedInv'
<1>1. Backings' = Backings + Backing(k)' - Backing(k)
  BY OneEntryChanges DEF CuratedInv
<1>2. Backings \in Int /\ Backing(k) \in Int /\ SumFunction(credits) \in Int
  BY SumsAreInts, EntriesDoFit DEF CuratedInv, EntriesFit
<1>3. /\ credits \in [Address -> Nat]
      /\ credits'[a] = credits[a] + amount
      /\ \A b \in Address \ {a} : credits'[b] = credits[b]
  BY DEF Credit, CuratedInv, CuratedTypeOK
<1>4. SumFunction(credits)' = SumFunction(credits) + amount
  BY <1>2, <1>3, CreditsChange DEF CuratedInv
<1>5. locked' = Backings' /\ owed' = SumFunction(credits)'
  BY <1>1, <1>2, <1>4 DEF BackedInv, Backed, Backings, Credit
<1>6. wallet' \in [Address -> Int]
  BY DEF BackedInv, Credit
<1> QED BY <1>5, <1>6, BondsKept DEF BackedInv, Backed, Backings, CuratedInv

LEMMA BackedStep == CuratedInv /\ CuratedInv' /\ BackedInv /\ [Next]_vars => BackedInv'
<1> SUFFICES ASSUME CuratedInv, CuratedInv', BackedInv, [Next]_vars PROVE BackedInv'
  OBVIOUS
<1>0. CuratedTypeOK /\ CuratedTypeOK' /\ Deposit \in Nat /\ BondsMatch
  BY AmountAssumption DEF CuratedInv, BackedInv
<1>1. ASSUME NEW a \in Address, NEW k \in Keys, Apply(a, k) PROVE BackedInv'
  <2>1. /\ Backing(k) = 0 /\ Backing(k)' = Deposit /\ Keeps(k)
        /\ \A j \in Keys \ {k} : entries'[j] = entries[j]
    BY <1>0, <1>1, ApplyBacks
  <2>2. PayIn(a, Deposit)
    BY <1>1 DEF Apply
  <2>3. Backing(k)' = Backing(k) + Deposit
    BY <1>0, <2>1
  <2> QED BY <1>0, <2>1, <2>2, <2>3, PayInBacked
<1>2. ASSUME NEW a \in Address, NEW k \in Keys, Object(a, k) PROVE BackedInv'
  <2>1. /\ Backing(k)' = Backing(k) + BondFor(k) /\ Keeps(k) /\ BondFor(k) \in Nat
        /\ \A j \in Keys \ {k} : entries'[j] = entries[j]
    BY <1>0, <1>2, ObjectBacks
  <2>2. PayIn(a, BondFor(k))
    BY <1>2 DEF Object
  <2>3. PICK amount \in Nat : amount = BondFor(k)
    BY <2>1
  <2>4. Backing(k)' = Backing(k) + amount /\ PayIn(a, amount)
    BY <2>1, <2>2, <2>3
  <2> QED BY <2>1, <2>4, PayInBacked
<1>3. ASSUME NEW a \in Address, NEW k \in Keys, NEW keep \in BOOLEAN, Vote(a, k, keep)
      PROVE  BackedInv'
  <2>1. /\ Backing(k)' = Backing(k) /\ Keeps(k)
        /\ \A j \in Keys \ {k} : entries'[j] = entries[j]
    BY <1>0, <1>3, VoteBacks
  <2>2. Backings' = Backings
    <3>1. Backings' = Backings + Backing(k)' - Backing(k)
      BY <1>0, <2>1, OneEntryChanges
    <3>2. Backings \in Int /\ Backing(k) \in Int
      BY <1>0, SumsAreInts, EntriesDoFit DEF EntriesFit
    <3> QED BY <2>1, <3>1, <3>2
  <2>3. BondsMatch'
    BY <1>0, <2>1, BondsKept
  <2>4. UNCHANGED <<height, credits, owed, locked, held, wallet>>
    BY <1>3 DEF Vote
  <2> QED BY <2>2, <2>3, <2>4 DEF BackedInv, Backed, Backings
<1>4. ASSUME NEW k \in Keys, Resolve(k) PROVE BackedInv'
  <2>1. /\ Winner(entries[k]) \in Address /\ Prize(entries[k]) \in Nat
        /\ Backing(k)' = Backing(k) - Prize(entries[k]) /\ Keeps(k)
        /\ \A j \in Keys \ {k} : entries'[j] = entries[j]
    BY <1>0, <1>4, ResolveBacks, PrizeFacts DEF Keeps
  <2> QED BY <1>4, <2>1, CreditBacked DEF Resolve
<1>5. ASSUME NEW a \in Address, NEW k \in Keys, Unlist(a, k) PROVE BackedInv'
  <2>1. /\ entries[k].deposit \in Nat /\ Backing(k)' = Backing(k) - entries[k].deposit
        /\ Keeps(k) /\ \A j \in Keys \ {k} : entries'[j] = entries[j]
    BY <1>0, <1>5, UnlistBacks
  <2> QED BY <1>5, <2>1, CreditBacked DEF Unlist
<1>6. ASSUME NEW a \in Address, Withdraw(a) PROVE BackedInv'
  <2>1. /\ credits \in [Address -> Nat] /\ credits'[a] = 0
        /\ \A b \in Address \ {a} : credits'[b] = credits[b]
    BY <1>0, <1>6 DEF Withdraw, CuratedTypeOK
  <2>2. SumFunction(credits)' = SumFunction(credits) - credits[a]
    BY <1>0, <2>1, CreditsChange, SumsAreInts
  <2>3. entries' = entries /\ locked' = locked /\ owed' = owed - credits[a]
    BY <1>6 DEF Withdraw
  <2>4. wallet' \in [Address -> Int]
    BY <1>6, <2>1 DEF Withdraw, BackedInv
  <2> QED BY <1>0, <2>2, <2>3, <2>4, NoEntryChanges DEF BackedInv, Backed, Backings, CuratedInv
<1>7. CASE UNCHANGED <<entries, credits, owed, locked, held, wallet>>
  BY <1>7, NoEntryChanges DEF BackedInv, Backed, Backings
<1>8. Tick \/ UNCHANGED vars => UNCHANGED <<entries, credits, owed, locked, held, wallet>>
  BY DEF Tick, vars
<1> QED BY <1>1, <1>2, <1>3, <1>4, <1>5, <1>6, <1>7, <1>8 DEF Next

\* Every coin held backs a live entry or an open challenge or is owed to somebody, and
\* the counters the realm keeps are the sums of what they count.
THEOREM ListIsBacked == Spec => []Backed
<1>1. BackedInv => Backed
  BY DEF BackedInv
<1> QED BY <1>1, BackedInit, BackedStep, CuratedInvariant, PTL DEF Spec

-----------------------------------------------------------------------------
(* Wealth. *)

\* A step that changes one entry, as the wealth of each address has it.
LEMMA WealthMoves ==
    ASSUME CuratedTypeOK, CuratedTypeOK', NEW k \in Keys,
           \A j \in Keys \ {k} : entries'[j] = entries[j]
    PROVE  \A a \in Address :
              Wealth(a)' = wallet'[a] + credits'[a] + (Stake(a) + StakeIn(a, k)' - StakeIn(a, k))
BY OneEntryChanges DEF Wealth

WealthStep ==
    (\E a \in Address : Wealth(a)' # Wealth(a)) => \E k \in Keys : MovesByVerdict(k)

LEMMA WealthMovesByVerdict ==
    CuratedInv /\ CuratedInv' /\ BackedInv /\ [Next]_vars => WealthStep
<1> SUFFICES ASSUME CuratedInv, CuratedInv', BackedInv, [Next]_vars PROVE WealthStep
  OBVIOUS
<1>0. /\ CuratedTypeOK /\ CuratedTypeOK' /\ Deposit \in Nat /\ BondsMatch
      /\ wallet \in [Address -> Int] /\ credits \in [Address -> Nat]
      /\ EntriesFit
      /\ \A a \in Address : Stake(a) \in Int
  BY AmountAssumption, EntriesDoFit, SumsAreInts DEF CuratedInv, BackedInv, CuratedTypeOK
<1>1. ASSUME NEW a \in Address, NEW k \in Keys, NEW amount \in Nat, PayIn(a, amount),
             \A j \in Keys \ {k} : entries'[j] = entries[j],
             \A b \in Address : StakeIn(b, k)' = StakeIn(b, k) + (IF b = a THEN amount ELSE 0)
      PROVE  WealthStep
  <2>1. ASSUME NEW b \in Address PROVE Wealth(b)' = Wealth(b)
    <3>1. Wealth(b)' = wallet'[b] + credits'[b] + (Stake(b) + StakeIn(b, k)' - StakeIn(b, k))
      BY <1>0, <1>1, WealthMoves
    <3>2. /\ wallet'[b] = wallet[b] - (IF b = a THEN amount ELSE 0)
          /\ credits'[b] = credits[b]
      BY <1>0, <1>1 DEF PayIn
    <3>3. /\ wallet[b] \in Int /\ credits[b] \in Int /\ Stake(b) \in Int /\ StakeIn(b, k) \in Int
          /\ StakeIn(b, k)' = StakeIn(b, k) + (IF b = a THEN amount ELSE 0)
      BY <1>0, <1>1 DEF EntriesFit
    <3> QED BY <3>1, <3>2, <3>3 DEF Wealth
  <2> QED BY <2>1 DEF WealthStep
<1>2. ASSUME NEW a \in Address, NEW k \in Keys, Apply(a, k) PROVE WealthStep
  <2>1. /\ \A j \in Keys \ {k} : entries'[j] = entries[j]
        /\ \A b \in Address : /\ StakeIn(b, k) = 0
                              /\ StakeIn(b, k)' = IF b = a THEN Deposit ELSE 0
    BY <1>0, <1>2, ApplyBacks
  <2>2. \A b \in Address : StakeIn(b, k)' = StakeIn(b, k) + (IF b = a THEN Deposit ELSE 0)
    BY <1>0, <2>1
  <2>3. PayIn(a, Deposit)
    BY <1>2 DEF Apply
  <2> QED BY <1>0, <1>1, <2>1, <2>2, <2>3
<1>3. ASSUME NEW a \in Address, NEW k \in Keys, Object(a, k) PROVE WealthStep
  <2>1. /\ BondFor(k) \in Nat /\ \A j \in Keys \ {k} : entries'[j] = entries[j]
        /\ \A b \in Address :
              StakeIn(b, k)' = StakeIn(b, k) + (IF b = a THEN BondFor(k) ELSE 0)
    BY <1>0, <1>3, ObjectBacks
  <2>2. PayIn(a, BondFor(k))
    BY <1>3 DEF Object
  <2> QED BY <1>1, <2>1, <2>2
<1>4. ASSUME NEW a \in Address, NEW k \in Keys, NEW keep \in BOOLEAN, Vote(a, k, keep)
      PROVE  WealthStep
  <2>1. ASSUME NEW b \in Address PROVE Wealth(b)' = Wealth(b)
    <3>1. /\ StakeIn(b, k)' = StakeIn(b, k) /\ \A j \in Keys \ {k} : entries'[j] = entries[j]
      BY <1>0, <1>4, VoteBacks
    <3>2. Wealth(b)' = wallet'[b] + credits'[b] + (Stake(b) + StakeIn(b, k)' - StakeIn(b, k))
      BY <1>0, <3>1, WealthMoves
    <3>3. wallet' = wallet /\ credits' = credits
      BY <1>4 DEF Vote
    <3>4. Stake(b) \in Int /\ StakeIn(b, k) \in Int
      BY <1>0 DEF EntriesFit
    <3> QED BY <3>1, <3>2, <3>3, <3>4 DEF Wealth
  <2> QED BY <2>1 DEF WealthStep
<1>5. ASSUME NEW k \in Keys, Resolve(k) PROVE MovesByVerdict(k)
  <2> DEFINE e == entries[k]
             d == entries[k].deposit
             c == entries[k].challenge
  <2>1. /\ IsChallenged(k) /\ ~ IsChallenged(k)' /\ d \in Nat /\ ~ Open(c)
        /\ Prize(e) = IF Kept(c) THEN d ELSE d + d
        /\ Winner(e) = IF Kept(c) THEN e.owner ELSE c.challenger
        /\ \A j \in Keys \ {k} : entries'[j] = entries[j]
    BY <1>0, <1>5, ResolveBacks DEF Resolve
  <2>2. Kept(c) <=> ~ (c.remove > c.keep)
    <3>1. c \in Challenge
      BY <1>0, <2>1, EntryFacts DEF IsChallenged
    <3> QED BY <3>1 DEF Kept, Challenge
  <2>3. ASSUME NEW b \in Address
        PROVE  Wealth(b)' = Wealth(b)
                  + (IF b = (IF Kept(c) THEN e.owner ELSE c.challenger) THEN d ELSE 0)
                  - (IF b = (IF Kept(c) THEN c.challenger ELSE e.owner) THEN d ELSE 0)
    <3>1. Wealth(b)' = wallet'[b] + credits'[b] + (Stake(b) + StakeIn(b, k)' - StakeIn(b, k))
      BY <1>0, <2>1, WealthMoves
    <3>2. /\ StakeIn(b, k) = (IF b = e.owner THEN d ELSE 0) + (IF b = c.challenger THEN d ELSE 0)
          /\ StakeIn(b, k)' = IF Kept(c) /\ b = e.owner THEN d ELSE 0
      BY <1>0, <1>5, ResolveBacks
    <3>3. /\ wallet'[b] = wallet[b]
          /\ credits'[b] = credits[b] + (IF b = Winner(e) THEN Prize(e) ELSE 0)
      BY <1>0, <1>5 DEF Resolve, Credit
    <3>4. wallet[b] \in Int /\ credits[b] \in Int /\ Stake(b) \in Int /\ d \in Int
      BY <1>0, <2>1
    <3>5. Wealth(b) = wallet[b] + credits[b] + Stake(b)
      BY DEF Wealth
    <3> HIDE DEF e, c, d
    <3>6. CASE Kept(c)
      BY <2>1, <3>1, <3>2, <3>3, <3>4, <3>5, <3>6
    <3>7. CASE ~ Kept(c)
      <4>1. /\ credits'[b] = credits[b] + (IF b = c.challenger THEN d + d ELSE 0)
            /\ StakeIn(b, k)' = 0
        BY <2>1, <3>2, <3>3, <3>7
      <4>2. CASE b = c.challenger
        BY <3>1, <3>2, <3>3, <3>4, <3>5, <3>7, <4>1, <4>2
      <4>3. CASE b # c.challenger
        BY <3>1, <3>2, <3>3, <3>4, <3>5, <3>7, <4>1, <4>3
      <4> QED BY <4>2, <4>3
    <3> QED BY <3>6, <3>7
  <2> QED BY <2>1, <2>2, <2>3 DEF MovesByVerdict
<1>6. ASSUME NEW a \in Address, NEW k \in Keys, Unlist(a, k) PROVE WealthStep
  <2>1. ASSUME NEW b \in Address PROVE Wealth(b)' = Wealth(b)
    <3> DEFINE d == entries[k].deposit
    <3>1. /\ d \in Nat /\ StakeIn(b, k) = (IF b = a THEN d ELSE 0) /\ StakeIn(b, k)' = 0
          /\ \A j \in Keys \ {k} : entries'[j] = entries[j]
      BY <1>0, <1>6, UnlistBacks
    <3>2. Wealth(b)' = wallet'[b] + credits'[b] + (Stake(b) + StakeIn(b, k)' - StakeIn(b, k))
      BY <1>0, <3>1, WealthMoves
    <3>3. wallet'[b] = wallet[b] /\ credits'[b] = credits[b] + (IF b = a THEN d ELSE 0)
      BY <1>0, <1>6 DEF Unlist, Credit
    <3>4. wallet[b] \in Int /\ credits[b] \in Int /\ Stake(b) \in Int
      BY <1>0
    <3> HIDE DEF d
    <3> QED BY <3>1, <3>2, <3>3, <3>4 DEF Wealth
  <2> QED BY <2>1 DEF WealthStep
<1>7. ASSUME NEW a \in Address, Withdraw(a) PROVE WealthStep
  <2>1. ASSUME NEW b \in Address PROVE Wealth(b)' = Wealth(b)
    <3>1. Stake(b)' = Stake(b)
      BY <1>7, NoEntryChanges DEF Withdraw
    <3>2. /\ wallet'[b] = wallet[b] + (IF b = a THEN credits[a] ELSE 0)
          /\ credits'[b] = IF b = a THEN 0 ELSE credits[b]
      BY <1>0, <1>7 DEF Withdraw
    <3>3. wallet[b] \in Int /\ credits[b] \in Int /\ Stake(b) \in Int
      BY <1>0
    <3> QED BY <3>1, <3>2, <3>3 DEF Wealth
  <2> QED BY <2>1 DEF WealthStep
<1>8. CASE UNCHANGED <<entries, credits, wallet>>
  BY <1>8, NoEntryChanges DEF WealthStep, Wealth
<1>9. Tick \/ UNCHANGED vars => UNCHANGED <<entries, credits, wallet>>
  BY DEF Tick, vars
<1>10. (\E k \in Keys : MovesByVerdict(k)) => WealthStep
  BY DEF WealthStep
<1> QED BY <1>2, <1>3, <1>4, <1>5, <1>6, <1>7, <1>8, <1>9, <1>10 DEF Next

\* What an address has moves only when a challenge is resolved after its window, and by
\* the stake of the side that lost the vote.
THEOREM WealthOnlyMovesByVerdict == Spec => OnlyVerdictsMoveWealth
<1>1. CuratedInv /\ CuratedInv' /\ BackedInv /\ [Next]_vars =>
        [(\E a \in Address : Wealth(a)' # Wealth(a)) => \E k \in Keys : MovesByVerdict(k)]_vars
  BY WealthMovesByVerdict DEF WealthStep
<1> QED BY <1>1, BackedInit, BackedStep, CuratedInvariant, PTL DEF Spec, OnlyVerdictsMoveWealth
=============================================================================
