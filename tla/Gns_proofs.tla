----------------------------- MODULE Gns_proofs -----------------------------
(***************************************************************************)
(* What holds of the name service for any names, addresses, durations and  *)
(* policies: its records and indexes agree, locks never open, a pause      *)
(* freezes what is in force, a lease is honoured to the end of its grace,  *)
(* and no subname outlives the registration it was created under.          *)
(***************************************************************************)
EXTENDS Gns, SequenceTheorems, TLAPS

\* A name somebody holds or held: not one that is only kept from registration.
Owned(n) == Exists(n) /\ names[n].owner # NoAddress

\* Registrations of a name of two labels: its parent is there, was never deleted, and
\* if it is of the generation recorded it is the very registration recorded.
UnderItsParent(n) ==
    LET p == Parent(n) IN
    /\ Owned(p)
    /\ names[n].pgen <= names[p].gen
    /\ names[n].pgen = names[p].gen => names[n].pid = names[p].id

GnsInv ==
    /\ GnsTypeOK /\ IndexesAgree
    /\ \A n \in Names : Exists(n) =>
          /\ names[n].id <= created
          /\ names[n].owner = NoAddress => names[n] = Placeholder
    /\ \A n \in Names : Len(n) = 2 /\ Owned(n) => UnderItsParent(n)

-----------------------------------------------------------------------------
(* Names and their parents. *)

LEMMA NameFacts ==
    ASSUME NEW n \in Names
    PROVE  /\ n \in Seq(STRING) /\ n # <<>> /\ Len(n) \in Nat \ {0}
           /\ Len(n) > 1 => Parent(n) \in Names /\ Len(Parent(n)) = Len(n) - 1
<1>1. n \in Seq(STRING) /\ n # <<>>
  BY GnsNamesAssumption
<1>2. Len(n) \in Nat \ {0}
  BY <1>1, EmptySeq
<1>3. Len(Tail(n)) = Len(n) - 1
  BY <1>1, HeadTailProperties
<1>4. Len(n) > 1 => Tail(n) \in Names
  BY GnsNamesAssumption
<1> QED BY <1>1, <1>2, <1>3, <1>4 DEF Parent

\* The chain above a name is its parent, and the chain above that.
LEMMA ChainOfParent ==
    ASSUME NEW n \in Names, Len(n) > 1
    PROVE  ParentChainValid(n) <=> UnderParent(n) /\ ParentChainValid(Parent(n))
<1> DEFINE p == Parent(n)
<1>1. /\ n \in Seq(STRING) /\ n # <<>> /\ Len(n) \in Nat \ {0}
      /\ p \in Names /\ Len(p) = Len(n) - 1 /\ p \in Seq(STRING)
  BY NameFacts
<1>2. Up(n, 1) = n
  BY <1>1, SubSeqFull DEF Up
<1>3. ASSUME NEW i \in 1 .. Len(p) PROVE Up(n, i + 1) = Up(p, i)
  <2>1. i \in Int /\ i + 1 \in 1 .. Len(n) /\ Len(n) \in Int /\ Len(p) \in Int
    BY <1>1
  <2>2. \A j \in 1 .. Len(p) : p[j] = n[j + 1]
    BY <1>1, HeadTailProperties DEF Parent
  <2>3. \A j \in (i + 1) .. Len(n) : n[j] \in STRING
    BY <1>1, <2>1
  <2>4. /\ SubSeq(n, i + 1, Len(n)) \in Seq(STRING)
        /\ Len(SubSeq(n, i + 1, Len(n))) = Len(n) - (i + 1) + 1
        /\ \A j \in 1 .. Len(n) - (i + 1) + 1 :
              SubSeq(n, i + 1, Len(n))[j] = n[(i + 1) + j - 1]
    BY <2>1, <2>3, SubSeqProperties
  <2>5. \A j \in i .. Len(p) : p[j] \in STRING
    BY <1>1, <2>1
  <2>6. /\ SubSeq(p, i, Len(p)) \in Seq(STRING)
        /\ Len(SubSeq(p, i, Len(p))) = Len(p) - i + 1
        /\ \A j \in 1 .. Len(p) - i + 1 : SubSeq(p, i, Len(p))[j] = p[i + j - 1]
    BY <2>1, <2>5, SubSeqProperties
  <2> DEFINE s == SubSeq(n, i + 1, Len(n))
             t == SubSeq(p, i, Len(p))
  <2> HIDE DEF p
  <2>7. Len(s) = Len(t) /\ Len(s) = Len(p) - i + 1
    BY <1>1, <2>1, <2>4, <2>6
  <2>8. ASSUME NEW j \in 1 .. Len(s) PROVE s[j] = t[j]
    <3>1. j \in 1 .. Len(p) - i + 1 /\ j \in 1 .. Len(n) - (i + 1) + 1 /\ j \in Int
      BY <1>1, <2>1, <2>7
    <3>2. s[j] = n[(i + 1) + j - 1] /\ t[j] = p[i + j - 1]
      BY <2>4, <2>6, <3>1
    <3>3. i + j - 1 \in 1 .. Len(p) /\ (i + j - 1) + 1 = (i + 1) + j - 1
      BY <2>1, <3>1
    <3>4. p[i + j - 1] = n[(i + j - 1) + 1]
      BY <2>2, <3>3
    <3> QED BY <3>2, <3>3, <3>4
  <2>9. s = t
    <3> HIDE DEF s, t
    <3>1. s \in Seq(STRING) /\ t \in Seq(STRING)
      BY <2>4, <2>6 DEF s, t
    <3> QED BY <2>7, <2>8, <3>1, SeqEqual
  <2> QED BY <2>9 DEF Up
<1>4. \A i \in 1 .. Len(n) - 1 : i = 1 \/ (i - 1 \in 1 .. Len(p) - 1 /\ (i - 1) + 1 = i)
  BY <1>1
<1>5. \A i \in 1 .. Len(p) - 1 : i + 1 \in 1 .. Len(n) - 1 /\ i \in 1 .. Len(p)
  BY <1>1
<1>6. 1 \in 1 .. Len(n) - 1
  BY <1>1
<1> HIDE DEF p
<1>7. ASSUME ParentChainValid(n) PROVE UnderParent(n) /\ ParentChainValid(p)
  <2>1. UnderParent(n)
    BY <1>2, <1>6, <1>7 DEF ParentChainValid
  <2>2. ASSUME NEW i \in 1 .. Len(p) - 1 PROVE UnderParent(Up(p, i))
    <3>1. UnderParent(Up(n, i + 1))
      BY <1>5, <1>7 DEF ParentChainValid
    <3> QED BY <1>3, <1>5, <3>1
  <2> QED BY <2>1, <2>2 DEF ParentChainValid
<1>8. ASSUME UnderParent(n), ParentChainValid(p) PROVE ParentChainValid(n)
  <2> SUFFICES ASSUME NEW i \in 1 .. Len(n) - 1 PROVE UnderParent(Up(n, i))
    BY DEF ParentChainValid
  <2>1. CASE i = 1
    BY <1>2, <1>8, <2>1
  <2>2. CASE i - 1 \in 1 .. Len(p) - 1
    <3>1. UnderParent(Up(p, i - 1)) /\ i - 1 \in 1 .. Len(p)
      BY <1>5, <1>8, <2>2 DEF ParentChainValid
    <3>2. Up(n, (i - 1) + 1) = Up(p, i - 1) /\ (i - 1) + 1 = i
      BY <1>3, <3>1
    <3> QED BY <3>1, <3>2
  <2> QED BY <1>4, <2>1, <2>2
<1> QED BY <1>7, <1>8 DEF p

\* A top name has no chain above it.
LEMMA TopChain ==
    ASSUME NEW n, Len(n) = 1 PROVE ParentChainValid(n)
BY DEF ParentChainValid

-----------------------------------------------------------------------------
(* Authority. *)

LEMMA RecordOf ==
    ASSUME GnsTypeOK, NEW n \in Names, Exists(n)
    PROVE  /\ names[n] \in Name
           /\ Owned(n) => names[n].owner \in Address
BY DEF GnsTypeOK, Exists, Owned, Name

LEMMA PlaceholderFacts ==
    /\ Placeholder.owner = NoAddress /\ Placeholder.reserved = TRUE
    /\ Placeholder.control.flags = {} /\ Placeholder.control.permanent = FALSE
    /\ Placeholder.id = 0 /\ Placeholder.gen = 0 /\ Placeholder.pgen = 0 /\ Placeholder.pid = 0
    /\ Placeholder \in Name
<1>1. NoControl \in Control /\ Closed \in Policy /\ NoOne \in [Address -> Grant \cup {NoGrant}]
  BY DEF NoControl, Control, Closed, Policy, Modes, NoOne
<1> QED BY <1>1 DEF Placeholder, Name, NoControl

\* What is in force or in grace is somebody's.
LEMMA InForceIsOwned ==
    ASSUME GnsInv, NEW n \in Names, Status(n) \in {"active", "grace"}
    PROVE  /\ Exists(n) /\ Owned(n)
           /\ names[n].expires = 0 \/ now < names[n].expires \/ now < names[n].grace
           /\ Active(n) => names[n].expires = 0 \/ now < names[n].expires
           /\ ParentChainValid(n)
<1>1. Exists(n)
  BY DEF Status
<1>2. names[n].owner = NoAddress => names[n].reserved
  BY <1>1, PlaceholderFacts DEF GnsInv
<1>3. Owned(n)
  BY <1>1, <1>2 DEF Status, Owned
<1> QED BY <1>1, <1>3 DEF Status, Active

LEMMA ActiveIsOwned ==
    ASSUME GnsInv, NEW n \in Names, Active(n)
    PROVE  Exists(n) /\ Owned(n)
BY InForceIsOwned DEF Active

\* Nobody has any say over a name nobody holds.
LEMMA OwnerMeansOwned ==
    ASSUME GnsInv, NEW n \in Names, NEW a, NEW perm,
           OwnerIsActive(a, n) \/ OwnerOrOperator(a, n, perm)
    PROVE  Active(n) /\ Exists(n) /\ Owned(n)
<1>1. Active(n)
  BY DEF OwnerIsActive, OwnerOrOperator
<1> QED BY <1>1, ActiveIsOwned

LEMMA ParentMeansOwned ==
    ASSUME GnsInv, NEW n \in Names, NEW a, NEW flags, Exists(n), ParentAllows(a, n, flags)
    PROVE  Owned(n) /\ Len(n) > 1 /\ names[n].control.flags \cap flags # {}
<1>1. Len(n) > 1 /\ names[n].control.flags \cap flags # {}
  BY DEF ParentAllows
<1>2. names[n].owner = NoAddress => names[n].control.flags = {}
  BY PlaceholderFacts DEF GnsInv
<1> QED BY <1>1, <1>2 DEF Owned

LEMMA AuthorizedMeansOwned ==
    ASSUME GnsInv, NEW n \in Names, NEW a, NEW perm, Exists(n), Authorized(a, n, perm)
    PROVE  Owned(n)
BY OwnerMeansOwned, ParentMeansOwned DEF Authorized

-----------------------------------------------------------------------------
(* What a step does to the names: it edits the record of one, creates one,  *)
(* deletes a subname, reserves or frees a name, or leaves them all alone.   *)

Edits(n, e) ==
    /\ ~ paused
    /\ Owned(n)
    /\ e \in Name /\ e.owner \in Address
    /\ e.gen = names[n].gen /\ e.pgen = names[n].pgen
    /\ e.id = names[n].id /\ e.pid = names[n].pid
    /\ e.control.flags \subseteq names[n].control.flags
    /\ names[n].control.permanent => e.control.permanent
    /\ e.owner # names[n].owner /\ ~ Active(n) =>
          {"parentTransfer", "parentReclaim"} \cap names[n].control.flags # {}
    /\ Put(n, e)
    /\ created' = created

\* Its lease is over with its grace, or its parent was registered anew.
LeaseIsOver(n) ==
    \/ names[n].expires # 0 /\ now >= names[n].grace
    \/ Len(n) > 1 /\ Exists(Parent(n)) /\ names[n].pgen # names[Parent(n)].gen

Creates(n, e) ==
    /\ ~ paused
    /\ Exists(n) => Owned(n) /\ ~ Active(n) /\ LeaseIsOver(n)
    /\ Len(n) > 1 => /\ Owned(Parent(n))
                     /\ e.pgen = names[Parent(n)].gen /\ e.pid = names[Parent(n)].id
    /\ e \in Name /\ e.owner \in Address
    /\ e.gen = IF Exists(n) THEN names[n].gen + 1 ELSE 1
    /\ e.id = created + 1
    /\ Put(n, e)
    /\ created' = created + 1

Deletes(n) ==
    /\ ~ paused
    /\ Owned(n) /\ Len(n) > 1
    /\ names' = [names EXCEPT ![n] = NoName]
    /\ byOwner' = byOwner \ {<<names[n].owner, n>>}
    /\ byParent' = byParent \ {n}
    /\ created' = created

TreeStep ==
    \/ \E n \in Names, e \in Name : Edits(n, e) \/ Creates(n, e)
    \/ \E n \in Names : Deletes(n)
    \/ \E n \in Names, flag \in BOOLEAN : ReserveName(n, flag)
    \/ UNCHANGED trees

\* A record of which other fields than these change is the same lease.
LEMMA EditKeeps ==
    ASSUME GnsInv, ~ paused, NEW n \in Names, Owned(n), NEW e \in Name,
           e.owner = names[n].owner, e.control = names[n].control,
           e.gen = names[n].gen, e.pgen = names[n].pgen,
           e.id = names[n].id, e.pid = names[n].pid,
           Put(n, e), created' = created
    PROVE  TreeStep
<1>1. e.owner \in Address
  BY RecordOf DEF GnsInv, Owned
<1>2. Edits(n, e)
  BY <1>1 DEF Edits
<1> QED BY <1>2 DEF TreeStep

LEMMA RenewStep ==
    ASSUME GnsInv, NEW n \in Names, NEW d \in Nat, Renew(n, d)
    PROVE  TreeStep
<1> DEFINE e == [names[n] EXCEPT !.expires = @ + d,
                                 !.grace = names[n].expires + d + GracePeriod]
<1>1. Exists(n) /\ Owned(n) /\ names[n] \in Name
  <2>1. Status(n) \in {"active", "grace"}
    BY DEF Renew
  <2>2. Exists(n) /\ Owned(n)
    BY <2>1, InForceIsOwned
  <2> QED BY <2>2, RecordOf DEF GnsInv
<1>2. e \in Name
  <2>1. names[n].expires \in Nat /\ GracePeriod \in Nat
    BY <1>1, GnsAmountAssumption DEF Name
  <2>2. names[n].expires + d \in Nat /\ names[n].expires + d + GracePeriod \in Nat
    BY <2>1
  <2> QED BY <1>1, <2>2 DEF Name
<1>3. /\ e.owner = names[n].owner /\ e.control = names[n].control
      /\ e.gen = names[n].gen /\ e.pgen = names[n].pgen
      /\ e.id = names[n].id /\ e.pid = names[n].pid
  BY <1>1 DEF Name
<1>4. ~ paused /\ Put(n, e) /\ created' = created
  BY DEF Renew
<1> HIDE DEF e
<1> QED BY <1>1, <1>2, <1>3, <1>4, EditKeeps

LEMMA TransferStep ==
    ASSUME GnsInv, NEW a \in Address, NEW n \in Names, NEW b \in Address,
           NEW ops \in BOOLEAN, NEW recs \in BOOLEAN, Transfer(a, n, b, ops, recs)
    PROVE  TreeStep
<1> DEFINE e == [names[n] EXCEPT !.owner = b,
                                 !.operators = IF ops THEN NoOne ELSE @,
                                 !.native = IF recs THEN NoAddress ELSE @]
<1>1. /\ ~ paused /\ Exists(n) /\ Put(n, e) /\ created' = created
      /\ IF OwnerIsActive(a, n) THEN "ownerTransfer" \in names[n].control.flags
                                ELSE Authorized(a, n, "transfer")
  BY DEF Transfer
<1>2. Owned(n) /\ names[n] \in Name
  BY <1>1, OwnerMeansOwned, AuthorizedMeansOwned, RecordOf DEF GnsInv
<1>3. ~ Active(n) => {"parentTransfer", "parentReclaim"} \cap names[n].control.flags # {}
  <2>1. ~ Active(n) => ParentAllows(a, n, {"parentTransfer", "parentReclaim"})
    BY <1>1 DEF OwnerIsActive, OwnerOrOperator, Authorized
  <2> QED BY <1>1, <2>1, ParentMeansOwned
<1>4. NoOne \in [Address -> Grant \cup {NoGrant}]
  BY DEF NoOne
<1>5. e \in Name
  BY <1>2, <1>4 DEF Name
<1>6. /\ e.owner = b /\ e.control = names[n].control
      /\ e.gen = names[n].gen /\ e.pgen = names[n].pgen
      /\ e.id = names[n].id /\ e.pid = names[n].pid
  BY <1>2 DEF Name
<1> HIDE DEF e
<1>7. Edits(n, e)
  BY <1>1, <1>2, <1>3, <1>5, <1>6 DEF Edits
<1> QED BY <1>5, <1>7 DEF TreeStep

LEMMA PolicyStep ==
    ASSUME GnsInv, NEW a \in Address, NEW n \in Names, NEW policy \in Policy,
           SetRegistrationPolicy(a, n, policy)
    PROVE  TreeStep
<1> DEFINE e == [names[n] EXCEPT !.policy = policy]
<1>1. /\ ~ paused /\ Exists(n) /\ Put(n, e) /\ created' = created
      /\ OwnerIsActive(a, n) \/ Authorized(a, n, "policy")
  BY DEF SetRegistrationPolicy
<1>2. Owned(n) /\ names[n] \in Name
  BY <1>1, OwnerMeansOwned, AuthorizedMeansOwned, RecordOf DEF GnsInv
<1>3. e \in Name
  BY <1>2 DEF Name
<1>4. /\ e.owner = names[n].owner /\ e.control = names[n].control
      /\ e.gen = names[n].gen /\ e.pgen = names[n].pgen
      /\ e.id = names[n].id /\ e.pid = names[n].pid
  BY <1>2 DEF Name
<1> HIDE DEF e
<1> QED BY <1>1, <1>2, <1>3, <1>4, EditKeeps

LEMMA LockStep ==
    ASSUME GnsInv, NEW a \in Address, NEW n \in Names, NEW c \in Control, LockPolicy(a, n, c)
    PROVE  TreeStep
<1> DEFINE d == MergeRestrictive(names[n].control, c)
           e == [names[n] EXCEPT !.control = d]
<1>1. ~ paused /\ Exists(n) /\ Put(n, e) /\ created' = created /\ OwnerIsActive(a, n)
  BY DEF LockPolicy
<1>2. Owned(n) /\ names[n] \in Name /\ names[n].owner \in Address
  BY <1>1, OwnerMeansOwned, RecordOf DEF GnsInv
<1>3. names[n].control \in Control
  BY <1>2 DEF Name
<1>4. /\ d \in Control /\ d.flags \subseteq names[n].control.flags
      /\ names[n].control.permanent => d.permanent
  BY <1>3 DEF MergeRestrictive, Control
<1> HIDE DEF d
<1>5. e \in Name
  BY <1>2, <1>4 DEF Name
<1>6. /\ e.owner = names[n].owner /\ e.control = d
      /\ e.gen = names[n].gen /\ e.pgen = names[n].pgen
      /\ e.id = names[n].id /\ e.pid = names[n].pid
  BY <1>2 DEF Name
<1> HIDE DEF e
<1>7. Edits(n, e)
  BY <1>1, <1>2, <1>4, <1>5, <1>6 DEF Edits
<1> QED BY <1>5, <1>7 DEF TreeStep

LEMMA OperatorStep ==
    ASSUME GnsInv, NEW a \in Address, NEW n \in Names, NEW b \in Address,
           NEW g \in Grant \cup {NoGrant},
           ~ paused, Exists(n), OwnerOrOperator(a, n, "operators"),
           Put(n, [names[n] EXCEPT !.operators = [@ EXCEPT ![b] = g]]), created' = created
    PROVE  TreeStep
<1> DEFINE e == [names[n] EXCEPT !.operators = [@ EXCEPT ![b] = g]]
<1>1. Put(n, e)
  OBVIOUS
<1>2. Owned(n) /\ names[n] \in Name
  BY OwnerMeansOwned, RecordOf DEF GnsInv
<1>3. names[n].operators \in [Address -> Grant \cup {NoGrant}]
  BY <1>2 DEF Name
<1>4. [names[n].operators EXCEPT ![b] = g] \in [Address -> Grant \cup {NoGrant}]
  BY <1>3
<1>5. e \in Name
  BY <1>2, <1>4 DEF Name
<1>6. /\ e.owner = names[n].owner /\ e.control = names[n].control
      /\ e.gen = names[n].gen /\ e.pgen = names[n].pgen
      /\ e.id = names[n].id /\ e.pid = names[n].pid
  BY <1>2 DEF Name
<1> HIDE DEF e
<1> QED BY <1>1, <1>2, <1>5, <1>6, EditKeeps

LEMMA AddressStep ==
    ASSUME GnsInv, NEW a \in Address, NEW n \in Names, NEW b \in Address \cup {NoAddress},
           SetAddress(a, n, b)
    PROVE  TreeStep
<1> DEFINE e == [names[n] EXCEPT !.native = b]
<1>1. ~ paused /\ Exists(n) /\ Put(n, e) /\ created' = created
      /\ OwnerOrOperator(a, n, "records")
  BY DEF SetAddress
<1>2. Owned(n) /\ names[n] \in Name
  BY <1>1, OwnerMeansOwned, RecordOf DEF GnsInv
<1>3. e \in Name
  BY <1>2 DEF Name
<1>4. /\ e.owner = names[n].owner /\ e.control = names[n].control
      /\ e.gen = names[n].gen /\ e.pgen = names[n].pgen
      /\ e.id = names[n].id /\ e.pid = names[n].pid
  BY <1>2 DEF Name
<1> HIDE DEF e
<1> QED BY <1>1, <1>2, <1>3, <1>4, EditKeeps

\* What is free to take is nobody's, or its lease or its parent's is over.
LEMMA FreeIsOver ==
    ASSUME GnsInv, NEW n \in Names, Available(n), Exists(n),
           Len(n) > 1 => Active(Parent(n))
    PROVE  Owned(n) /\ ~ Active(n) /\ LeaseIsOver(n)
<1>1. ~ names[n].reserved /\ Status(n) = "expired"
  BY DEF Available
<1>2. Owned(n)
  BY <1>1, PlaceholderFacts DEF GnsInv, Owned
<1>3. ~ Active(n)
  BY <1>1 DEF Active
<1>4. \/ ~ ParentChainValid(n)
      \/ /\ ~ (names[n].expires = 0 \/ now < names[n].expires)
         /\ ~ (now < names[n].grace)
  BY <1>1 DEF Status
<1>5. names[n] \in Name /\ now \in Nat
  BY RecordOf DEF GnsInv, GnsTypeOK
<1>6. LeaseIsOver(n)
  <2>1. CASE ParentChainValid(n)
    <3>1. names[n].grace \in Nat
      BY <1>5 DEF Name
    <3> QED BY <1>4, <1>5, <2>1, <3>1 DEF LeaseIsOver
  <2>2. CASE ~ ParentChainValid(n)
    <3>1. Len(n) > 1 /\ Parent(n) \in Names
      <4>1. Len(n) # 1
        BY <2>2, TopChain
      <4>2. Len(n) \in Nat \ {0}
        BY NameFacts
      <4>3. Len(n) > 1
        BY <4>1, <4>2
      <4> QED BY <4>3, NameFacts
    <3>2. Active(Parent(n))
      BY <3>1
    <3>3. /\ Exists(Parent(n)) /\ ParentChainValid(Parent(n))
          /\ names[Parent(n)].expires = 0 \/ now < names[Parent(n)].expires
      BY <3>1, <3>2, InForceIsOwned DEF Active
    <3>4. ~ UnderParent(n)
      BY <2>2, <3>1, <3>3, ChainOfParent
    <3> QED BY <3>1, <3>3, <3>4 DEF UnderParent, LeaseIsOver
  <2> QED BY <2>1, <2>2
<1> QED BY <1>2, <1>3, <1>6

LEMMA CreateStep ==
    ASSUME GnsInv, ~ paused, NEW n \in Names, Available(n),
           Len(n) > 1 => Active(Parent(n)),
           NEW a \in Address, NEW expires \in Nat, NEW control \in Control,
           NEW native \in Address \cup {NoAddress},
           Create(n, a, expires, control, native)
    PROVE  TreeStep
<1> DEFINE gen  == IF Exists(n) THEN names[n].gen + 1 ELSE 1
           pgen == IF Len(n) > 1 THEN names[Parent(n)].gen ELSE 0
           pid  == IF Len(n) > 1 THEN names[Parent(n)].id ELSE 0
           grace == IF expires = 0 THEN 0 ELSE expires + GracePeriod
           e == [owner |-> a, expires |-> expires, grace |-> grace, gen |-> gen,
                 pgen |-> pgen, control |-> control, policy |-> Closed, native |-> native,
                 reserved |-> FALSE, operators |-> NoOne, id |-> created', pid |-> pid]
<1>1. created' = created + 1 /\ Put(n, e)
  BY DEF Create
<1>2. Exists(n) => names[n] \in Name
  BY RecordOf DEF GnsInv
<1>3. Len(n) > 1 => Parent(n) \in Names /\ Owned(Parent(n)) /\ names[Parent(n)] \in Name
  <2> SUFFICES ASSUME Len(n) > 1
               PROVE  Parent(n) \in Names /\ Owned(Parent(n)) /\ names[Parent(n)] \in Name
    OBVIOUS
  <2>1. Parent(n) \in Names
    BY NameFacts
  <2>2. Exists(Parent(n)) /\ Owned(Parent(n))
    BY <2>1, ActiveIsOwned
  <2> QED BY <2>1, <2>2, RecordOf DEF GnsInv
<1>4. gen \in Nat
  BY <1>2 DEF Name
<1>5. pgen \in Nat /\ pid \in Nat
  BY <1>3 DEF Name
<1>6. grace \in Nat
  BY GnsAmountAssumption
<1>7. created \in Nat /\ created' \in Nat
  BY <1>1 DEF GnsInv, GnsTypeOK
<1>8. Closed \in Policy /\ NoOne \in [Address -> Grant \cup {NoGrant}]
  BY DEF Closed, NoControl, Control, Policy, Modes, NoOne
<1> HIDE DEF gen, pgen, pid, grace
<1>9. e \in Name
  BY <1>4, <1>5, <1>6, <1>7, <1>8 DEF Name
<1>10. /\ e.owner = a /\ e.gen = gen /\ e.pgen = pgen /\ e.pid = pid
       /\ e.id = created + 1
  BY <1>1
<1> HIDE DEF e
<1>11. Creates(n, e)
  <2>1. Exists(n) => Owned(n) /\ ~ Active(n) /\ LeaseIsOver(n)
    BY FreeIsOver
  <2>2. Len(n) > 1 => /\ Owned(Parent(n))
                      /\ e.pgen = names[Parent(n)].gen /\ e.pid = names[Parent(n)].id
    BY <1>3, <1>10 DEF pgen, pid
  <2>3. e.gen = IF Exists(n) THEN names[n].gen + 1 ELSE 1
    BY <1>10 DEF gen
  <2> QED BY <1>1, <1>9, <1>10, <2>1, <2>2, <2>3 DEF Creates
<1> QED BY <1>9, <1>11 DEF TreeStep

LEMMA RegisterStep ==
    ASSUME GnsInv, NEW a \in Address, NEW q \in Requests, NEW b \in Natives,
           NEW primary \in BOOLEAN, Register(a, q, b, primary)
    PROVE  TreeStep
<1> DEFINE n == q.name
           expires == now + q.duration
<1>1. /\ n \in Names /\ Len(n) = 1 /\ q.owner \in Address /\ q.duration \in Nat
      /\ b \in Address \cup {NoAddress}
  BY GnsInputAssumption DEF Request, TopNames
<1>2. ~ paused /\ Available(n) /\ Create(n, q.owner, expires, TopControl, b)
  BY DEF Register
<1>3. expires \in Nat
  BY <1>1 DEF GnsInv, GnsTypeOK
<1>4. TopControl \in Control
  BY DEF TopControl, Control, Flags
<1>5. ~ (Len(n) > 1)
  BY <1>1
<1> HIDE DEF n, expires
<1> QED BY <1>1, <1>2, <1>3, <1>4, <1>5, CreateStep

LEMMA SubnameStep ==
    ASSUME GnsInv, NEW a \in Address, NEW n \in Names, NEW b \in Address, NEW d \in Durations,
           NEW c \in Controls \cup {NoControl}, NEW x \in Natives,
           CreateSubname(a, n, b, d, c, x)
    PROVE  TreeStep
<1> DEFINE expires == IF d > 0 THEN now + d ELSE 0
           control == IF c = NoControl THEN names[Parent(n)].policy.default ELSE c
<1>1. /\ ~ paused /\ Len(n) > 1 /\ Active(Parent(n)) /\ Available(n)
      /\ Create(n, b, expires, control, x)
  BY DEF CreateSubname
<1>2. d \in Nat /\ now \in Nat /\ x \in Address \cup {NoAddress} /\ Controls \subseteq Control
  BY GnsInputAssumption DEF GnsInv, GnsTypeOK
<1>3. expires \in Nat
  BY <1>2
<1>4. names[Parent(n)] \in Name
  BY <1>1, NameFacts, ActiveIsOwned, RecordOf DEF GnsInv
<1>5. control \in Control
  BY <1>2, <1>4 DEF Name, Policy
<1> HIDE DEF expires, control
<1> QED BY <1>1, <1>2, <1>3, <1>5, CreateStep

LEMMA DeleteStep ==
    ASSUME GnsInv, NEW a \in Address, NEW n \in Names, DeleteSubname(a, n)
    PROVE  TreeStep
<1>1. /\ ~ paused /\ Exists(n) /\ Len(n) > 1
      /\ OwnerIsActive(a, n) \/ ParentAllows(a, n, {"parentDelete"})
  BY DEF DeleteSubname
<1>2. Owned(n)
  BY <1>1, OwnerMeansOwned, ParentMeansOwned
<1>3. Deletes(n)
  BY <1>1, <1>2 DEF DeleteSubname, Deletes
<1> QED BY <1>3 DEF TreeStep

\* Every step of the service is one of these.
LEMMA StepOfTrees ==
    ASSUME GnsInv, [Next]_vars
    PROVE  TreeStep
<1>1. CASE UNCHANGED vars
  BY <1>1 DEF vars, TreeStep
<1>2. CASE Tick
  BY <1>2 DEF Tick, TreeStep
<1>3. ASSUME NEW a \in Address, Registers(a) PROVE TreeStep
  <2>1. CASE \E q \in Requests : Commit(a, q)
    BY <2>1 DEF Commit, TreeStep
  <2>2. CASE \E q \in Requests, b \in Natives, primary \in BOOLEAN : Register(a, q, b, primary)
    BY <2>2, RegisterStep
  <2>3. CASE \E n \in Names, d \in Durations : Renew(n, d)
    BY <2>3, RenewStep, GnsInputAssumption
  <2> QED BY <1>3, <2>1, <2>2, <2>3 DEF Registers
<1>4. ASSUME NEW a \in Address, Manages(a) PROVE TreeStep
  <2>1. CASE \E n \in Names, b \in Address, ops \in BOOLEAN, recs \in BOOLEAN :
                Transfer(a, n, b, ops, recs)
    BY <2>1, TransferStep
  <2>2. CASE \E n \in Names, b \in Address, d \in Durations, c \in Controls \cup {NoControl},
                x \in Natives : CreateSubname(a, n, b, d, c, x)
    BY <2>2, SubnameStep
  <2>3. CASE \E n \in Names : DeleteSubname(a, n)
    BY <2>3, DeleteStep
  <2>4. CASE \E n \in Names, policy \in Policies : SetRegistrationPolicy(a, n, policy)
    BY <2>4, PolicyStep, GnsInputAssumption
  <2>5. CASE \E n \in Names, c \in Controls : LockPolicy(a, n, c)
    BY <2>5, LockStep, GnsInputAssumption
  <2>6. CASE \E n \in Names, b \in Address, g \in Grants : SetOperator(a, n, b, g)
    <3>1. PICK n \in Names, b \in Address, g \in Grants : SetOperator(a, n, b, g)
      BY <2>6
    <3>2. g \in Grant \cup {NoGrant}
      BY GnsInputAssumption
    <3> QED BY <3>1, <3>2, OperatorStep DEF SetOperator
  <2>7. CASE \E n \in Names, b \in Address : RemoveOperator(a, n, b)
    <3>1. PICK n \in Names, b \in Address : RemoveOperator(a, n, b)
      BY <2>7
    <3> QED BY <3>1, OperatorStep DEF RemoveOperator
  <2>8. CASE \E n \in Names, b \in Natives : SetAddress(a, n, b)
    BY <2>8, AddressStep, GnsInputAssumption
  <2>9. CASE \E n \in Names : SetPrimaryName(a, n)
    BY <2>9 DEF SetPrimaryName, TreeStep
  <2>10. CASE ClearPrimaryName(a)
    BY <2>10 DEF ClearPrimaryName, TreeStep
  <2> QED BY <1>4, <2>1, <2>2, <2>3, <2>4, <2>5, <2>6, <2>7, <2>8, <2>9, <2>10 DEF Manages
<1>5. ASSUME NEW a \in Address, Administer(a) PROVE TreeStep
  <2>1. CASE \E n \in Names, flag \in BOOLEAN : ReserveName(n, flag)
    BY <2>1 DEF TreeStep
  <2>2. CASE UNCHANGED trees
    BY <2>2 DEF TreeStep
  <2> QED BY <1>5, <2>1, <2>2
          DEF Administer, SetPaused, SetRegistrationOpen, SetPricing, TransferAdmin
<1>6. ASSUME NEW a \in Address, AcceptAdmin(a) PROVE TreeStep
  BY <1>6 DEF AcceptAdmin, TreeStep
<1> QED BY <1>1, <1>2, <1>3, <1>4, <1>5, <1>6 DEF Next

-----------------------------------------------------------------------------
(* The invariant is kept. *)

Listed(n) == <<names[n].owner, n>>

LEMMA IndexFacts ==
    IndexesAgree <=> /\ byOwner = {Listed(n) : n \in {m \in Names : Owned(m)}}
                     /\ byParent = {n \in Names : Owned(n) /\ Len(n) > 1}
BY DEF IndexesAgree, Owned, Listed

\* The record put is in the tree, and the two indexes say so.
PutIsListed(n, e) ==
    /\ names' = [m \in Names |-> IF m = n THEN e ELSE names[m]]
    /\ names' \in [Names -> Name \cup {NoName}]
    /\ IndexesAgree'

LEMMA PutKeepsIndexes ==
    ASSUME GnsTypeOK, IndexesAgree, NEW n \in Names, Exists(n) => Owned(n),
           NEW e \in Name, e.owner \in Address, Put(n, e)
    PROVE  PutIsListed(n, e)
<1>1. names' = [m \in Names |-> IF m = n THEN e ELSE names[m]]
  BY DEF Put, GnsTypeOK
<1>2. names' \in [Names -> Name \cup {NoName}]
  BY <1>1 DEF GnsTypeOK
<1>3. e # NoName /\ e.owner # NoAddress
  BY GnsNothingAssumption
<1>4. \A m \in Names : Owned(m)' <=> m = n \/ Owned(m)
  BY <1>1, <1>3 DEF Owned, Exists
<1>5. \A m \in Names : m # n => Listed(m)' = Listed(m)
  BY <1>1 DEF Listed
<1>6. Listed(n)' = <<e.owner, n>>
  BY <1>1 DEF Listed
<1>7. byOwner' = {Listed(m)' : m \in {k \in Names : Owned(k)'}}
  <2>1. byOwner = {Listed(m) : m \in {k \in Names : Owned(k)}}
    BY IndexFacts
  <2>2. byOwner' = (byOwner \ (IF Owned(n) THEN {Listed(n)} ELSE {})) \cup {Listed(n)'}
    BY <1>6 DEF Put, Owned, Listed
  <2>3. \A m \in Names : Listed(m) = Listed(n) => m = n
    BY DEF Listed
  <2> HIDE DEF Listed
  <2>4. ASSUME NEW x \in byOwner' PROVE x \in {Listed(m)' : m \in {k \in Names : Owned(k)'}}
    <3>1. CASE x = Listed(n)'
      BY <1>4, <3>1
    <3>2. CASE x # Listed(n)'
      <4>1. PICK m \in Names : Owned(m) /\ x = Listed(m)
        BY <2>1, <2>2, <2>4, <3>2
      <4>2. m # n
        BY <2>2, <2>4, <3>2, <4>1
      <4> QED BY <1>4, <1>5, <4>1, <4>2
    <3> QED BY <3>1, <3>2
  <2>5. ASSUME NEW m \in Names, Owned(m)' PROVE Listed(m)' \in byOwner'
    <3>1. CASE m = n
      BY <2>2, <3>1
    <3>2. CASE m # n
      <4>1. Listed(m) \in byOwner /\ Listed(m) # Listed(n)
        BY <1>4, <2>1, <2>3, <2>5, <3>2
      <4> QED BY <1>5, <2>2, <3>2, <4>1
    <3> QED BY <3>1, <3>2
  <2> QED BY <2>4, <2>5
<1>8. byParent' = {m \in Names : Owned(m)' /\ Len(m) > 1}
  BY <1>4, IndexFacts DEF Put
<1>9. IndexesAgree'
  BY <1>7, <1>8 DEF IndexesAgree, Owned, Exists, Listed
<1> QED BY <1>1, <1>2, <1>9 DEF PutIsListed

LEMMA DeleteKeepsIndexes ==
    ASSUME GnsTypeOK, IndexesAgree, NEW n \in Names, Deletes(n)
    PROVE  /\ names' = [m \in Names |-> IF m = n THEN NoName ELSE names[m]]
           /\ names' \in [Names -> Name \cup {NoName}]
           /\ IndexesAgree'
<1>1. names' = [m \in Names |-> IF m = n THEN NoName ELSE names[m]]
  BY DEF Deletes, GnsTypeOK
<1>2. names' \in [Names -> Name \cup {NoName}]
  BY <1>1 DEF GnsTypeOK
<1>3. \A m \in Names : Owned(m)' <=> m # n /\ Owned(m)
  BY <1>1 DEF Owned, Exists
<1>4. \A m \in Names : m # n => Listed(m)' = Listed(m)
  BY <1>1 DEF Listed
<1>5. \A m \in Names : Listed(m) = Listed(n) => m = n
  BY DEF Listed
<1>6. byOwner' = byOwner \ {Listed(n)} /\ byParent' = byParent \ {n}
  BY DEF Deletes, Listed
<1>7. byOwner' = {Listed(m)' : m \in {k \in Names : Owned(k)'}}
  <2>1. byOwner = {Listed(m) : m \in {k \in Names : Owned(k)}}
    BY IndexFacts
  <2> HIDE DEF Listed
  <2>2. ASSUME NEW x \in byOwner' PROVE x \in {Listed(m)' : m \in {k \in Names : Owned(k)'}}
    <3>1. PICK m \in Names : Owned(m) /\ x = Listed(m)
      BY <1>6, <2>1, <2>2
    <3>2. m # n
      BY <1>6, <2>2, <3>1
    <3> QED BY <1>3, <1>4, <3>1, <3>2
  <2>3. ASSUME NEW m \in Names, Owned(m)' PROVE Listed(m)' \in byOwner'
    BY <1>3, <1>4, <1>5, <1>6, <2>1, <2>3
  <2> QED BY <2>2, <2>3
<1>8. byParent' = {m \in Names : Owned(m)' /\ Len(m) > 1}
  BY <1>3, <1>6, IndexFacts
<1>9. IndexesAgree'
  BY <1>7, <1>8 DEF IndexesAgree, Owned, Exists, Listed
<1> QED BY <1>1, <1>2, <1>9

\* A name reserved or freed keeps the record it has, but for the flag; a name nobody
\* holds gets the placeholder or loses it.
LEMMA ReserveFacts ==
    ASSUME GnsInv, NEW n \in Names, NEW flag \in BOOLEAN, ReserveName(n, flag)
    PROVE  /\ ~ Active(n)
           /\ created' = created
           /\ \A m \in Names : m # n => names'[m] = names[m]
           /\ names' \in [Names -> Name \cup {NoName}]
           /\ Owned(n) => names'[n] = [names[n] EXCEPT !.reserved = flag] /\ names'[n] \in Name
           /\ ~ Owned(n) => names'[n] \in {Placeholder, NoName}
           /\ IndexesAgree'
<1> DEFINE e == IF Owned(n) THEN [names[n] EXCEPT !.reserved = flag]
                ELSE IF flag THEN Placeholder ELSE NoName
<1>1. ~ Active(n)
  BY ActiveIsOwned DEF ReserveName, Owned
<1>2. names' = [names EXCEPT ![n] = e] /\ UNCHANGED <<byOwner, byParent, created>>
  BY DEF ReserveName, Owned
<1>3. Owned(n) => e \in Name /\ e.owner = names[n].owner
  BY RecordOf DEF GnsInv, Owned, Name
<1>4. ~ Owned(n) => e \in {Placeholder, NoName}
  OBVIOUS
<1>5. e \in Name \cup {NoName}
  BY <1>3, <1>4, PlaceholderFacts
<1>6. Owned(n) => e = [names[n] EXCEPT !.reserved = flag]
  OBVIOUS
<1> HIDE DEF e
<1>7. names' = [m \in Names |-> IF m = n THEN e ELSE names[m]]
  BY <1>2 DEF GnsInv, GnsTypeOK
<1>8. names' \in [Names -> Name \cup {NoName}]
  BY <1>5, <1>7 DEF GnsInv, GnsTypeOK
<1>9. \A m \in Names : Owned(m)' <=> Owned(m)
  <2>1. \A m \in Names \ {n} : Owned(m)' <=> Owned(m)
    BY <1>7 DEF Owned, Exists
  <2>2. Owned(n) => Owned(n)'
    BY <1>3, <1>7, GnsNothingAssumption DEF Owned, Exists
  <2>3. ~ Owned(n) => ~ Owned(n)'
    BY <1>4, <1>7, PlaceholderFacts DEF Owned, Exists
  <2> QED BY <2>1, <2>2, <2>3
<1>10. \A m \in Names : Owned(m) => Listed(m)' = Listed(m)
  BY <1>3, <1>7 DEF Listed
<1>11. byOwner' = {Listed(m)' : m \in {k \in Names : Owned(k)'}}
  <2>1. byOwner = {Listed(m) : m \in {k \in Names : Owned(k)}}
    BY IndexFacts DEF GnsInv
  <2> QED BY <1>2, <1>9, <1>10, <2>1
<1>12. byParent' = {m \in Names : Owned(m)' /\ Len(m) > 1}
  BY <1>2, <1>9, IndexFacts DEF GnsInv
<1>13. IndexesAgree'
  BY <1>11, <1>12 DEF IndexesAgree, Owned, Exists, Listed
<1> QED BY <1>1, <1>2, <1>3, <1>4, <1>6, <1>7, <1>8, <1>13

\* The part of the invariant about the names, and the part about everything else.
NamesInv ==
    /\ created \in Nat
    /\ names \in [Names -> Name \cup {NoName}]
    /\ \A n \in Names : Exists(n) =>
          (names[n].owner = NoAddress <=> names[n].gen = 0)
    /\ IndexesAgree
    /\ \A n \in Names : Exists(n) =>
          /\ names[n].id <= created
          /\ names[n].owner = NoAddress => names[n] = Placeholder
    /\ \A n \in Names : Len(n) = 2 /\ Owned(n) => UnderItsParent(n)

RestInv ==
    /\ now \in Nat /\ revision \in Nat
    /\ commitments \in [Requests -> Commitment \cup {NoCommit}]
    /\ reverse \in [Address -> Names \cup {NoName}]
    /\ admin \in Address /\ pendingAdmin \in Address \cup {NoAddress}
    /\ paused \in BOOLEAN /\ open \in BOOLEAN

LEMMA InvParts ==
    GnsInv <=> NamesInv /\ RestInv
BY DEF GnsInv, GnsTypeOK, NamesInv, RestInv

LEMMA ParentOfTwo ==
    ASSUME NEW n \in Names, Len(n) = 2
    PROVE  Parent(n) \in Names /\ Parent(n) # n /\ Len(Parent(n)) = 1
<1>1. Len(n) > 1 /\ Len(n) - 1 = 1
  OBVIOUS
<1>2. Parent(n) \in Names /\ Len(Parent(n)) = Len(n) - 1
  BY <1>1, NameFacts
<1> QED BY <1>1, <1>2

\* A registration under a parent stays under it when both keep the fields it is about.
LEMMA StaysUnder ==
    ASSUME NEW n \in Names, UnderItsParent(n), Owned(Parent(n))',
           names'[n].pgen = names[n].pgen, names'[n].pid = names[n].pid,
           names'[Parent(n)].gen = names[Parent(n)].gen,
           names'[Parent(n)].id = names[Parent(n)].id
    PROVE  UnderItsParent(n)'
BY DEF UnderItsParent

LEMMA EditKeepsNames ==
    ASSUME GnsInv, NEW n \in Names, NEW e \in Name, Edits(n, e)
    PROVE  NamesInv'
<1>1. GnsTypeOK /\ IndexesAgree /\ created \in Nat
  BY DEF GnsInv, GnsTypeOK
<1>2. PutIsListed(n, e)
  BY <1>1, PutKeepsIndexes DEF Edits, Owned
<1>3. e # NoName /\ e.owner # NoAddress /\ Exists(n) /\ names[n].owner # NoAddress
  BY GnsNothingAssumption DEF Edits, Owned
<1>4. \A m \in Names : names'[m] = IF m = n THEN e ELSE names[m]
  BY <1>2 DEF PutIsListed
<1>5. ASSUME NEW m \in Names, Exists(m)'
      PROVE  /\ names'[m].owner = NoAddress <=> names'[m].gen = 0
             /\ names'[m].id <= created'
             /\ names'[m].owner = NoAddress => names'[m] = Placeholder
  <2>1. CASE m = n
    <3>1. names[n].gen # 0 /\ names[n].id <= created
      BY <1>3 DEF GnsInv, GnsTypeOK
    <3> QED BY <1>3, <1>4, <2>1, <3>1 DEF Edits
  <2>2. CASE m # n
    BY <1>4, <1>5, <2>2 DEF GnsInv, GnsTypeOK, Exists, Edits
  <2> QED BY <2>1, <2>2
<1>6. \A m \in Names : Owned(m)' <=> Owned(m)
  BY <1>3, <1>4 DEF Owned, Exists
<1>7. \A m \in Names : /\ names'[m].gen = names[m].gen /\ names'[m].pgen = names[m].pgen
                       /\ names'[m].id = names[m].id /\ names'[m].pid = names[m].pid
  BY <1>4 DEF Edits
<1>8. ASSUME NEW m \in Names, Len(m) = 2, Owned(m)' PROVE UnderItsParent(m)'
  <2>1. UnderItsParent(m) /\ Parent(m) \in Names
    BY <1>6, <1>8, ParentOfTwo DEF GnsInv
  <2>2. Owned(Parent(m))'
    BY <1>6, <2>1 DEF UnderItsParent
  <2> QED BY <1>7, <2>1, <2>2, StaysUnder
<1>9. created' \in Nat
  BY <1>1 DEF Edits
<1> QED BY <1>2, <1>5, <1>8, <1>9 DEF NamesInv, PutIsListed

LEMMA CreateKeepsNames ==
    ASSUME GnsInv, NEW n \in Names, NEW e \in Name, Creates(n, e)
    PROVE  NamesInv'
<1>1. GnsTypeOK /\ IndexesAgree /\ created \in Nat
  BY DEF GnsInv, GnsTypeOK
<1>2. PutIsListed(n, e)
  BY <1>1, PutKeepsIndexes DEF Creates
<1>3. e # NoName /\ e.owner # NoAddress
  BY GnsNothingAssumption DEF Creates
<1>4. \A m \in Names : names'[m] = IF m = n THEN e ELSE names[m]
  BY <1>2 DEF PutIsListed
<1>5. Exists(n) => Owned(n) /\ names[n].gen \in Nat
  BY <1>1, RecordOf DEF Creates, Name
<1>6. ASSUME NEW m \in Names, Exists(m)'
      PROVE  /\ names'[m].owner = NoAddress <=> names'[m].gen = 0
             /\ names'[m].id <= created'
             /\ names'[m].owner = NoAddress => names'[m] = Placeholder
  <2>1. CASE m = n
    <3>1. e.gen # 0
      BY <1>5 DEF Creates
    <3>2. e.id <= created'
      BY <1>1 DEF Creates
    <3> QED BY <1>3, <1>4, <2>1, <3>1, <3>2
  <2>2. CASE m # n
    <3>1. Exists(m) /\ names'[m] = names[m]
      BY <1>4, <1>6, <2>2 DEF Exists
    <3>2. names[m].id \in Nat /\ names[m].id <= created
      BY <1>1, <3>1, RecordOf DEF GnsInv, Name
    <3>3. names[m].id <= created'
      BY <1>1, <3>2 DEF Creates
    <3>4. /\ names[m].owner = NoAddress <=> names[m].gen = 0
          /\ names[m].owner = NoAddress => names[m] = Placeholder
      BY <3>1 DEF GnsInv, GnsTypeOK
    <3> QED BY <3>1, <3>3, <3>4
  <2> QED BY <2>1, <2>2
<1>7. \A m \in Names : Owned(m)' <=> m = n \/ Owned(m)
  BY <1>3, <1>4 DEF Owned, Exists
<1>8. ASSUME NEW m \in Names, Len(m) = 2, Owned(m)' PROVE UnderItsParent(m)'
  <2> DEFINE p == Parent(m)
  <2>1. p \in Names /\ p # m /\ Len(p) = 1
    BY <1>8, ParentOfTwo
  <2>2. CASE m = n
    <3>1. /\ Owned(p) /\ names'[p] = names[p] /\ names'[m] = e
          /\ e.pgen = names[p].gen /\ e.pid = names[p].id
      <4>1. Len(n) > 1 /\ p = Parent(n)
        BY <1>8, <2>2
      <4>2. names'[p] = names[p] /\ names'[m] = e
        BY <1>4, <2>1, <2>2
      <4> HIDE DEF p
      <4> QED BY <4>1, <4>2 DEF Creates
    <3>2. names[p].gen \in Nat
      BY <1>1, <2>1, <3>1, RecordOf DEF Owned, Name
    <3>3. Owned(p)'
      BY <1>7, <2>1, <3>1
    <3> QED BY <3>1, <3>2, <3>3 DEF UnderItsParent
  <2>3. CASE m # n
    <3>1. Owned(m) /\ UnderItsParent(m) /\ names'[m] = names[m] /\ Owned(p)
      BY <1>4, <1>7, <1>8, <2>3 DEF GnsInv, UnderItsParent
    <3>2. Owned(p)'
      BY <1>7, <2>1, <3>1
    <3>3. CASE p # n
      <4>1. names'[p] = names[p]
        BY <1>4, <2>1, <3>3
      <4> QED BY <3>1, <3>2, <4>1, StaysUnder
    <3>4. CASE p = n
      <4>1. names'[p] = e /\ e.gen = names[p].gen + 1
        BY <1>4, <2>1, <3>1, <3>4 DEF Creates, Owned
      <4>2. names[p].gen \in Nat /\ names[m].pgen \in Nat
        BY <1>1, <2>1, <3>1, RecordOf DEF Owned, Name
      <4>3. names[m].pgen <= names[p].gen
        BY <3>1 DEF UnderItsParent
      <4>4. names'[m].pgen <= names'[p].gen /\ names'[m].pgen # names'[p].gen
        BY <3>1, <4>1, <4>2, <4>3
      <4> QED BY <3>2, <4>4 DEF UnderItsParent
    <3> QED BY <3>3, <3>4
  <2> QED BY <2>2, <2>3
<1>9. created' \in Nat
  BY <1>1 DEF Creates
<1> QED BY <1>2, <1>6, <1>8, <1>9 DEF NamesInv, PutIsListed

LEMMA DeleteKeepsNames ==
    ASSUME GnsInv, NEW n \in Names, Deletes(n)
    PROVE  NamesInv'
<1>1. GnsTypeOK /\ IndexesAgree /\ created \in Nat /\ created' = created
  BY DEF GnsInv, GnsTypeOK, Deletes
<1>2. /\ names' = [m \in Names |-> IF m = n THEN NoName ELSE names[m]]
      /\ names' \in [Names -> Name \cup {NoName}]
      /\ IndexesAgree'
  BY <1>1, DeleteKeepsIndexes
<1>3. \A m \in Names : Exists(m)' => m # n /\ Exists(m) /\ names'[m] = names[m]
  BY <1>2 DEF Exists
<1>4. ASSUME NEW m \in Names, Exists(m)'
      PROVE  /\ names'[m].owner = NoAddress <=> names'[m].gen = 0
             /\ names'[m].id <= created'
             /\ names'[m].owner = NoAddress => names'[m] = Placeholder
  BY <1>1, <1>3, <1>4 DEF GnsInv, GnsTypeOK
<1>5. ASSUME NEW m \in Names, Len(m) = 2, Owned(m)' PROVE UnderItsParent(m)'
  <2> DEFINE p == Parent(m)
  <2>1. p \in Names /\ p # m /\ Len(p) = 1
    BY <1>5, ParentOfTwo
  <2>2. names'[m] = names[m] /\ Owned(m)
    BY <1>3, <1>5 DEF Owned
  <2>3. p # n
    <3>1. Len(n) > 1
      BY DEF Deletes
    <3>2. ~ (Len(p) > 1)
      BY <2>1
    <3> HIDE DEF p
    <3> QED BY <3>1, <3>2
  <2>4. names'[p] = names[p]
    BY <1>2, <2>1, <2>3
  <2>5. UnderItsParent(m) /\ Owned(p)
    BY <1>5, <2>2 DEF GnsInv, UnderItsParent
  <2>6. Owned(p)'
    BY <2>4, <2>5 DEF Owned, Exists
  <2> QED BY <2>2, <2>4, <2>5, <2>6, StaysUnder
<1> QED BY <1>1, <1>2, <1>4, <1>5 DEF NamesInv

LEMMA ReserveKeepsNames ==
    ASSUME GnsInv, NEW n \in Names, NEW flag \in BOOLEAN, ReserveName(n, flag)
    PROVE  NamesInv'
<1>1. GnsTypeOK /\ created \in Nat
  BY DEF GnsInv, GnsTypeOK
<1>2. /\ created' = created
      /\ \A m \in Names : m # n => names'[m] = names[m]
      /\ names' \in [Names -> Name \cup {NoName}]
      /\ Owned(n) => names'[n] = [names[n] EXCEPT !.reserved = flag] /\ names'[n] \in Name
      /\ ~ Owned(n) => names'[n] \in {Placeholder, NoName}
      /\ IndexesAgree'
  BY ReserveFacts
<1>3. Owned(n) => /\ names'[n] # NoName
                  /\ names'[n].owner = names[n].owner /\ names'[n].gen = names[n].gen
                  /\ names'[n].pgen = names[n].pgen /\ names'[n].id = names[n].id
                  /\ names'[n].pid = names[n].pid
  <2> SUFFICES ASSUME Owned(n)
               PROVE  /\ names'[n] # NoName
                      /\ names'[n].owner = names[n].owner /\ names'[n].gen = names[n].gen
                      /\ names'[n].pgen = names[n].pgen /\ names'[n].id = names[n].id
                      /\ names'[n].pid = names[n].pid
    OBVIOUS
  <2>1. names[n] \in Name
    BY <1>1, RecordOf DEF Owned
  <2>2. names'[n] # NoName
    BY <1>2, GnsNothingAssumption
  <2> QED BY <1>2, <2>1, <2>2 DEF Name
<1>4. \A m \in Names : Owned(m)' <=> Owned(m)
  <2>1. \A m \in Names \ {n} : Owned(m)' <=> Owned(m)
    BY <1>2 DEF Owned, Exists
  <2>2. Owned(n) => Owned(n)'
    BY <1>3 DEF Owned, Exists
  <2>3. ~ Owned(n) => ~ Owned(n)'
    BY <1>2, PlaceholderFacts DEF Owned, Exists
  <2> QED BY <2>1, <2>2, <2>3
<1>5. ASSUME NEW m \in Names, Exists(m)'
      PROVE  /\ names'[m].owner = NoAddress <=> names'[m].gen = 0
             /\ names'[m].id <= created'
             /\ names'[m].owner = NoAddress => names'[m] = Placeholder
  <2>1. CASE m # n
    <3>1. Exists(m) /\ names'[m] = names[m]
      BY <1>2, <1>5, <2>1 DEF Exists
    <3> QED BY <1>2, <3>1 DEF GnsInv, GnsTypeOK
  <2>2. CASE m = n /\ Owned(n)
    <3>1. /\ Exists(n) /\ names[n].owner # NoAddress
          /\ names[n].gen # 0 /\ names[n].id <= created
      BY <2>2 DEF GnsInv, GnsTypeOK, Owned
    <3> QED BY <1>2, <1>3, <2>2, <3>1
  <2>3. CASE m = n /\ ~ Owned(n)
    <3>1. names'[n] = Placeholder
      BY <1>2, <1>5, <2>3 DEF Exists
    <3> QED BY <1>1, <1>2, <2>3, <3>1, PlaceholderFacts
  <2> QED BY <2>1, <2>2, <2>3
<1>6. ASSUME NEW m \in Names, Len(m) = 2, Owned(m)' PROVE UnderItsParent(m)'
  <2> DEFINE p == Parent(m)
  <2>1. p \in Names /\ Owned(m) /\ UnderItsParent(m) /\ Owned(p)
    BY <1>4, <1>6, ParentOfTwo DEF GnsInv, UnderItsParent
  <2>2. \A k \in Names : Owned(k) =>
           /\ names'[k].gen = names[k].gen /\ names'[k].pgen = names[k].pgen
           /\ names'[k].id = names[k].id /\ names'[k].pid = names[k].pid
    BY <1>2, <1>3
  <2>3. Owned(p)'
    BY <1>4, <2>1
  <2> QED BY <2>1, <2>2, <2>3, StaysUnder
<1> QED BY <1>1, <1>2, <1>5, <1>6 DEF NamesInv

LEMMA StepKeepsRest ==
    ASSUME RestInv, [Next]_vars
    PROVE  RestInv'
<1> USE GnsAmountAssumption, GnsNothingAssumption, GnsInputAssumption DEF RestInv
<1>1. CASE UNCHANGED vars
  BY <1>1 DEF vars, config
<1>2. CASE Tick
  BY <1>2 DEF Tick, config
<1>3. ASSUME NEW a \in Address, NEW q \in Requests, Commit(a, q) PROVE RestInv'
  <2>1. [committer |-> a, created |-> now] \in Commitment
    BY DEF Commitment
  <2> QED BY <1>3, <2>1 DEF Commit, config
<1>4. ASSUME NEW a \in Address, NEW q \in Requests, NEW b \in Natives, NEW primary \in BOOLEAN,
             Register(a, q, b, primary)
      PROVE  RestInv'
  <2>1. q.name \in Names
    BY DEF Request, TopNames
  <2> QED BY <1>4, <2>1 DEF Register, config
<1>5. ASSUME NEW a \in Address, NEW n \in Names, NEW b \in Address, NEW ops, NEW recs,
             Transfer(a, n, b, ops, recs)
      PROVE  RestInv'
  <2>1. UNCHANGED <<now, commitments, config>>
    BY <1>5 DEF Transfer
  <2>2. reverse' \in [Address -> Names \cup {NoName}]
    BY <1>5 DEF Transfer
  <2> QED BY <2>1, <2>2 DEF config
<1>6. ASSUME NEW n, UNCHANGED <<now, commitments, reverse, config>> PROVE RestInv'
  BY <1>6 DEF config
<1>7. ASSUME NEW a \in Address, Registers(a) PROVE RestInv'
  <2>1. CASE \E n \in Names, d \in Durations : Renew(n, d)
    BY <1>6, <2>1 DEF Renew
  <2> QED BY <1>3, <1>4, <1>7, <2>1 DEF Registers
<1>8. ASSUME NEW a \in Address, Manages(a) PROVE RestInv'
  <2>1. CASE \E n \in Names, b \in Address, ops \in BOOLEAN, recs \in BOOLEAN :
                Transfer(a, n, b, ops, recs)
    BY <1>5, <2>1
  <2>2. CASE \E n \in Names : SetPrimaryName(a, n)
    BY <2>2 DEF SetPrimaryName, config
  <2>3. CASE ClearPrimaryName(a)
    BY <2>3 DEF ClearPrimaryName, config
  <2>4. CASE UNCHANGED <<now, commitments, reverse, config>>
    BY <1>6, <2>4
  <2> QED BY <1>8, <2>1, <2>2, <2>3, <2>4
          DEF Manages, CreateSubname, DeleteSubname, SetRegistrationPolicy, LockPolicy,
              SetOperator, RemoveOperator, SetAddress
<1>9. ASSUME NEW a \in Address, Administer(a) PROVE RestInv'
  <2>1. CASE \E n \in Names, flag \in BOOLEAN : ReserveName(n, flag)
    BY <1>6, <2>1 DEF ReserveName
  <2>2. CASE \E flag \in BOOLEAN : SetPaused(flag)
    BY <2>2 DEF SetPaused
  <2>3. CASE \E flag \in BOOLEAN : SetRegistrationOpen(flag)
    BY <2>3 DEF SetRegistrationOpen
  <2>4. CASE SetPricing
    BY <2>4 DEF SetPricing
  <2>5. CASE \E b \in Address : TransferAdmin(b)
    BY <2>5 DEF TransferAdmin
  <2> QED BY <1>9, <2>1, <2>2, <2>3, <2>4, <2>5 DEF Administer
<1>10. ASSUME NEW a \in Address, AcceptAdmin(a) PROVE RestInv'
  BY <1>10 DEF AcceptAdmin
<1> QED BY <1>1, <1>2, <1>7, <1>8, <1>9, <1>10 DEF Next

LEMMA StepKeepsNames ==
    ASSUME GnsInv, [Next]_vars
    PROVE  NamesInv'
<1>1. TreeStep
  BY StepOfTrees
<1>2. CASE UNCHANGED trees
  <2>1. NamesInv
    BY InvParts
  <2> QED BY <1>2, <2>1 DEF trees, NamesInv, IndexesAgree, Exists, Owned, UnderItsParent
<1> QED BY <1>1, <1>2, EditKeepsNames, CreateKeepsNames, DeleteKeepsNames, ReserveKeepsNames
        DEF TreeStep

LEMMA InitIsSound ==
    Init => GnsInv
<1> SUFFICES ASSUME Init PROVE GnsInv
  OBVIOUS
<1>1. RestInv
  BY GnsNothingAssumption DEF Init, RestInv
<1>2. \A n \in Names : ~ Exists(n) /\ ~ Owned(n)
  BY DEF Init, Exists, Owned
<1>3. IndexesAgree
  BY <1>2 DEF Init, IndexesAgree
<1>4. created \in Nat /\ names \in [Names -> Name \cup {NoName}]
  BY DEF Init
<1> QED BY <1>1, <1>2, <1>3, <1>4, InvParts DEF NamesInv

LEMMA GnsStaysSound ==
    Spec => []GnsInv
<1>1. GnsInv /\ [Next]_vars => GnsInv'
  <2> SUFFICES ASSUME GnsInv, [Next]_vars PROVE GnsInv'
    OBVIOUS
  <2>1. NamesInv'
    BY StepKeepsNames
  <2>2. RestInv'
    BY InvParts, StepKeepsRest
  <2> QED BY <2>1, <2>2 DEF GnsInv, GnsTypeOK, NamesInv, RestInv
<1> QED BY <1>1, InitIsSound, PTL DEF Spec

-----------------------------------------------------------------------------
(* Theorems. *)

\* What the registry keeps of a name is whole, and the owner and parent indexes list
\* exactly the owned names, after any history of registrations, transfers, deletions
\* and reservations (putName, deleteSubname, ReserveName).
THEOREM NamesStayKept ==
    Spec => []NamesAreKept
<1>1. GnsInv => NamesAreKept
  BY DEF GnsInv, NamesAreKept
<1> QED BY <1>1, GnsStaysSound, PTL

\* A subname of a registered name that is in force was created under the very
\* registration of its parent that is in force, for names of any set of labels and any
\* lengths of lease, as long as no subname has subnames of its own.
THEOREM SubnamesDieWithTheirParent ==
    ASSUME \A n \in Names : Len(n) <= 2
    PROVE  Spec => []NoSubnameOutlivesItsParent
<1>1. GnsInv => NoSubnameOutlivesItsParent
  <2> SUFFICES ASSUME GnsInv, NEW n \in Names, Len(n) > 1, Status(n) \in {"active", "grace"}
               PROVE  names[n].pid = names[Parent(n)].id
    BY DEF NoSubnameOutlivesItsParent
  <2>1. Len(n) \in Nat \ {0}
    BY NameFacts
  <2>2. Len(n) = 2
    <3>1. PICK k \in Nat : k = Len(n)
      BY <2>1
    <3>2. k > 1 /\ k <= 2
      BY <3>1
    <3> QED BY <3>1, <3>2
  <2>3. Owned(n) /\ ParentChainValid(n)
    BY InForceIsOwned
  <2>4. UnderParent(n)
    BY <2>3, ChainOfParent
  <2>5. UnderItsParent(n)
    BY <2>2, <2>3 DEF GnsInv
  <2> QED BY <2>4, <2>5 DEF UnderParent, UnderItsParent
<1> QED BY <1>1, GnsStaysSound, PTL

LEMMA SameRecords ==
    ASSUME UNCHANGED trees
    PROVE  \A n \in Names : names'[n] = names[n]
BY DEF trees

\* What a step does to a name that is there before and after it.
LEMMA StepOnName ==
    ASSUME GnsInv, [Next]_vars, NEW n \in Names, Exists(n), names'[n] # NoName
    PROVE  \/ \E e \in Name : Edits(n, e) /\ names'[n] = e
           \/ \E e \in Name : Creates(n, e) /\ names'[n] = e
           \/ \E flag \in BOOLEAN : ReserveName(n, flag)
           \/ names'[n] = names[n]
<1>1. names \in [Names -> Name \cup {NoName}]
  BY DEF GnsInv, GnsTypeOK
<1>2. ASSUME NEW m \in Names, NEW e \in Name, Edits(m, e) \/ Creates(m, e)
      PROVE  names'[n] = IF m = n THEN e ELSE names[n]
  BY <1>1, <1>2 DEF Edits, Creates, Put
<1>3. ASSUME NEW m \in Names, Deletes(m) PROVE names'[n] = names[n]
  BY <1>1, <1>3 DEF Deletes
<1>4. ASSUME NEW m \in Names, NEW flag \in BOOLEAN, ReserveName(m, flag), m # n
      PROVE  names'[n] = names[n]
  BY <1>4, ReserveFacts
<1>5. TreeStep
  BY StepOfTrees
<1>6. CASE \E m \in Names, e \in Name : Edits(m, e)
  BY <1>2, <1>6
<1>7. CASE \E m \in Names, e \in Name : Creates(m, e)
  BY <1>2, <1>7
<1> QED BY <1>3, <1>4, <1>5, <1>6, <1>7, SameRecords DEF TreeStep

\* A reservation changes neither the holder of a name nor its lease or its controls.
LEMMA ReserveOnName ==
    ASSUME GnsInv, NEW n \in Names, Exists(n), names'[n] # NoName,
           NEW flag \in BOOLEAN, ReserveName(n, flag)
    PROVE  /\ names'[n].id = names[n].id /\ names'[n].owner = names[n].owner
           /\ names'[n].control = names[n].control
<1>1. CASE Owned(n)
  <2>1. names'[n] = [names[n] EXCEPT !.reserved = flag] /\ names[n] \in Name
    BY <1>1, ReserveFacts, RecordOf DEF GnsInv
  <2> QED BY <2>1 DEF Name
<1>2. CASE ~ Owned(n)
  <2>1. names'[n] = Placeholder /\ names[n] = Placeholder
    BY <1>2, ReserveFacts DEF GnsInv, Owned
  <2> QED BY <2>1
<1> QED BY <1>1, <1>2

\* A name is leased to someone else only when its lease and its grace are over or its
\* parent was registered anew, and in grace only its parent may move it
\* (isAvailable, createName, Transfer).
THEOREM LeasesAreHonoured ==
    Spec => LeaseIsHonoured
<1> DEFINE Honoured(n) ==
        Exists(n) /\ names'[n] # NoName /\ names[n].owner # NoAddress =>
          LET e == names[n]  f == names'[n] IN
          /\ f.id # e.id => \/ e.expires # 0 /\ now >= e.grace
                            \/ Len(n) > 1 /\ Exists(Parent(n))
                                 /\ e.pgen # names[Parent(n)].gen
          /\ f.id = e.id /\ f.owner # e.owner /\ ~ Active(n) =>
                {"parentTransfer", "parentReclaim"} \cap e.control.flags # {}
<1>1. ASSUME GnsInv, [Next]_vars, NEW n \in Names PROVE Honoured(n)
  <2> SUFFICES ASSUME Exists(n), names'[n] # NoName, names[n].owner # NoAddress
               PROVE  Honoured(n)
    OBVIOUS
  <2>1. ASSUME NEW e \in Name, Edits(n, e), names'[n] = e PROVE Honoured(n)
    BY <2>1 DEF Edits
  <2>2. ASSUME NEW e \in Name, Creates(n, e), names'[n] = e PROVE Honoured(n)
    <3>1. names[n].id \in Nat /\ created \in Nat /\ names[n].id <= created
      BY <1>1, RecordOf DEF GnsInv, GnsTypeOK, Name
    <3>2. names'[n].id # names[n].id
      BY <2>2, <3>1 DEF Creates
    <3> QED BY <2>2, <3>2 DEF Creates, LeaseIsOver
  <2>3. ASSUME NEW flag \in BOOLEAN, ReserveName(n, flag) PROVE Honoured(n)
    BY <1>1, <2>3, ReserveOnName
  <2>4. CASE names'[n] = names[n]
    BY <2>4
  <2> HIDE DEF Honoured
  <2> QED BY <1>1, <2>1, <2>2, <2>3, <2>4, StepOnName
<1>2. GnsInv /\ [Next]_vars => [\A n \in Names : Honoured(n)]_vars
  <2> HIDE DEF Honoured
  <2> QED BY <1>1
<1> QED BY <1>2, GnsStaysSound, PTL DEF Spec, LeaseIsHonoured

\* The controls of a registration only get tighter, under its owner, an operator, its
\* parent or the administrator (LockPolicy, Transfer, ReserveName).
THEOREM LocksStayShut ==
    Spec => LocksNeverOpen
<1> DEFINE Tightens(n) ==
        Exists(n) /\ names'[n] # NoName =>
          LET c == names[n].control  d == names'[n].control IN
          names'[n].id = names[n].id =>
             d.flags \subseteq c.flags /\ (c.permanent => d.permanent)
<1>1. ASSUME GnsInv, [Next]_vars, NEW n \in Names PROVE Tightens(n)
  <2> SUFFICES ASSUME Exists(n), names'[n] # NoName PROVE Tightens(n)
    OBVIOUS
  <2>1. ASSUME NEW e \in Name, Edits(n, e), names'[n] = e PROVE Tightens(n)
    BY <2>1 DEF Edits
  <2>2. ASSUME NEW e \in Name, Creates(n, e), names'[n] = e PROVE Tightens(n)
    <3>1. names[n].id \in Nat /\ created \in Nat /\ names[n].id <= created
      BY <1>1, RecordOf DEF GnsInv, GnsTypeOK, Name
    <3>2. names'[n].id # names[n].id
      BY <2>2, <3>1 DEF Creates
    <3> QED BY <3>2
  <2>3. ASSUME NEW flag \in BOOLEAN, ReserveName(n, flag) PROVE Tightens(n)
    BY <1>1, <2>3, ReserveOnName
  <2>4. CASE names'[n] = names[n]
    BY <2>4
  <2> HIDE DEF Tightens
  <2> QED BY <1>1, <2>1, <2>2, <2>3, <2>4, StepOnName
<1>2. GnsInv /\ [Next]_vars => [\A n \in Names : Tightens(n)]_vars
  <2> HIDE DEF Tightens
  <2> QED BY <1>1
<1> QED BY <1>2, GnsStaysSound, PTL DEF Spec, LocksNeverOpen

\* While the service is paused no record of a name in force changes, whoever calls what:
\* every writer asserts that it is not paused, and ReserveName refuses such a name.
THEOREM PauseFreezes ==
    Spec => PauseFreezesNames
<1> DEFINE Frozen == paused => \A n \in Names : Active(n) => names'[n] = names[n]
<1>1. ASSUME GnsInv, [Next]_vars PROVE Frozen
  <2> SUFFICES ASSUME paused, NEW n \in Names, Active(n) PROVE names'[n] = names[n]
    OBVIOUS
  <2>1. TreeStep
    BY <1>1, StepOfTrees
  <2>2. ASSUME NEW m \in Names, NEW flag \in BOOLEAN, ReserveName(m, flag)
        PROVE  names'[n] = names[n]
    <3>1. ~ Active(m) /\ \A k \in Names : k # m => names'[k] = names[k]
      BY <1>1, <2>2, ReserveFacts
    <3> QED BY <3>1
  <2> QED BY <2>1, <2>2, SameRecords DEF TreeStep, Edits, Creates, Deletes
<1>2. GnsInv /\ [Next]_vars => [Frozen]_vars
  <2> HIDE DEF Frozen
  <2> QED BY <1>1
<1> QED BY <1>2, GnsStaysSound, PTL DEF Spec, PauseFreezesNames
=============================================================================
