-------------------------------- MODULE Gns --------------------------------
(***************************************************************************)
(* The name service r/moul/gns: names are registered for a while by commit *)
(* and reveal, renewed, transferred, delegated and locked, and have        *)
(* subnames that live as long as the chain of names above them.            *)
(*                                                                         *)
(* Every exported function is one transaction and one action.  A name is   *)
(* the sequence of its labels, so its parent is its tail.  Time is what    *)
(* now() returns.  Payments pass through to the treasury and are left out, *)
(* as are all records but the native address, the event log and reads.     *)
(***************************************************************************)
EXTENDS Integers, Sequences, FiniteSets

CONSTANTS
    Address,                   \* the addresses that make calls
    Admin,                     \* the deployer
    NoAddress,                 \* address("")
    Names,                     \* the valid names, closed under taking the parent
    NoName, NoGrant, NoCommit, \* what the trees hold under a missing key
    MinCommitAge, MaxCommitAge,
    MinDuration, MaxDuration, GracePeriod,
    MaxOperators,
    Requests,                  \* bound: registrations committed to
    Durations,                 \* bound: durations asked for; 0 is for ever
    Controls,                  \* bound: control policies asked for
    Policies,                  \* bound: registration policies asked for
    Grants,                    \* bound: permissions granted
    Natives,                   \* bound: addresses names point at
    AdminCalls,                \* bound: administrative calls made
    MaxRevision,               \* bound: the last policy revision
    MaxCreated,                \* bound: names ever created
    MaxTime                    \* bound: the last second

Flags == {"ownerTransfer", "ownerSubnames", "recordsMutable", "parentReclaim",
          "parentTransfer", "parentDelete", "parentPolicy"}
Perms == {"records", "operators", "subnames", "renew", "transfer", "policy"}
Modes == {"closed", "owner", "open", "allowlist", "paid"}

Control == [flags : SUBSET Flags, permanent : BOOLEAN]
Policy  == [mode : Modes, allowlist : SUBSET Address, default : Control]
Grant   == [perms : SUBSET Perms, until : Nat]
Name    == [owner : Address \cup {NoAddress}, expires : Nat, grace : Nat,
            gen : Nat, pgen : Nat, control : Control, policy : Policy,
            native : Address \cup {NoAddress}, reserved : BOOLEAN,
            operators : [Address -> Grant \cup {NoGrant}],
            id : Nat, pid : Nat]
TopNames == {n \in Names : Len(n) = 1}
\* What a commitment hides; its hash is taken to have no collisions.
Request == [name : TopNames, owner : Address, duration : Nat, revision : Nat]
Commitment == [committer : Address, created : Nat]

ASSUME GnsNamesAssumption ==
    /\ Names \subseteq Seq(STRING) \ {<<>>}
    /\ \A n \in Names : Len(n) > 1 => Tail(n) \in Names
ASSUME GnsNothingAssumption ==
    /\ NoName \notin Name /\ NoGrant \notin Grant /\ NoCommit \notin Commitment
    /\ NoAddress \notin Address /\ Admin \in Address
ASSUME GnsAmountAssumption ==
    /\ MinCommitAge \in Nat /\ MaxCommitAge \in Nat /\ GracePeriod \in Nat
    /\ MinDuration \in Nat \ {0} /\ MaxDuration \in Nat /\ MaxOperators \in Nat
    /\ MaxRevision \in Nat /\ MaxCreated \in Nat /\ MaxTime \in Nat
ASSUME GnsInputAssumption ==
    /\ Durations \subseteq Nat /\ Controls \subseteq Control
    /\ Policies \subseteq Policy /\ Grants \subseteq Grant
    /\ Requests \subseteq Request /\ Natives \subseteq Address \cup {NoAddress}

VARIABLES
    now,          \* the time
    names,        \* names
    commitments,  \* commitments
    reverse,      \* reverse: the primary name of an address
    byOwner,      \* byOwner
    byParent,     \* byParent
    admin, pendingAdmin, paused, open, revision,  \* of config
    created       \* history: how many names were ever created

trees  == <<names, byOwner, byParent, created>>
config == <<admin, pendingAdmin, paused, open, revision>>
vars   == <<now, trees, commitments, reverse, config>>

NoControl == [flags |-> {}, permanent |-> FALSE]
Closed    == [mode |-> "closed", allowlist |-> {}, default |-> NoControl]
NoOne     == [a \in Address |-> NoGrant]
TopControl == [flags |-> {"ownerTransfer", "ownerSubnames", "recordsMutable"},
               permanent |-> FALSE]

-----------------------------------------------------------------------------
(* Time and the chain of parents. *)

Exists(n) == names[n] # NoName
Up(n, i)  == SubSeq(n, i, Len(n))
Parent(n) == Tail(n)

\* Mutant: the parent's generation is not compared.
UnderAnyParent(n) ==
    LET p == Parent(n) IN
    Exists(n) /\ Exists(p) /\ (names[p].expires = 0 \/ now < names[p].expires)

\* A parent that is there, has not been registered anew and has not expired.
UnderParent(n) ==
    LET p == Parent(n) IN
    /\ Exists(n) /\ Exists(p)
    /\ names[n].pgen = names[p].gen
    /\ names[p].expires = 0 \/ now < names[p].expires

ParentChainValid(n) == \A i \in 1 .. Len(n) - 1 : UnderParent(Up(n, i))

Status(n) ==
    LET e == names[n] IN
    IF ~ Exists(n)                                  THEN "available"
    ELSE IF e.reserved /\ e.owner = NoAddress       THEN "reserved"
    ELSE IF ~ ParentChainValid(n)                   THEN "expired"
    ELSE IF e.expires = 0 \/ now < e.expires        THEN "active"
    ELSE IF now < e.grace                           THEN "grace"
    ELSE "expired"

Active(n)    == Status(n) = "active"
\* Mutant: a name in grace is open to anyone.
AvailableInGrace(n) == Exists(n) => ~ names[n].reserved /\ ~ Active(n)
Available(n) == Exists(n) => ~ names[n].reserved /\ Status(n) = "expired"

-----------------------------------------------------------------------------
(* Authority. *)

OwnerIsActive(a, n) == names[n].owner = a /\ Active(n)

\* The active owner, or an operator granted perm until later than now.
OwnerOrOperator(a, n, perm) ==
    \/ OwnerIsActive(a, n)
    \/ LET g == names[n].operators[a] IN
       g # NoGrant /\ Active(n) /\ perm \in g.perms /\ (g.until = 0 \/ g.until > now)

\* Whoever controls the active parent, where the child's policy allows it.
\* The end of the operator's grant is not looked at here.
ParentAllows(a, n, flags) ==
    /\ Len(n) > 1
    /\ LET p == Parent(n) IN
       /\ Exists(p) /\ Active(p)
       /\ \/ names[p].owner = a
          \/ names[p].operators[a] # NoGrant /\ "subnames" \in names[p].operators[a].perms
    /\ names[n].control.flags \cap flags # {}

Authorized(a, n, perm) ==
    \/ OwnerOrOperator(a, n, perm)
    \/ perm = "transfer" /\ ParentAllows(a, n, {"parentTransfer", "parentReclaim"})
    \/ perm = "policy" /\ ParentAllows(a, n, {"parentPolicy"})

-----------------------------------------------------------------------------
Init ==
    /\ now = 0
    /\ names = [n \in Names |-> NoName]
    /\ commitments = [q \in Requests |-> NoCommit]
    /\ reverse = [a \in Address |-> NoName]
    /\ byOwner = {} /\ byParent = {}
    /\ admin = Admin /\ pendingAdmin = NoAddress
    /\ paused = FALSE /\ open = TRUE /\ revision = 1
    /\ created = 0

\* Mutant: the old owner's key stays.
PutBesideOwner(n, e) ==
    /\ names' = [names EXCEPT ![n] = e]
    /\ byOwner' = byOwner \cup {<<e.owner, n>>}
    /\ byParent' = IF Len(n) > 1 THEN byParent \cup {n} ELSE byParent

\* putName with the owner's old key, if any, taken out first.
Put(n, e) ==
    /\ names' = [names EXCEPT ![n] = e]
    /\ byOwner' = (byOwner \ (IF Exists(n) THEN {<<names[n].owner, n>>} ELSE {}))
                     \cup {<<e.owner, n>>}
    /\ byParent' = IF Len(n) > 1 THEN byParent \cup {n} ELSE byParent

\* A new name in the place of an old one, if any.
Create(n, a, expires, control, native) ==
    /\ created < MaxCreated   \* bound
    /\ created' = created + 1
    /\ Put(n, [owner |-> a, expires |-> expires,
               grace |-> IF expires = 0 THEN 0 ELSE expires + GracePeriod,
               gen |-> IF Exists(n) THEN names[n].gen + 1 ELSE 1,
               pgen |-> IF Len(n) > 1 THEN names[Parent(n)].gen ELSE 0,
               control |-> control, policy |-> Closed, native |-> native,
               reserved |-> FALSE, operators |-> NoOne,
               id |-> created', pid |-> IF Len(n) > 1 THEN names[Parent(n)].id ELSE 0])

Commit(a, q) ==
    /\ ~ paused
    /\ commitments[q] # NoCommit => now - commitments[q].created > MaxCommitAge
    /\ commitments' = [commitments EXCEPT ![q] = [committer |-> a, created |-> now]]
    /\ UNCHANGED <<now, trees, reverse, config>>

Register(a, q, native, primary) ==
    /\ ~ paused /\ open
    /\ q.revision = revision
    /\ commitments[q] # NoCommit
    /\ commitments[q].committer = a
    /\ now - commitments[q].created \in MinCommitAge .. MaxCommitAge
    /\ Available(q.name)
    /\ q.duration \in MinDuration .. MaxDuration
    /\ Create(q.name, q.owner, now + q.duration, TopControl, native)
    /\ reverse' = IF primary /\ native = a THEN [reverse EXCEPT ![a] = q.name] ELSE reverse
    /\ commitments' = [commitments EXCEPT ![q] = NoCommit]
    /\ UNCHANGED <<now, config>>

\* Anyone may pay; in grace as well, from the old end.
Renew(n, duration) ==
    /\ ~ paused
    /\ Status(n) \in {"active", "grace"}
    /\ names[n].expires # 0
    /\ duration > 0
    /\ names[n].expires + duration <= now + MaxDuration
    /\ Put(n, [names[n] EXCEPT !.expires = @ + duration,
                               !.grace = names[n].expires + duration + GracePeriod])
    /\ UNCHANGED <<now, created, commitments, reverse, config>>

Transfer(a, n, b, clearOperators, clearRecords) ==
    /\ ~ paused
    /\ Exists(n)
    /\ b # names[n].owner
    /\ IF OwnerIsActive(a, n) THEN "ownerTransfer" \in names[n].control.flags
                              ELSE Authorized(a, n, "transfer")
    /\ LET old == names[n].owner
           e == [names[n] EXCEPT !.owner = b,
                                 !.operators = IF clearOperators THEN NoOne ELSE @,
                                 !.native = IF clearRecords THEN NoAddress ELSE @]
       IN  /\ Put(n, e)
           /\ reverse' = [x \in Address |->
                 IF x = old /\ reverse[x] = n /\ e.native # old THEN NoName ELSE reverse[x]]
    /\ UNCHANGED <<now, created, commitments, config>>

MayCreate(a, p) ==
    LET policy == names[p].policy IN
    \/ policy.mode = "owner" /\ Authorized(a, p, "subnames")
    \/ policy.mode = "open"
    \/ policy.mode = "allowlist" /\ a \in policy.allowlist
    \/ policy.mode = "paid"

CreateSubname(a, n, b, duration, control, native) ==
    /\ ~ paused
    /\ Len(n) > 1
    /\ Active(Parent(n))
    /\ Available(n)
    /\ MayCreate(a, Parent(n))
    /\ Create(n, b, IF duration > 0 THEN now + duration ELSE 0,
              IF control = NoControl THEN names[Parent(n)].policy.default ELSE control,
              native)
    /\ UNCHANGED <<now, commitments, reverse, config>>

\* The record goes, and its generation with it.
DeleteSubname(a, n) ==
    /\ ~ paused
    /\ Exists(n)
    /\ Len(n) > 1
    /\ OwnerIsActive(a, n) \/ ParentAllows(a, n, {"parentDelete"})
    /\ names' = [names EXCEPT ![n] = NoName]
    /\ byOwner' = byOwner \ {<<names[n].owner, n>>}
    /\ byParent' = byParent \ {n}
    /\ UNCHANGED <<now, created, commitments, reverse, config>>

SetRegistrationPolicy(a, n, policy) ==
    /\ ~ paused
    /\ Exists(n)
    /\ IF OwnerIsActive(a, n)
       THEN "ownerSubnames" \in names[n].control.flags \/ policy.mode = "closed"
       ELSE Authorized(a, n, "policy")
    /\ Put(n, [names[n] EXCEPT !.policy = policy])
    /\ UNCHANGED <<now, created, commitments, reverse, config>>

\* Mutant: the restrictions replace what was there.
MergeReplaces(c, d) == [flags |-> d.flags, permanent |-> c.permanent \/ d.permanent]
MergeRestrictive(c, d) ==
    [flags |-> c.flags \cap d.flags, permanent |-> c.permanent \/ d.permanent]

LockPolicy(a, n, restrictions) ==
    /\ ~ paused
    /\ Exists(n)
    /\ OwnerIsActive(a, n)
    /\ names[n].control.permanent => restrictions.permanent
    /\ Put(n, [names[n] EXCEPT !.control = MergeRestrictive(@, restrictions)])
    /\ UNCHANGED <<now, created, commitments, reverse, config>>

SetOperator(a, n, b, grant) ==
    /\ ~ paused
    /\ Exists(n)
    /\ OwnerOrOperator(a, n, "operators")
    /\ names[n].operators[b] = NoGrant /\ MaxOperators > 0 =>
          Cardinality({x \in Address : names[n].operators[x] # NoGrant}) < MaxOperators
    /\ Put(n, [names[n] EXCEPT !.operators = [@ EXCEPT ![b] = grant]])
    /\ UNCHANGED <<now, created, commitments, reverse, config>>

RemoveOperator(a, n, b) ==
    /\ ~ paused
    /\ Exists(n)
    /\ OwnerOrOperator(a, n, "operators")
    /\ names[n].operators[b] # NoGrant
    /\ Put(n, [names[n] EXCEPT !.operators = [@ EXCEPT ![b] = NoGrant]])
    /\ UNCHANGED <<now, created, commitments, reverse, config>>

\* Mutant: records stay writable in a pause.
SetAddressInPause(a, n, b) ==
    /\ Exists(n)
    /\ OwnerOrOperator(a, n, "records")
    /\ "recordsMutable" \in names[n].control.flags
    /\ Put(n, [names[n] EXCEPT !.native = b])
    /\ UNCHANGED <<now, created, commitments, reverse, config>>

\* The reverse record of the old address stays; readers check it again.
SetAddress(a, n, b) ==
    /\ ~ paused
    /\ Exists(n)
    /\ OwnerOrOperator(a, n, "records")
    /\ "recordsMutable" \in names[n].control.flags
    /\ Put(n, [names[n] EXCEPT !.native = b])
    /\ UNCHANGED <<now, created, commitments, reverse, config>>

SetPrimaryName(a, n) ==
    /\ ~ paused
    /\ Active(n)
    /\ names[n].native = a
    /\ reverse' = [reverse EXCEPT ![a] = n]
    /\ UNCHANGED <<now, trees, commitments, config>>

ClearPrimaryName(a) ==
    /\ reverse' = [reverse EXCEPT ![a] = NoName]
    /\ UNCHANGED <<now, trees, commitments, config>>

-----------------------------------------------------------------------------
(* Administration. *)

Placeholder ==
    [owner |-> NoAddress, expires |-> 0, grace |-> 0, gen |-> 0, pgen |-> 0,
     control |-> NoControl, policy |-> Closed, native |-> NoAddress,
     reserved |-> TRUE, operators |-> NoOne, id |-> 0, pid |-> 0]

\* A name in grace or expired keeps its record and gets the flag.
ReserveName(n, reserved) ==
    /\ ~ (Active(n) /\ names[n].owner # NoAddress)
    /\ names' = [names EXCEPT ![n] =
          IF Exists(n) /\ names[n].owner # NoAddress
          THEN [names[n] EXCEPT !.reserved = reserved]
          ELSE IF reserved THEN Placeholder ELSE NoName]
    /\ UNCHANGED <<now, byOwner, byParent, created, commitments, reverse, config>>

SetPaused(flag) ==
    /\ paused' = flag
    /\ UNCHANGED <<now, trees, commitments, reverse, admin, pendingAdmin, open, revision>>

SetRegistrationOpen(flag) ==
    /\ open' = flag
    /\ UNCHANGED <<now, trees, commitments, reverse, admin, pendingAdmin, paused, revision>>

\* New prices void the commitments made at the old ones.
SetPricing ==
    /\ revision < MaxRevision   \* bound
    /\ revision' = revision + 1
    /\ UNCHANGED <<now, trees, commitments, reverse, admin, pendingAdmin, paused, open>>

TransferAdmin(b) ==
    /\ pendingAdmin' = b
    /\ UNCHANGED <<now, trees, commitments, reverse, admin, paused, open, revision>>

AcceptAdmin(a) ==
    /\ a = pendingAdmin
    /\ admin' = a
    /\ pendingAdmin' = NoAddress
    /\ UNCHANGED <<now, trees, commitments, reverse, paused, open, revision>>

Administer(a) ==
    /\ a = admin
    /\ \/ "reserve" \in AdminCalls
          /\ \E n \in Names, flag \in BOOLEAN : ReserveName(n, flag)
       \/ "pause" \in AdminCalls /\ \E flag \in BOOLEAN : SetPaused(flag)
       \/ "open" \in AdminCalls /\ \E flag \in BOOLEAN : SetRegistrationOpen(flag)
       \/ SetPricing
       \/ "handover" \in AdminCalls /\ \E b \in Address : TransferAdmin(b)

Tick ==
    /\ now < MaxTime
    /\ now' = now + 1
    /\ UNCHANGED <<trees, commitments, reverse, config>>

Registers(a) ==
    \/ \E q \in Requests : Commit(a, q)
    \/ \E q \in Requests, b \in Natives, primary \in BOOLEAN :
          Register(a, q, b, primary)
    \/ \E n \in Names, d \in Durations : Renew(n, d)

Manages(a) ==
    \/ \E n \in Names, b \in Address, ops \in BOOLEAN, recs \in BOOLEAN :
          Transfer(a, n, b, ops, recs)
    \/ \E n \in Names, b \in Address, d \in Durations, c \in Controls \cup {NoControl},
          x \in Natives : CreateSubname(a, n, b, d, c, x)
    \/ \E n \in Names : DeleteSubname(a, n)
    \/ \E n \in Names, policy \in Policies : SetRegistrationPolicy(a, n, policy)
    \/ \E n \in Names, c \in Controls : LockPolicy(a, n, c)
    \/ \E n \in Names, b \in Address, g \in Grants : SetOperator(a, n, b, g)
    \/ \E n \in Names, b \in Address : RemoveOperator(a, n, b)
    \/ \E n \in Names, b \in Natives : SetAddress(a, n, b)
    \/ \E n \in Names : SetPrimaryName(a, n)
    \/ ClearPrimaryName(a)

Next ==
    \/ \E a \in Address : Registers(a) \/ Manages(a) \/ Administer(a) \/ AcceptAdmin(a)
    \/ Tick

Spec == Init /\ [][Next]_vars

-----------------------------------------------------------------------------
(* Properties. *)

\* Every record is well formed, and an owned name has a generation.
GnsTypeOK ==
    /\ now \in Nat /\ created \in Nat /\ revision \in Nat
    /\ names \in [Names -> Name \cup {NoName}]
    /\ commitments \in [Requests -> Commitment \cup {NoCommit}]
    /\ reverse \in [Address -> Names \cup {NoName}]
    /\ admin \in Address /\ pendingAdmin \in Address \cup {NoAddress}
    /\ paused \in BOOLEAN /\ open \in BOOLEAN
    /\ \A n \in Names : Exists(n) =>
          (names[n].owner = NoAddress <=> names[n].gen = 0)

\* The two indexes list exactly the owned names and the owned subnames, after
\* any mix of registrations, transfers, deletions and reservations.
IndexesAgree ==
    LET owned == {n \in Names : Exists(n) /\ names[n].owner # NoAddress} IN
    /\ byOwner = {<<names[n].owner, n>> : n \in owned}
    /\ byParent = {n \in owned : Len(n) > 1}

\* What the registry keeps of a name is whole and in every place it is kept.
NamesAreKept == GnsTypeOK /\ IndexesAgree

\* A name is given to a new lease only when its own lease and grace are over or
\* its parent was registered anew; and in grace it stays with its owner, but for
\* what its parent may do.
LeaseIsHonoured ==
    [][\A n \in Names : Exists(n) /\ names'[n] # NoName /\ names[n].owner # NoAddress =>
          LET e == names[n]  f == names'[n] IN
          /\ f.id # e.id => \/ e.expires # 0 /\ now >= e.grace
                            \/ Len(n) > 1 /\ Exists(Parent(n))
                                 /\ e.pgen # names[Parent(n)].gen
          /\ f.id = e.id /\ f.owner # e.owner /\ ~ Active(n) =>
                {"parentTransfer", "parentReclaim"} \cap e.control.flags # {}]_vars

\* For as long as a name is registered its controls only get tighter, whoever
\* holds it.
LocksNeverOpen ==
    [][\A n \in Names : Exists(n) /\ names'[n] # NoName =>
          LET c == names[n].control  d == names'[n].control IN
          names'[n].id = names[n].id =>
             d.flags \subseteq c.flags /\ (c.permanent => d.permanent)]_vars

\* In a pause no name in force is touched: not by its owner, an operator, its
\* parent or the administrator.
PauseFreezesNames ==
    [][paused => \A n \in Names : Active(n) => names'[n] = names[n]]_vars

\* A subname in force was created under the very registration of its parent
\* that is in force: none survives into the hands of the parent's next owner.
NoSubnameOutlivesItsParent ==
    \A n \in Names : Len(n) > 1 /\ Status(n) \in {"active", "grace"} =>
        names[n].pid = names[Parent(n)].id
=============================================================================
