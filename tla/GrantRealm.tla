----------------------------- MODULE GrantRealm -----------------------------
(***************************************************************************)
(* The realm r/moul/grant: a Board, the ledger of donations and payments   *)
(* around it (grants.Program) and the coins of the realm's own address.    *)
(*                                                                         *)
(* A transaction is atomic: a panic undoes all of it, so each exported     *)
(* function is one action and a refused call is no step.  The bank is the  *)
(* chain's: coins may reach the treasury with a call to Fund, which names  *)
(* the donor, or by a plain transfer, which does not.                      *)
(***************************************************************************)
EXTENDS GrantBoard, Functions

CONSTANTS
    Treasury,     \* the realm's own address; it makes no call to itself
    Deposits,     \* the amounts a donor may send
    MaxReceived   \* bound: coins ever received

ASSUME TreasuryAssumption == Treasury \in Address \ Callers
ASSUME DepositsAssumption == Deposits \subseteq Nat /\ MaxReceived \in Nat

VARIABLES
    treasury,   \* the balance of the realm's address, kept by the bank
    payments,   \* Program.Payments, the ledger of released tranches
    raised,     \* Raised(): the sum of Program.Donations
    received    \* history: every coin that ever arrived from outside

moneyVars == <<treasury, payments, raised, received>>
vars == <<members, requests, treasury, payments, raised, received>>

Payment == [request : Nat, milestone : Nat, to : Address, amount : Int]

\* Tranche k of request r, filed under id i, as the payment it is or will be.
Tranche(i, r, k) ==
    [request |-> i, milestone |-> k, to |-> Payee(r),
     amount |-> r.milestones[k].amount]

-----------------------------------------------------------------------------
Init ==
    /\ BoardInit
    /\ treasury = 0
    /\ payments = <<>>
    /\ raised = 0
    /\ received = 0

Receive(amount) ==
    /\ received + amount <= MaxReceived
    /\ received' = received + amount
    /\ treasury' = treasury + amount

\* A call of Fund with coins attached; a call with none panics.
Fund(amount) ==
    /\ amount > 0
    /\ Receive(amount)
    /\ raised' = raised + amount
    /\ UNCHANGED <<members, requests, payments>>

\* A plain transfer to the realm's address.
BankSend(amount) ==
    /\ amount > 0
    /\ Receive(amount)
    /\ UNCHANGED <<members, requests, payments, raised>>

ApplyFor(a, to, spec)          == SubmitFor(a, to, spec) /\ UNCHANGED moneyVars
Apply(a, spec)                 == ApplyFor(a, a, spec)
ProposeMember(a, kind, subject) ==
    SubmitMemberChange(a, kind, subject) /\ UNCHANGED moneyVars
Retract(a, i)                  == Withdraw(a, i) /\ UNCHANGED moneyVars
CastVote(a, i, answer)         == Vote(a, i, answer) /\ UNCHANGED moneyVars
OfferProof(a, i, k)            == SubmitProof(a, i, k) /\ UNCHANGED moneyVars

\* The program refuses up front a verdict that would release more than the
\* treasury holds.
Covered(i, k, a, answer) ==
    ReviewDecides(requests[i], k, a, answer) = "yes"
        => treasury >= requests[i].milestones[k].amount

\* Mutant: any review pays, whatever the verdict.
JudgeProofAnyway(a, i, k, answer) ==
    /\ Review(a, i, k, answer)
    /\ Covered(i, k, a, answer)
    /\ payments' = Append(payments, Tranche(i, requests[i], k))
    /\ UNCHANGED <<treasury, raised, received>>

\* The verdict that carries also pays the tranche, in the same transaction.
JudgeProof(a, i, k, answer) ==
    /\ Review(a, i, k, answer)
    /\ Covered(i, k, a, answer)
    /\ IF requests'[i].milestones[k].released
       THEN LET t == Tranche(i, requests[i], k) IN
            /\ payments' = Append(payments, t)
            /\ treasury' = IF t.to = Treasury THEN treasury
                                              ELSE treasury - t.amount
       ELSE UNCHANGED <<payments, treasury>>
    /\ UNCHANGED <<raised, received>>

Next ==
    \/ \E amount \in Deposits : Fund(amount) \/ BankSend(amount)
    \/ \E a \in Callers, spec \in Specs : Apply(a, spec)
    \/ \E a \in Callers, to \in Address, spec \in Specs : ApplyFor(a, to, spec)
    \/ \E a \in Callers, kind \in {"add", "remove"}, subject \in Address :
          ProposeMember(a, kind, subject)
    \/ \E a \in Callers, i \in Ids : Retract(a, i)
    \/ \E a \in Callers, i \in Ids, answer \in Answer : CastVote(a, i, answer)
    \/ \E a \in Callers, i \in Ids : \E k \in DOMAIN requests[i].milestones :
          OfferProof(a, i, k)
    \/ \E a \in Callers, i \in Ids, answer \in Answer :
          \E k \in DOMAIN requests[i].milestones : JudgeProof(a, i, k, answer)

Spec == Init /\ [][Next]_vars

-----------------------------------------------------------------------------
(* Properties. *)

\* The board's records and the realm's amounts are well formed.
RealmTypeOK ==
    /\ BoardTypeOK
    /\ treasury \in Int /\ raised \in Int /\ received \in Int
    /\ payments \in Seq(Payment)

\* The tranches of all requests of which a condition holds.
TranchesWhere(reqs, Test(_, _)) ==
    UNION {{Tranche(i, reqs[i], k) :
                k \in {k \in DOMAIN reqs[i].milestones : Test(reqs[i], k)}}
              : i \in DOMAIN reqs}

ReleasedIn(reqs) == TranchesWhere(reqs, LAMBDA r, k : r.milestones[k].released)
PromisedIn(reqs) ==
    TranchesWhere(reqs, LAMBDA r, k : r.status \in {"approved", "completed"})

\* The payment ledger and the released milestones say the same thing: each
\* release was paid once, in full, to the payee, and nothing else was.
PaidExactlyOnce ==
    /\ ToSet(payments) = ReleasedIn(requests)
    /\ \A p, q \in DOMAIN payments :
          /\ payments[p].request = payments[q].request
          /\ payments[p].milestone = payments[q].milestone
          => p = q

\* The treasury is never overdrawn, although the board may approve more than it
\* holds: the preview asks for the coins before the verdict is recorded.
Solvent == treasury >= 0

\* No coin appears or disappears: what is not in the treasury was paid out.
Outflow(t) == IF t.to = Treasury THEN 0 ELSE t.amount
PaidOut == SumFunction([p \in DOMAIN payments |-> Outflow(payments[p])])
Conservation ==
    /\ treasury = received - PaidOut
    /\ raised <= received

\* A tranche is paid when, and only when, it is released, out of coins that are
\* there, and the books add up to the last coin, also when the payee is the
\* treasury itself.
PaysWhatItHas == PaidExactlyOnce /\ Solvent /\ Conservation

\* The realm keeps the promises of a grant treasury.
Ledger == INSTANCE GrantTreasury
            WITH pot      <- treasury,
                 promised <- PromisedIn(requests),
                 paid     <- ToSet(payments)
KeepsPromises == Ledger!Spec

\* A treasury at or above Committed can pay whichever tranche is released next
\* (the documentation of Committed, grants.gno:424-425).
CommittedCoversNext ==
    treasury >= Committed =>
        \A i \in Ids : requests[i].status = "approved" =>
            \A k \in DOMAIN requests[i].milestones :
                IsNext(requests[i], k) =>
                    treasury >= requests[i].milestones[k].amount
=============================================================================
