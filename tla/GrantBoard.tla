----------------------------- MODULE GrantBoard -----------------------------
(***************************************************************************)
(* The decision engine of a grant program: package p/moul/grants.          *)
(*                                                                         *)
(* A Board is a set of members and the requests filed with it.  A request  *)
(* is a grant application, paid milestone by milestone, or a change of the *)
(* board's own composition.  Members cast one public ballot per decision;  *)
(* ballots are never erased, but only those of CURRENT members count, and  *)
(* the bar is recomputed on each ballot.  The package holds no money.      *)
(*                                                                         *)
(* Titles, bodies, reasons and block heights are left out: no guard other  *)
(* than their length limits reads them.  Each action is one exported       *)
(* method; a call the method refuses changes nothing, so refusals are the  *)
(* absence of a step.                                                      *)
(***************************************************************************)
EXTENDS Integers, FiniteSets, Sequences, SequencesExt

CONSTANTS
    Address,      \* every well-formed address
    Callers,      \* the addresses that can sign or make a call
    None,         \* the zero address: the Subject of a request that has none
    Founders,     \* the members New seats
    Specs,        \* the milestone amounts an applicant may ask for
    MaxRequests,  \* bound: requests ever filed
    MaxGrants,    \* bound: of them, applications for a grant
    MaxAttempts,  \* bound: proofs offered per milestone
    IntBits       \* the width of the package's amounts (64 in the code)

ASSUME AddressAssumption ==
    /\ IsFiniteSet(Address)
    /\ Callers \subseteq Address
    /\ Founders \subseteq Callers
    /\ Founders # {}
    /\ None \notin Address
ASSUME SpecsAssumption == Specs \subseteq Seq(Int)
ASSUME BoundAssumption ==
    MaxRequests \in Nat /\ MaxGrants \in Nat /\ MaxAttempts \in Nat /\ IntBits \in Nat \ {0}

VARIABLES
    members,   \* Board.members: the addresses that sit on the board
    requests   \* Board.requests: a request's id is its index

boardVars == <<members, requests>>

-----------------------------------------------------------------------------
(* The records. *)

MaxMilestones == 10
Answer    == {"yes", "no"}
Ballot    == [voter : Callers, answer : Answer]
Outcome   == {"review", "accepted", "refused"}
Attempt   == [reviews : Seq(Ballot), outcome : Outcome]
Milestone == [amount : Int, released : BOOLEAN, attempts : Seq(Attempt)]
Kind      == {"grant", "add", "remove"}   \* KindMember, split by its Add flag
Status    == {"pending", "approved", "rejected", "completed", "withdrawn"}
Request   == [kind : Kind, applicant : Callers, beneficiary : Address,
              milestones : Seq(Milestone), subject : Address \cup {None},
              votes : Seq(Ballot), status : Status]

Ids == DOMAIN requests

-----------------------------------------------------------------------------
(* Reading a request. *)

\* The index of the attempt still under review, 0 when there is none.
Current(m) ==
    LET n == Len(m.attempts)
    IN  IF n > 0 /\ m.attempts[n].outcome = "review" THEN n ELSE 0

Payee(r) == IF r.beneficiary \in Address THEN r.beneficiary ELSE r.applicant

\* Mutant: the subject of a membership change may vote on it.
ExcludesPartiesOnly(r, a) == r.kind = "grant" /\ (a = r.applicant \/ a = Payee(r))

\* The parties a decision is about do not vote on it.
Excludes(r, a) ==
    IF r.kind = "grant" THEN a = r.applicant \/ a = Payee(r)
                        ELSE a = r.subject

HasBallot(bs, a) == \E k \in DOMAIN bs : bs[k].voter = a

\* Mutant: any unreleased milestone is open to a proof.
IsUnreleased(r, k) == k \in DOMAIN r.milestones /\ ~ r.milestones[k].released

\* Next: k is the first unreleased milestone, the only one open to a proof.
IsNext(r, k) ==
    /\ k \in DOMAIN r.milestones
    /\ ~ r.milestones[k].released
    /\ \A j \in 1..(k-1) : r.milestones[j].released
FullyPaid(r) == \A k \in DOMAIN r.milestones : r.milestones[k].released

\* A sum of amounts in an integer of IntBits bits.
Wrap(n) == ((n + 2^(IntBits-1)) % 2^IntBits) - 2^(IntBits-1)
SumOver(S, amount(_)) == Wrap(MapThenSumSet(amount, S))

Total(r) == SumOver(DOMAIN r.milestones, LAMBDA k : r.milestones[k].amount)
Paid(r)  == SumOver({k \in DOMAIN r.milestones : r.milestones[k].released},
                    LAMBDA k : r.milestones[k].amount)
Outstanding(r) ==
    IF r.status = "approved" THEN Wrap(Total(r) - Paid(r)) ELSE 0
Committed == SumOver(Ids, LAMBDA i : Outstanding(requests[i]))
Disbursed == SumOver(Ids, LAMBDA i : Paid(requests[i]))

-----------------------------------------------------------------------------
(* Counting ballots. *)

Eligible(r) == {a \in members : ~ Excludes(r, a)}

\* Mutant: half is enough.
Half(r) == Cardinality(Eligible(r)) \div 2

\* With nobody eligible the bar is 1, which no ballot can reach.
Majority(r) ==
    LET n == Cardinality(Eligible(r)) IN IF n = 0 THEN 1 ELSE n \div 2 + 1

\* How many of these ballots give that answer and come from current members.
Standing(bs, answer) ==
    Cardinality({k \in DOMAIN bs : bs[k].voter \in members
                                   /\ bs[k].answer = answer})

Cast(bs, a, answer) == Append(bs, [voter |-> a, answer |-> answer])

\* What a list of ballots decides on r; a yes majority is looked at first.
Verdict(r, bs) ==
    IF Standing(bs, "yes") >= Majority(r) THEN "yes"
    ELSE IF Standing(bs, "no") >= Majority(r) THEN "no"
    ELSE "open"

\* Mutant: the preview forgets the ballot it is asked about.
PreviewBefore(r, bs, answer) == Verdict(r, bs)

\* The previews count the ballots cast so far and add one for the voter.
Preview(r, bs, answer) ==
    LET yes == Standing(bs, "yes") + (IF answer = "yes" THEN 1 ELSE 0)
        no  == Standing(bs, "no")  + (IF answer = "no"  THEN 1 ELSE 0)
    IN  IF yes >= Majority(r) THEN "yes"
        ELSE IF no >= Majority(r) THEN "no" ELSE "open"

\* Mutant: a member may vote again.
MayBallotAgain(r, bs, a) == a \in members /\ ~ Excludes(r, a)

MayBallot(r, bs, a) == a \in members /\ ~ Excludes(r, a) /\ ~ HasBallot(bs, a)

Decides(r, a, answer) ==
    IF r.status = "pending" /\ MayBallot(r, r.votes, a)
    THEN Preview(r, r.votes, answer) ELSE "open"

Reviews(m) == m.attempts[Current(m)].reviews

ReviewDecides(r, k, a, answer) ==
    IF /\ r.kind = "grant" /\ r.status = "approved"
       /\ k \in DOMAIN r.milestones
       /\ Current(r.milestones[k]) # 0
       /\ MayBallot(r, Reviews(r.milestones[k]), a)
    THEN Preview(r, Reviews(r.milestones[k]), answer) ELSE "open"

-----------------------------------------------------------------------------
(* The initial board and the effect of one ballot. *)

BoardInit ==
    /\ members  = Founders
    /\ requests = <<>>

File(r) ==
    /\ Len(requests) < MaxRequests
    /\ requests' = Append(requests, r)

FreshMilestone(amount) == [amount |-> amount, released |-> FALSE, attempts |-> <<>>]

NewGrant(a, to, spec) ==
    [kind |-> "grant", applicant |-> a, beneficiary |-> to,
     milestones |-> [k \in DOMAIN spec |-> FreshMilestone(spec[k])],
     subject |-> None, votes |-> <<>>, status |-> "pending"]

NewMemberChange(a, kind, subject) ==
    [kind |-> kind, applicant |-> a, beneficiary |-> a, milestones |-> <<>>,
     subject |-> subject, votes |-> <<>>, status |-> "pending"]

\* Mutant: the tally is taken before the ballot is recorded.
AfterVoteLate(r, a, answer) ==
    LET v == Verdict(r, r.votes)
    IN  [r EXCEPT !.votes  = Cast(@, a, answer),
                  !.status = CASE v = "yes" /\ r.kind = "grant" -> "approved"
                               [] v = "yes" /\ r.kind # "grant" -> "completed"
                               [] v = "no"                      -> "rejected"
                               [] OTHER                         -> "pending"]

\* r after a ballot: decided as soon as a majority stands, a membership change
\* being executed on the spot and so already completed.
AfterVote(r, a, answer) ==
    LET bs == Cast(r.votes, a, answer)
        v  == Verdict(r, bs)
    IN  [r EXCEPT !.votes  = bs,
                  !.status = CASE v = "yes" /\ r.kind = "grant" -> "approved"
                               [] v = "yes" /\ r.kind # "grant" -> "completed"
                               [] v = "no"                      -> "rejected"
                               [] OTHER                         -> "pending"]

applyMemberChange(r) ==
    IF r.kind = "add" THEN members \cup {r.subject} ELSE members \ {r.subject}

FreshAttempt == [reviews |-> <<>>, outcome |-> "review"]
\* Mutant: a new proof replaces the refused ones.
OfferedAnew(m) == [m EXCEPT !.attempts = <<FreshAttempt>>]

Offered(m) == [m EXCEPT !.attempts = Append(@, FreshAttempt)]
AfterProof(r, k) ==
    [r EXCEPT !.milestones = [@ EXCEPT ![k] = Offered(r.milestones[k])]]

\* Milestone m after one more review of its current attempt.
AfterVerdict(m, bs, v) ==
    LET outcome == CASE v = "yes" -> "accepted" [] v = "no" -> "refused"
                     [] OTHER -> "review"
    IN  [m EXCEPT !.attempts = [@ EXCEPT ![Current(m)] =
                                   [reviews |-> bs, outcome |-> outcome]],
                  !.released = @ \/ v = "yes"]

AfterReview(r, k, a, answer) ==
    LET m    == r.milestones[k]
        bs   == Cast(Reviews(m), a, answer)
        kept == [r EXCEPT !.milestones =
                    [@ EXCEPT ![k] = AfterVerdict(m, bs, Verdict(r, bs))]]
    IN  IF Verdict(r, bs) = "yes" /\ FullyPaid(kept)
        THEN [kept EXCEPT !.status = "completed"] ELSE kept

-----------------------------------------------------------------------------
(* The operations. *)

ValidSpec(spec) ==
    /\ Len(spec) \in 1..MaxMilestones
    /\ \A k \in DOMAIN spec : spec[k] > 0

\* Anyone may apply, for themselves or on behalf of a beneficiary.
SubmitFor(a, to, spec) ==
    /\ ValidSpec(spec)
    /\ Cardinality({i \in Ids : requests[i].kind = "grant"}) < MaxGrants   \* bound
    /\ File(NewGrant(a, to, spec))
    /\ UNCHANGED members

SubmitMemberChange(a, kind, subject) ==
    /\ a \in members
    /\ kind = "add"    => subject \notin members
    /\ kind = "remove" => subject \in members /\ Cardinality(members) # 1
    /\ File(NewMemberChange(a, kind, subject))
    /\ UNCHANGED members

\* Mutant: an applicant may withdraw a decided request.
WithdrawAnytime(a, i) ==
    /\ requests[i].applicant = a
    /\ requests[i].status # "withdrawn"
    /\ requests' = [requests EXCEPT ![i] = [@ EXCEPT !.status = "withdrawn"]]
    /\ UNCHANGED members

Withdraw(a, i) ==
    /\ requests[i].applicant = a
    /\ requests[i].status = "pending"
    /\ requests' = [requests EXCEPT ![i] = [@ EXCEPT !.status = "withdrawn"]]
    /\ UNCHANGED members

Vote(a, i, answer) ==
    LET r == requests[i] IN
    /\ r.status = "pending"
    /\ MayBallot(r, r.votes, a)
    /\ requests' = [requests EXCEPT ![i] = AfterVote(r, a, answer)]
    /\ members' = IF AfterVote(r, a, answer).status = "completed"
                  THEN applyMemberChange(r) ELSE members

SubmitProof(a, i, k) ==
    LET r == requests[i]
        m == r.milestones[k]
    IN
    /\ r.kind = "grant" /\ r.status = "approved"
    /\ a = r.applicant \/ a = Payee(r)
    /\ IsNext(r, k)
    /\ Current(m) = 0
    /\ Len(m.attempts) < MaxAttempts
    /\ requests' = [requests EXCEPT ![i] = AfterProof(r, k)]
    /\ UNCHANGED members

Review(a, i, k, answer) ==
    LET r == requests[i] IN
    /\ r.kind = "grant" /\ r.status = "approved"
    /\ Current(r.milestones[k]) # 0
    /\ MayBallot(r, Reviews(r.milestones[k]), a)
    /\ requests' = [requests EXCEPT ![i] = AfterReview(r, k, a, answer)]
    /\ UNCHANGED members

-----------------------------------------------------------------------------
BoardNext ==
    \/ \E a \in Callers, to \in Address, spec \in Specs : SubmitFor(a, to, spec)
    \/ \E a \in Callers, kind \in {"add", "remove"}, subject \in Address :
          SubmitMemberChange(a, kind, subject)
    \/ \E a \in Callers, i \in Ids : Withdraw(a, i)
    \/ \E a \in Callers, i \in Ids, answer \in Answer : Vote(a, i, answer)
    \/ \E a \in Callers, i \in Ids : \E k \in DOMAIN requests[i].milestones :
          SubmitProof(a, i, k)
    \/ \E a \in Callers, i \in Ids, answer \in Answer :
          \E k \in DOMAIN requests[i].milestones : Review(a, i, k, answer)

BoardSpec == BoardInit /\ [][BoardNext]_boardVars

-----------------------------------------------------------------------------
(* Properties. *)

\* Every record the board keeps is well formed.
BoardTypeOK ==
    /\ members \subseteq Address
    /\ requests \in Seq(Request)
    /\ \A i \in Ids : requests[i].subject = None <=> requests[i].kind = "grant"

\* The board never votes itself out of existence.  ErrLastMember is only
\* checked when a removal is FILED; two removals filed while the board had two
\* members could empty it, were the subject of each not barred from voting.
BoardNeverEmpty == members # {}

\* Nobody is counted twice on one decision and no party to it is counted at
\* all, also after leaving the board and coming back with an old ballot.
OneBallotEach(r, bs) ==
    \A p, q \in DOMAIN bs : /\ ~ Excludes(r, bs[p].voter)
                            /\ bs[p].voter = bs[q].voter => p = q
BallotsAreSound ==
    \A i \in Ids :
        /\ OneBallotEach(requests[i], requests[i].votes)
        /\ \A k \in DOMAIN requests[i].milestones :
              LET m == requests[i].milestones[k] IN
              \A j \in DOMAIN m.attempts :
                  OneBallotEach(requests[i], m.attempts[j].reviews)

\* Only a carried grant ever releases, in milestone order, each tranche on a
\* proof the board accepted, which is then the last offered for it; the grant
\* is complete exactly when nothing is left to release.
GrantInOrder(r) ==
    /\ r.milestones # <<>>
    /\ r.status = "completed" <=> FullyPaid(r)
    /\ \A k \in DOMAIN r.milestones :
          LET m == r.milestones[k] IN
          /\ m.released <=> \E j \in DOMAIN m.attempts :
                               m.attempts[j].outcome = "accepted"
          /\ \A j \in DOMAIN m.attempts :
                m.attempts[j].outcome # "refused" => j = Len(m.attempts)
          /\ m.attempts # <<>> =>
                /\ r.status \in {"approved", "completed"}
                /\ \A j \in 1..(k-1) : r.milestones[j].released
ReleasedInOrder ==
    \A i \in Ids : requests[i].kind = "grant" => GrantInOrder(requests[i])

\* A request is carried by more than half of the members who may vote on it, each
\* counted once, whatever joined or left the board since their ballots.
YesVoters(bs) == {a \in members : \E k \in DOMAIN bs :
                                     bs[k].voter = a /\ bs[k].answer = "yes"}
Carried(r, bs) ==
    2 * Cardinality(YesVoters(bs) \cap Eligible(r)) > Cardinality(Eligible(r))
CarriedStep ==
    \A i \in Ids :
      /\ requests[i].status = "pending"
      /\ requests'[i].status \in {"approved", "completed"}
      => Carried(requests[i], requests'[i].votes)
\* The requests that a step changes: the others keep every word.
Changed == {i \in Ids : requests'[i] # requests[i]}

\* The same of a tranche: it is released by a majority of the members who may
\* judge the proof, counted at the ballot that released it.
EarnedStep ==
    \A i \in Changed : \A k \in DOMAIN requests[i].milestones :
      LET m == requests[i].milestones[k]  n == requests'[i].milestones[k] IN
      ~ m.released /\ n.released
      => Carried(requests[i], Last(n.attempts).reviews)

\* Whatever the board decides for, a request or the release of a tranche, more
\* than half of those entitled to decide it at that moment are for it.
DecidedByMajority == [][CarriedStep /\ EarnedStep]_boardVars

\* The previews a realm relies on before it records anything say exactly what
\* the ballot then does.
PreviewStep ==
    \A i \in Changed :
      LET r == requests[i]  s == requests'[i] IN
      /\ Len(s.votes) > Len(r.votes) =>
            Decides(r, Last(s.votes).voter, Last(s.votes).answer) =
            CASE s.status \in {"approved", "completed"} -> "yes"
              [] s.status = "rejected" -> "no"
              [] OTHER -> "open"
      /\ \A k \in DOMAIN r.milestones :
            LET m == r.milestones[k]  n == s.milestones[k] IN
            Current(m) # 0 /\ n # m =>
              LET b == Last(n.attempts[Current(m)].reviews) IN
              ReviewDecides(r, k, b.voter, b.answer) =
              CASE n.attempts[Current(m)].outcome = "accepted" -> "yes"
                [] n.attempts[Current(m)].outcome = "refused" -> "no"
                [] OTHER -> "open"
PreviewsAgree == [][PreviewStep]_boardVars

\* What the board has said stays said: a decided request is final but for an
\* approved grant completing, and no ballot, review or attempt is rewritten.
PermanentStep ==
    \A i \in Changed :
      LET r == requests[i]  s == requests'[i] IN
      /\ r.status # "pending" => \/ s.status = r.status
                                 \/ r.status = "approved" /\ s.status = "completed"
      /\ IsPrefix(r.votes, s.votes)
      /\ r.status # "pending" => s.votes = r.votes
      /\ \A k \in DOMAIN r.milestones :
            LET m == r.milestones[k]  n == s.milestones[k] IN
            /\ m.released => n = m
            /\ \A j \in DOMAIN m.attempts :
                  /\ IsPrefix(m.attempts[j].reviews, n.attempts[j].reviews)
                  /\ m.attempts[j].outcome # "review" =>
                        n.attempts[j] = m.attempts[j]
RecordsArePermanent == [][PermanentStep]_boardVars

\* Only a change of the board can leave a pending request with a majority that
\* nobody acted on (a removal lowers the bar, a return revives a ballot): the
\* tally is taken on a ballot and at no other time.
MajorityStands(i) == Verdict(requests[i], requests[i].votes) # "open"
MissedStep ==
    \A i \in Ids :
      /\ requests[i].status = "pending" /\ requests'[i].status = "pending"
      /\ ~ MajorityStands(i) /\ MajorityStands(i)'
      => members' # members
MajorityMissedOnlyByMembership == [][MissedStep]_boardVars
=============================================================================
