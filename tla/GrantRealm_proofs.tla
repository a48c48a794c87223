-------------------------- MODULE GrantRealm_proofs --------------------------
(***************************************************************************)
(* What holds of a grant board, and of the money of a grant program, for   *)
(* every set of addresses, every spec, every deposit and every bound.  The *)
(* realm takes only steps of its board, so all that is proved of boards    *)
(* holds of it.                                                            *)
(***************************************************************************)
EXTENDS GrantRealm, SequenceTheorems, Sums

-----------------------------------------------------------------------------
(* The records an operation builds are well formed. *)

LEMMA NewGrantType ==
    ASSUME NEW a \in Callers, NEW to \in Address, NEW spec \in Specs
    PROVE  NewGrant(a, to, spec) \in Request
<1>1. spec \in Seq(Int)
  BY SpecsAssumption
<1>2. \A x \in Int : FreshMilestone(x) \in Milestone
  <2>1. <<>> \in Seq(Attempt)
    OBVIOUS
  <2> QED BY <2>1 DEF FreshMilestone, Milestone
<1>3. [k \in DOMAIN spec |-> FreshMilestone(spec[k])] \in Seq(Milestone)
  <2>1. DOMAIN spec = 1..Len(spec) /\ Len(spec) \in Nat
    BY <1>1
  <2>2. \A k \in 1..Len(spec) : FreshMilestone(spec[k]) \in Milestone
    BY <1>1, <1>2
  <2> QED BY <2>1, <2>2
<1>4. <<>> \in Seq(Ballot)
  OBVIOUS
<1> QED BY <1>3, <1>4 DEF NewGrant, Request, Kind, Status

LEMMA NewMemberChangeType ==
    ASSUME NEW a \in Callers, NEW kind \in {"add", "remove"}, NEW subject \in Address
    PROVE  NewMemberChange(a, kind, subject) \in Request
<1>1. a \in Address
  BY AddressAssumption
<1>2. <<>> \in Seq(Milestone) /\ <<>> \in Seq(Ballot)
  OBVIOUS
<1> QED BY <1>1, <1>2 DEF NewMemberChange, Request, Kind, Status

LEMMA CastType ==
    ASSUME NEW bs \in Seq(Ballot), NEW a \in Callers, NEW answer \in Answer
    PROVE  /\ Cast(bs, a, answer) \in Seq(Ballot)
           /\ Len(Cast(bs, a, answer)) = Len(bs) + 1
           /\ \A k \in 1..Len(bs) : Cast(bs, a, answer)[k] = bs[k]
           /\ Cast(bs, a, answer)[Len(bs) + 1] = [voter |-> a, answer |-> answer]
<1>1. [voter |-> a, answer |-> answer] \in Ballot
  BY DEF Ballot
<1> QED BY <1>1 DEF Cast

LEMMA AfterVoteType ==
    ASSUME NEW r \in Request, NEW a \in Callers, NEW answer \in Answer
    PROVE  AfterVote(r, a, answer) \in Request
<1>1. Cast(r.votes, a, answer) \in Seq(Ballot)
  BY CastType DEF Request
<1> QED BY <1>1 DEF AfterVote, Request, Status, Kind

\* The current attempt, when there is one, is the last and is under review.
LEMMA CurrentIndex ==
    ASSUME NEW m \in Milestone
    PROVE  /\ Current(m) \in Nat
           /\ Current(m) # 0 =>
                /\ Current(m) = Len(m.attempts)
                /\ Current(m) \in DOMAIN m.attempts
                /\ m.attempts[Current(m)].outcome = "review"
                /\ Reviews(m) \in Seq(Ballot)
<1>1. m.attempts \in Seq(Attempt)
  BY DEF Milestone
<1>2. Current(m) # 0 => Current(m) = Len(m.attempts) /\ Len(m.attempts) > 0
                        /\ m.attempts[Current(m)].outcome = "review"
  BY <1>1 DEF Current
<1>3. Current(m) # 0 => m.attempts[Current(m)] \in Attempt
  BY <1>1, <1>2
<1> QED BY <1>1, <1>2, <1>3 DEF Current, Reviews, Attempt

LEMMA AfterVerdictType ==
    ASSUME NEW m \in Milestone, Current(m) # 0, NEW bs \in Seq(Ballot), NEW v
    PROVE  AfterVerdict(m, bs, v) \in Milestone
<1> DEFINE outcome == CASE v = "yes" -> "accepted" [] v = "no" -> "refused"
                        [] OTHER -> "review"
           x == [reviews |-> bs, outcome |-> outcome]
<1>1. x \in Attempt
  BY DEF Attempt, Outcome
<1>2. m.attempts \in Seq(Attempt) /\ Current(m) \in 1..Len(m.attempts)
  BY CurrentIndex DEF Milestone
<1>3. [m.attempts EXCEPT ![Current(m)] = x] \in Seq(Attempt)
  BY <1>1, <1>2, ExceptSeq
<1> QED BY <1>3 DEF AfterVerdict, Milestone

LEMMA AfterReviewType ==
    ASSUME NEW r \in Request, NEW k \in DOMAIN r.milestones,
           Current(r.milestones[k]) # 0, NEW a \in Callers, NEW answer \in Answer
    PROVE  AfterReview(r, k, a, answer) \in Request
<1> DEFINE m == r.milestones[k]
           bs == Cast(Reviews(m), a, answer)
           n == AfterVerdict(m, bs, Verdict(r, bs))
<1>1. r.milestones \in Seq(Milestone) /\ k \in 1..Len(r.milestones)
  BY DEF Request
<1>2. m \in Milestone
  BY <1>1
<1>3. n \in Milestone
  BY <1>2, CurrentIndex, CastType, AfterVerdictType
<1>4. [r.milestones EXCEPT ![k] = n] \in Seq(Milestone)
  BY <1>1, <1>3, ExceptSeq
<1>5. [r EXCEPT !.milestones = [r.milestones EXCEPT ![k] = n]] \in Request
  BY <1>4 DEF Request
<1>6. \A q \in Request : [q EXCEPT !.status = "completed"] \in Request
  BY DEF Request, Status
<1> QED BY <1>5, <1>6 DEF AfterReview

LEMMA OfferedType ==
    ASSUME NEW m \in Milestone
    PROVE  Offered(m) \in Milestone
<1>1. <<>> \in Seq(Ballot)
  OBVIOUS
<1>2. FreshAttempt \in Attempt
  BY <1>1 DEF FreshAttempt, Attempt, Outcome
<1>3. Append(m.attempts, FreshAttempt) \in Seq(Attempt)
  BY <1>2 DEF Milestone
<1> QED BY <1>3 DEF Offered, Milestone

LEMMA AfterProofType ==
    ASSUME NEW r \in Request, NEW k \in DOMAIN r.milestones
    PROVE  AfterProof(r, k) \in Request
<1>1. r.milestones \in Seq(Milestone) /\ k \in 1..Len(r.milestones)
  BY DEF Request
<1>2. Offered(r.milestones[k]) \in Milestone
  BY <1>1, OfferedType
<1>3. [r.milestones EXCEPT ![k] = Offered(r.milestones[k])] \in Seq(Milestone)
  BY <1>1, <1>2, ExceptSeq
<1> QED BY <1>3 DEF AfterProof, Request

-----------------------------------------------------------------------------
(* Type correctness. *)

LEMMA RequestOfId ==
    ASSUME requests \in Seq(Request), NEW i \in Ids
    PROVE  /\ requests[i] \in Request
           /\ requests[i].milestones \in Seq(Milestone)
           /\ requests[i].votes \in Seq(Ballot)
           /\ \A k \in DOMAIN requests[i].milestones :
                 requests[i].milestones[k] \in Milestone
<1>1. requests[i] \in Request
  BY DEF Ids
<1> QED BY <1>1 DEF Request

\* Filing appends a request and leaves the others alone.
LEMMA FileEffect ==
    ASSUME requests \in Seq(Request), NEW r \in Request, File(r)
    PROVE  /\ requests' \in Seq(Request)
           /\ Ids' = Ids \cup {Len(requests) + 1}
           /\ Len(requests) + 1 \notin Ids
           /\ \A j \in Ids : requests'[j] = requests[j]
           /\ requests'[Len(requests) + 1] = r
BY DEF File, Ids

\* So does every other operation: it replaces the request of one id.
LEMMA ReplaceEffect ==
    ASSUME requests \in Seq(Request), NEW i \in Ids, NEW s \in Request,
           requests' = [requests EXCEPT ![i] = s]
    PROVE  /\ requests' \in Seq(Request)
           /\ Ids' = Ids
           /\ \A j \in Ids : requests'[j] = IF j = i THEN s ELSE requests[j]
<1>1. i \in 1..Len(requests)
  BY DEF Ids
<1> QED BY <1>1, ExceptSeq DEF Ids

\* What the operations that replace a request never touch.
SameGrant(r, s) ==
    /\ s.kind = r.kind /\ s.subject = r.subject
    /\ s.applicant = r.applicant /\ s.beneficiary = r.beneficiary

LEMMA AfterVoteKeeps ==
    ASSUME NEW r \in Request, NEW a, NEW answer
    PROVE  /\ SameGrant(r, AfterVote(r, a, answer))
           /\ AfterVote(r, a, answer).milestones = r.milestones
           /\ AfterVote(r, a, answer).votes = Cast(r.votes, a, answer)
BY DEF AfterVote, Request, SameGrant

LEMMA AfterProofKeeps ==
    ASSUME NEW r \in Request, NEW k \in DOMAIN r.milestones
    PROVE  LET s == AfterProof(r, k) IN
           /\ SameGrant(r, s) /\ s.status = r.status /\ s.votes = r.votes
           /\ DOMAIN s.milestones = DOMAIN r.milestones
           /\ \A j \in DOMAIN r.milestones :
                 s.milestones[j] = IF j = k THEN Offered(r.milestones[k])
                                   ELSE r.milestones[j]
<1>1. r.milestones \in Seq(Milestone) /\ k \in 1..Len(r.milestones)
  BY DEF Request
<1> QED BY <1>1 DEF AfterProof, Request, SameGrant

LEMMA AfterReviewKeeps ==
    ASSUME NEW r \in Request, NEW k \in DOMAIN r.milestones, NEW a, NEW answer
    PROVE  LET s  == AfterReview(r, k, a, answer)
               bs == Cast(Reviews(r.milestones[k]), a, answer)
               v  == Verdict(r, bs)
           IN
           /\ SameGrant(r, s) /\ s.votes = r.votes
           /\ DOMAIN s.milestones = DOMAIN r.milestones
           /\ \A j \in DOMAIN r.milestones :
                 s.milestones[j] = IF j = k THEN AfterVerdict(r.milestones[k], bs, v)
                                   ELSE r.milestones[j]
           /\ s.status = IF v = "yes" /\ FullyPaid(s) THEN "completed" ELSE r.status
<1> DEFINE bs == Cast(Reviews(r.milestones[k]), a, answer)
           n == AfterVerdict(r.milestones[k], bs, Verdict(r, bs))
           kept == [r EXCEPT !.milestones = [r.milestones EXCEPT ![k] = n]]
           s == AfterReview(r, k, a, answer)
<1>1. r.milestones \in Seq(Milestone) /\ k \in 1..Len(r.milestones)
  BY DEF Request
<1>2. s = IF Verdict(r, bs) = "yes" /\ FullyPaid(kept)
          THEN [kept EXCEPT !.status = "completed"] ELSE kept
  BY DEF AfterReview
<1>3. s.milestones = [r.milestones EXCEPT ![k] = n]
  BY <1>2 DEF Request
<1>4. FullyPaid(s) <=> FullyPaid(kept)
  BY <1>3 DEF FullyPaid, Request
<1>5. SameGrant(r, s) /\ s.votes = r.votes
  BY <1>2 DEF Request, SameGrant
<1>6. s.status = IF Verdict(r, bs) = "yes" /\ FullyPaid(s) THEN "completed" ELSE r.status
  BY <1>2, <1>4 DEF Request
<1> HIDE DEF s, n
<1>7. \A j \in DOMAIN r.milestones :
        s.milestones[j] = IF j = k THEN n ELSE r.milestones[j]
  BY <1>1, <1>3
<1>8. DOMAIN s.milestones = DOMAIN r.milestones
  BY <1>1, <1>3
<1> QED BY <1>5, <1>6, <1>7, <1>8 DEF s, n

-----------------------------------------------------------------------------
(* The effect of each operation, in terms of the requests it leaves. *)

\* Every old request but the one of id i is unchanged, which becomes s.
Becomes(i, s) ==
    /\ Ids' = Ids
    /\ \A j \in Ids : requests'[j] = IF j = i THEN s ELSE requests[j]

LEMMA FileKeepsType ==
    ASSUME BoardTypeOK, NEW r \in Request, File(r), UNCHANGED members,
           r.subject = None <=> r.kind = "grant"
    PROVE  BoardTypeOK'
<1>1. \A j \in Ids' : requests'[j].subject = None <=> requests'[j].kind = "grant"
  BY FileEffect DEF BoardTypeOK
<1> QED BY <1>1, FileEffect DEF BoardTypeOK

LEMMA ReplaceKeepsType ==
    ASSUME BoardTypeOK, NEW i \in Ids, NEW s \in Request,
           requests' = [requests EXCEPT ![i] = s],
           SameGrant(requests[i], s), members' \subseteq Address
    PROVE  BoardTypeOK' /\ Becomes(i, s)
<1>1. Becomes(i, s) /\ requests' \in Seq(Request)
  BY ReplaceEffect DEF BoardTypeOK, Becomes
<1>2. \A j \in Ids' : requests'[j].subject = None <=> requests'[j].kind = "grant"
  BY <1>1 DEF BoardTypeOK, Becomes, SameGrant
<1> QED BY <1>1, <1>2 DEF BoardTypeOK

LEMMA SubmitForEffect ==
    ASSUME BoardTypeOK, NEW a \in Callers, NEW to \in Address, NEW spec \in Specs,
           SubmitFor(a, to, spec)
    PROVE  BoardTypeOK' /\ File(NewGrant(a, to, spec)) /\ members' = members
<1>1. NewGrant(a, to, spec).subject = None /\ NewGrant(a, to, spec).kind = "grant"
  BY DEF NewGrant
<1> QED BY <1>1, NewGrantType, FileKeepsType DEF SubmitFor

LEMMA SubmitMemberChangeEffect ==
    ASSUME BoardTypeOK, NEW a \in Callers, NEW kind \in {"add", "remove"},
           NEW subject \in Address, SubmitMemberChange(a, kind, subject)
    PROVE  /\ BoardTypeOK' /\ members' = members
           /\ File(NewMemberChange(a, kind, subject))
<1>1. /\ NewMemberChange(a, kind, subject).subject # None
      /\ NewMemberChange(a, kind, subject).kind # "grant"
  BY AddressAssumption DEF NewMemberChange
<1> QED BY <1>1, NewMemberChangeType, FileKeepsType DEF SubmitMemberChange

LEMMA WithdrawEffect ==
    ASSUME BoardTypeOK, NEW a \in Callers, NEW i \in Ids, Withdraw(a, i)
    PROVE  /\ BoardTypeOK' /\ members' = members
           /\ requests[i].status = "pending"
           /\ Becomes(i, [requests[i] EXCEPT !.status = "withdrawn"])
<1>1. requests[i] \in Request
  BY RequestOfId DEF BoardTypeOK
<1>2. [requests[i] EXCEPT !.status = "withdrawn"] \in Request
  BY <1>1 DEF Request, Status
<1>3. SameGrant(requests[i], [requests[i] EXCEPT !.status = "withdrawn"])
  BY <1>1 DEF Request, SameGrant
<1> QED BY <1>2, <1>3, ReplaceKeepsType DEF Withdraw, BoardTypeOK

LEMMA VoteEffect ==
    ASSUME BoardTypeOK, NEW a \in Callers, NEW i \in Ids, NEW answer \in Answer,
           Vote(a, i, answer)
    PROVE  /\ BoardTypeOK'
           /\ requests[i].status = "pending"
           /\ MayBallot(requests[i], requests[i].votes, a)
           /\ Becomes(i, AfterVote(requests[i], a, answer))
<1> DEFINE r == requests[i]
           s == AfterVote(r, a, answer)
<1>1. r \in Request /\ s \in Request /\ SameGrant(r, s)
  BY RequestOfId, AfterVoteType, AfterVoteKeeps DEF BoardTypeOK
<1>2. s.status = "completed" => r.kind # "grant"
  BY <1>1 DEF AfterVote, Request
<1>3. members' \subseteq Address
  BY <1>1, <1>2 DEF Vote, applyMemberChange, BoardTypeOK, Request
<1>4. requests' = [requests EXCEPT ![i] = s]
  BY DEF Vote
<1> HIDE DEF s
<1>5. BoardTypeOK' /\ Becomes(i, s)
  BY <1>1, <1>3, <1>4, ReplaceKeepsType
<1> QED BY <1>5 DEF Vote, s

LEMMA SubmitProofEffect ==
    ASSUME BoardTypeOK, NEW a \in Callers, NEW i \in Ids,
           NEW k \in DOMAIN requests[i].milestones, SubmitProof(a, i, k)
    PROVE  /\ BoardTypeOK' /\ members' = members
           /\ requests[i].kind = "grant" /\ requests[i].status = "approved"
           /\ IsNext(requests[i], k) /\ Current(requests[i].milestones[k]) = 0
           /\ Becomes(i, AfterProof(requests[i], k))
<1>1. requests[i] \in Request
  BY RequestOfId DEF BoardTypeOK
<1>2. AfterProof(requests[i], k) \in Request
  BY <1>1, AfterProofType
<1>3. SameGrant(requests[i], AfterProof(requests[i], k))
  BY <1>1, AfterProofKeeps
<1> QED BY <1>2, <1>3, ReplaceKeepsType DEF SubmitProof, BoardTypeOK

LEMMA ReviewEffect ==
    ASSUME BoardTypeOK, NEW a \in Callers, NEW i \in Ids, NEW answer \in Answer,
           NEW k \in DOMAIN requests[i].milestones, Review(a, i, k, answer)
    PROVE  /\ BoardTypeOK' /\ members' = members
           /\ requests[i].kind = "grant" /\ requests[i].status = "approved"
           /\ Current(requests[i].milestones[k]) # 0
           /\ MayBallot(requests[i], Reviews(requests[i].milestones[k]), a)
           /\ Becomes(i, AfterReview(requests[i], k, a, answer))
<1>1. requests[i] \in Request /\ Current(requests[i].milestones[k]) # 0
  BY RequestOfId DEF BoardTypeOK, Review
<1>2. AfterReview(requests[i], k, a, answer) \in Request
  BY <1>1, AfterReviewType
<1>3. SameGrant(requests[i], AfterReview(requests[i], k, a, answer))
  BY <1>1, AfterReviewKeeps
<1> QED BY <1>1, <1>2, <1>3, ReplaceKeepsType DEF Review, BoardTypeOK

-----------------------------------------------------------------------------
(* Type correctness, and the board that is never empty. *)

LEMMA BoardTypeInit == BoardInit => BoardTypeOK
<1>1. <<>> \in Seq(Request) /\ DOMAIN <<>> = {}
  OBVIOUS
<1> QED BY <1>1, AddressAssumption DEF BoardInit, BoardTypeOK, Ids

LEMMA BoardTypeStep == BoardTypeOK /\ [BoardNext]_boardVars => BoardTypeOK'
<1> SUFFICES ASSUME BoardTypeOK, [BoardNext]_boardVars
             PROVE  BoardTypeOK'
  OBVIOUS
<1>1. CASE UNCHANGED boardVars
  BY <1>1 DEF boardVars, BoardTypeOK, Ids
<1>2. CASE BoardNext
  BY <1>2, SubmitForEffect, SubmitMemberChangeEffect, WithdrawEffect, VoteEffect,
     SubmitProofEffect, ReviewEffect DEF BoardNext
<1> QED BY <1>1, <1>2

\* Every record the board keeps is well formed, for any board.
THEOREM BoardTypeCorrect == BoardSpec => []BoardTypeOK
BY BoardTypeInit, BoardTypeStep, PTL DEF BoardSpec

\* A removal is carried by a ballot of a current member who is not its subject,
\* so whoever carried it still sits on the board.
LEMMA NeverEmptyStep ==
    BoardTypeOK /\ BoardNeverEmpty /\ [BoardNext]_boardVars => BoardNeverEmpty'
<1> SUFFICES ASSUME BoardTypeOK, BoardNeverEmpty, [BoardNext]_boardVars
             PROVE  BoardNeverEmpty'
  OBVIOUS
<1>1. ASSUME NEW a \in Callers, NEW i \in Ids, NEW answer \in Answer,
             Vote(a, i, answer)
      PROVE  BoardNeverEmpty'
  <2> DEFINE r == requests[i]
  <2>1. r \in Request /\ a \in members /\ ~ Excludes(r, a)
    BY <1>1, RequestOfId, VoteEffect DEF BoardTypeOK, MayBallot
  <2>2. AfterVote(r, a, answer).status = "completed" => r.kind # "grant"
    BY <2>1 DEF AfterVote, Request
  <2>3. r.kind # "grant" => a # r.subject
    BY <2>1 DEF Excludes
  <2>4. a \in members'
    BY <1>1, <2>1, <2>2, <2>3 DEF Vote, applyMemberChange
  <2> QED BY <2>4 DEF BoardNeverEmpty
<1>2. CASE UNCHANGED members
  BY <1>2 DEF BoardNeverEmpty
<1> QED
  BY <1>1, <1>2 DEF BoardNext, boardVars, SubmitFor, SubmitMemberChange, Withdraw,
     SubmitProof, Review

\* No sequence of removals, whenever they were filed, leaves a board of nobody.
THEOREM BoardIsNeverEmpty == BoardSpec => []BoardNeverEmpty
<1>1. BoardInit => BoardNeverEmpty
  BY AddressAssumption DEF BoardInit, BoardNeverEmpty
<1> QED BY <1>1, NeverEmptyStep, BoardTypeCorrect, PTL DEF BoardSpec

-----------------------------------------------------------------------------
(* One ballot each. *)

LEMMA CastOneBallotEach ==
    ASSUME NEW r, NEW bs \in Seq(Ballot), NEW a \in Callers, NEW answer \in Answer,
           OneBallotEach(r, bs), ~ Excludes(r, a), ~ HasBallot(bs, a)
    PROVE  OneBallotEach(r, Cast(bs, a, answer))
<1> DEFINE c == Cast(bs, a, answer)
<1>1. /\ DOMAIN bs = 1..Len(bs) /\ Len(bs) \in Nat
      /\ DOMAIN c = 1..(Len(bs) + 1)
  BY CastType, LenProperties
<1>2. /\ \A k \in DOMAIN bs : c[k] = bs[k]
      /\ c[Len(bs) + 1] = [voter |-> a, answer |-> answer]
  <2>1. /\ \A k \in 1..Len(bs) : c[k] = bs[k]
        /\ c[Len(bs) + 1] = [voter |-> a, answer |-> answer]
    BY CastType
  <2> QED BY <1>1, <2>1
<1>3. \A k \in DOMAIN bs : bs[k].voter # a
  BY DEF HasBallot
<1>4. c[Len(bs) + 1].voter = a
  BY <1>2
<1> HIDE DEF c
<1>5. \A k \in DOMAIN c : k \in DOMAIN bs \/ k = Len(bs) + 1
  BY <1>1
<1>6. OneBallotEach(r, c)
  BY <1>2, <1>3, <1>4, <1>5 DEF OneBallotEach
<1> QED BY <1>6 DEF c

\* Who is a party to a decision never changes.
LEMMA SamePartiesSoundBallots ==
    ASSUME NEW r \in Request, NEW s \in Request, SameGrant(r, s), NEW bs
    PROVE  OneBallotEach(r, bs) <=> OneBallotEach(s, bs)
BY DEF OneBallotEach, Excludes, Payee, SameGrant

LEMMA AfterVerdictKeeps ==
    ASSUME NEW m \in Milestone, Current(m) # 0, NEW bs \in Seq(Ballot), NEW v
    PROVE  LET n == AfterVerdict(m, bs, v) IN
           /\ n.amount = m.amount
           /\ n.released = (m.released \/ v = "yes")
           /\ Len(n.attempts) = Len(m.attempts)
           /\ DOMAIN n.attempts = DOMAIN m.attempts
           /\ \A j \in DOMAIN m.attempts :
                 j # Current(m) => n.attempts[j] = m.attempts[j]
           /\ n.attempts[Current(m)].reviews = bs
           /\ n.attempts[Current(m)].outcome =
                 IF v = "yes" THEN "accepted"
                 ELSE IF v = "no" THEN "refused" ELSE "review"
<1>1. m.attempts \in Seq(Attempt) /\ Current(m) \in 1..Len(m.attempts)
  BY CurrentIndex DEF Milestone
<1> QED BY <1>1 DEF AfterVerdict, Milestone

LEMMA OfferedKeeps ==
    ASSUME NEW m \in Milestone
    PROVE  LET n == Offered(m) IN
           /\ n.amount = m.amount /\ n.released = m.released
           /\ Len(n.attempts) = Len(m.attempts) + 1
           /\ DOMAIN n.attempts = 1..(Len(m.attempts) + 1)
           /\ DOMAIN m.attempts = 1..Len(m.attempts)
           /\ \A j \in DOMAIN m.attempts : n.attempts[j] = m.attempts[j]
           /\ n.attempts[Len(m.attempts) + 1] = FreshAttempt
<1>1. m.attempts \in Seq(Attempt)
  BY DEF Milestone
<1> QED BY <1>1 DEF Offered, Milestone

\* BallotsAreSound for one request.
SoundRequest(r) ==
    /\ OneBallotEach(r, r.votes)
    /\ \A k \in DOMAIN r.milestones : \A j \in DOMAIN r.milestones[k].attempts :
          OneBallotEach(r, r.milestones[k].attempts[j].reviews)

LEMMA SoundVote ==
    ASSUME NEW r \in Request, NEW a \in Callers, NEW answer \in Answer,
           SoundRequest(r), MayBallot(r, r.votes, a)
    PROVE  SoundRequest(AfterVote(r, a, answer))
<1> DEFINE s == AfterVote(r, a, answer)
<1>1. /\ s \in Request /\ SameGrant(r, s) /\ s.milestones = r.milestones
      /\ s.votes = Cast(r.votes, a, answer)
  BY AfterVoteType, AfterVoteKeeps
<1> HIDE DEF s
<1>2. OneBallotEach(r, s.votes)
  BY <1>1, CastOneBallotEach DEF SoundRequest, MayBallot, Request
<1>3. SoundRequest(s)
  BY <1>1, <1>2, SamePartiesSoundBallots DEF SoundRequest
<1> QED BY <1>3 DEF s

LEMMA SoundProof ==
    ASSUME NEW r \in Request, NEW k \in DOMAIN r.milestones, SoundRequest(r)
    PROVE  SoundRequest(AfterProof(r, k))
<1> DEFINE s == AfterProof(r, k)
<1>1. s \in Request /\ SameGrant(r, s) /\ s.votes = r.votes
  BY AfterProofType, AfterProofKeeps
<1>2. /\ DOMAIN s.milestones = DOMAIN r.milestones
      /\ \A j \in DOMAIN r.milestones :
            s.milestones[j] = IF j = k THEN Offered(r.milestones[k])
                              ELSE r.milestones[j]
  BY AfterProofKeeps
<1> HIDE DEF s
<1>3. r.milestones[k] \in Milestone
  BY DEF Request
<1>4. OneBallotEach(r, FreshAttempt.reviews)
  BY DEF FreshAttempt, OneBallotEach
<1>5. ASSUME NEW l \in DOMAIN s.milestones, NEW j \in DOMAIN s.milestones[l].attempts
      PROVE  OneBallotEach(r, s.milestones[l].attempts[j].reviews)
  <2>1. CASE l = k
    <3>1. s.milestones[l] = Offered(r.milestones[k])
      BY <1>2, <2>1
    <3>2. CASE j \in DOMAIN r.milestones[k].attempts
      BY <1>3, <3>1, <3>2, OfferedKeeps DEF SoundRequest
    <3>3. CASE j \notin DOMAIN r.milestones[k].attempts
      <4>1. s.milestones[l].attempts[j] = FreshAttempt
        BY <1>3, <3>1, <3>3, OfferedKeeps DEF Milestone
      <4> QED BY <1>4, <4>1
    <3> QED BY <3>2, <3>3
  <2>2. CASE l # k
    BY <1>2, <2>2 DEF SoundRequest
  <2> QED BY <2>1, <2>2
<1>6. SoundRequest(s)
  BY <1>1, <1>5, SamePartiesSoundBallots DEF SoundRequest
<1> QED BY <1>6 DEF s

LEMMA SoundReview ==
    ASSUME NEW r \in Request, NEW k \in DOMAIN r.milestones,
           NEW a \in Callers, NEW answer \in Answer, SoundRequest(r),
           Current(r.milestones[k]) # 0,
           MayBallot(r, Reviews(r.milestones[k]), a)
    PROVE  SoundRequest(AfterReview(r, k, a, answer))
<1> DEFINE s == AfterReview(r, k, a, answer)
           m == r.milestones[k]
           bs == Cast(Reviews(m), a, answer)
           v == Verdict(r, bs)
<1>1. s \in Request /\ SameGrant(r, s) /\ s.votes = r.votes
  BY AfterReviewType, AfterReviewKeeps
<1>2. /\ DOMAIN s.milestones = DOMAIN r.milestones
      /\ \A j \in DOMAIN r.milestones :
            s.milestones[j] = IF j = k THEN AfterVerdict(m, bs, v)
                              ELSE r.milestones[j]
  BY AfterReviewKeeps
<1>3. m \in Milestone
  BY DEF Request
<1>4. /\ Reviews(m) \in Seq(Ballot) /\ bs \in Seq(Ballot)
      /\ Current(m) \in DOMAIN m.attempts
  BY <1>3, CurrentIndex, CastType
<1>5. OneBallotEach(r, bs)
  <2>1. OneBallotEach(r, Reviews(m))
    BY <1>4 DEF SoundRequest, Reviews
  <2> QED BY <1>4, <2>1, CastOneBallotEach DEF MayBallot
<1> HIDE DEF s, bs, v
<1>6. ASSUME NEW l \in DOMAIN s.milestones, NEW j \in DOMAIN s.milestones[l].attempts
      PROVE  OneBallotEach(r, s.milestones[l].attempts[j].reviews)
  <2>1. CASE l = k
    <3>1. s.milestones[l] = AfterVerdict(m, bs, v)
      BY <1>2, <2>1
    <3>2. CASE j = Current(m)
      BY <1>3, <1>4, <1>5, <3>1, <3>2, AfterVerdictKeeps
    <3>3. CASE j # Current(m)
      BY <1>3, <1>4, <3>1, <3>3, AfterVerdictKeeps DEF SoundRequest
    <3> QED BY <3>2, <3>3
  <2>2. CASE l # k
    BY <1>2, <2>2 DEF SoundRequest
  <2> QED BY <2>1, <2>2
<1>7. SoundRequest(s)
  BY <1>1, <1>6, SamePartiesSoundBallots DEF SoundRequest
<1> QED BY <1>7 DEF s

LEMMA SoundStep ==
    BoardTypeOK /\ BallotsAreSound /\ [BoardNext]_boardVars => BallotsAreSound'
<1> SUFFICES ASSUME BoardTypeOK, BallotsAreSound, [BoardNext]_boardVars
             PROVE  BallotsAreSound'
  OBVIOUS
<1>1. /\ BallotsAreSound <=> \A j \in Ids : SoundRequest(requests[j])
      /\ BallotsAreSound' <=> \A j \in Ids' : SoundRequest(requests'[j])
  BY DEF BallotsAreSound, SoundRequest, OneBallotEach, Excludes, Payee
<1>2. ASSUME NEW i \in Ids, NEW s, Becomes(i, s), SoundRequest(s)
      PROVE  BallotsAreSound'
  BY <1>1, <1>2 DEF Becomes
<1>3. ASSUME NEW s \in Request, File(s), SoundRequest(s)
      PROVE  BallotsAreSound'
  BY <1>1, <1>3, FileEffect DEF BoardTypeOK
<1>4. \A i \in Ids : requests[i] \in Request /\ SoundRequest(requests[i])
  BY <1>1, RequestOfId DEF BoardTypeOK
<1>5. ASSUME NEW a \in Callers, NEW to \in Address, NEW spec \in Specs,
             SubmitFor(a, to, spec)
      PROVE  BallotsAreSound'
  <2>1. SoundRequest(NewGrant(a, to, spec))
    <3>1. spec \in Seq(Int)
      BY SpecsAssumption
    <3> QED BY <3>1 DEF SoundRequest, NewGrant, FreshMilestone, OneBallotEach
  <2> QED BY <1>3, <1>5, <2>1, SubmitForEffect, NewGrantType
<1>6. ASSUME NEW a \in Callers, NEW kind \in {"add", "remove"},
             NEW subject \in Address, SubmitMemberChange(a, kind, subject)
      PROVE  BallotsAreSound'
  <2>1. SoundRequest(NewMemberChange(a, kind, subject))
    BY DEF SoundRequest, NewMemberChange, OneBallotEach
  <2> QED BY <1>3, <1>6, <2>1, SubmitMemberChangeEffect, NewMemberChangeType
<1>7. ASSUME NEW a \in Callers, NEW i \in Ids, Withdraw(a, i)
      PROVE  BallotsAreSound'
  <2> DEFINE r == requests[i]
             s == [r EXCEPT !.status = "withdrawn"]
  <2>1. /\ s \in Request /\ SameGrant(r, s)
        /\ s.votes = r.votes /\ s.milestones = r.milestones
    BY <1>4 DEF Request, Status, SameGrant
  <2>2. SoundRequest(r) /\ r \in Request
    BY <1>4
  <2>3. Becomes(i, s)
    BY <1>7, WithdrawEffect
  <2> HIDE DEF r, s
  <2>4. SoundRequest(s)
    BY <2>1, <2>2, SamePartiesSoundBallots DEF SoundRequest
  <2> QED BY <1>2, <2>3, <2>4
<1>8. ASSUME NEW a \in Callers, NEW i \in Ids, NEW answer \in Answer,
             Vote(a, i, answer)
      PROVE  BallotsAreSound'
  BY <1>2, <1>4, <1>8, VoteEffect, SoundVote
<1>9. ASSUME NEW a \in Callers, NEW i \in Ids,
             NEW k \in DOMAIN requests[i].milestones, SubmitProof(a, i, k)
      PROVE  BallotsAreSound'
  BY <1>2, <1>4, <1>9, SubmitProofEffect, SoundProof
<1>10. ASSUME NEW a \in Callers, NEW i \in Ids, NEW answer \in Answer,
              NEW k \in DOMAIN requests[i].milestones, Review(a, i, k, answer)
       PROVE  BallotsAreSound'
  BY <1>2, <1>4, <1>10, ReviewEffect, SoundReview
<1>11. CASE UNCHANGED boardVars
  BY <1>1, <1>11 DEF boardVars, Ids
<1> QED BY <1>5, <1>6, <1>7, <1>8, <1>9, <1>10, <1>11 DEF BoardNext

\* No one is counted twice on a decision and no party to it is counted at all.
THEOREM BallotsStaySound == BoardSpec => []BallotsAreSound
<1>1. BoardInit => BallotsAreSound
  BY DEF BoardInit, BallotsAreSound, Ids
<1> QED BY <1>1, SoundStep, BoardTypeCorrect, PTL DEF BoardSpec

-----------------------------------------------------------------------------
(* Counting. *)

LEMMA MembersFinite ==
    ASSUME BoardTypeOK, NEW r
    PROVE  /\ IsFiniteSet(Eligible(r)) /\ Cardinality(Eligible(r)) \in Nat
           /\ Majority(r) \in Nat \ {0}
           /\ 2 * Majority(r) > Cardinality(Eligible(r))
<1>1. IsFiniteSet(Eligible(r))
  <2>1. Eligible(r) \in SUBSET Address
    BY DEF Eligible, BoardTypeOK
  <2> QED BY <2>1, FS_Subset, AddressAssumption
<1>2. Cardinality(Eligible(r)) \in Nat
  BY <1>1, FS_CardinalityType
<1> DEFINE n == Cardinality(Eligible(r))
<1> HIDE DEF n
<1>3. ASSUME n \in Nat
      PROVE  n \div 2 + 1 \in Nat \ {0} /\ 2 * (n \div 2 + 1) > n
  BY <1>3
<1> USE DEF n
<1>4. Majority(r) = IF n = 0 THEN 1 ELSE n \div 2 + 1
  BY DEF Majority
<1> HIDE DEF n
<1>5. n \in Nat => Majority(r) \in Nat \ {0} /\ 2 * Majority(r) > n
  BY <1>3, <1>4
<1> QED BY <1>1, <1>2, <1>5 DEF n

StandingIndices(bs, answer) ==
    {k \in DOMAIN bs : bs[k].voter \in members /\ bs[k].answer = answer}

LEMMA StandingFinite ==
    ASSUME NEW bs \in Seq(Ballot), NEW answer
    PROVE  /\ IsFiniteSet(StandingIndices(bs, answer))
           /\ Standing(bs, answer) = Cardinality(StandingIndices(bs, answer))
           /\ Standing(bs, answer) \in Nat
<1>1. IsFiniteSet(1..Len(bs)) /\ DOMAIN bs = 1..Len(bs)
  BY FS_Interval
<1>2. StandingIndices(bs, answer) \in SUBSET (1..Len(bs))
  BY <1>1 DEF StandingIndices
<1>3. IsFiniteSet(StandingIndices(bs, answer))
  BY <1>1, <1>2, FS_Subset
<1> QED BY <1>3, FS_CardinalityType DEF Standing, StandingIndices

\* The ballots counted as a yes are those of as many different eligible members.
LEMMA CountedOnce ==
    ASSUME BoardTypeOK, NEW r, NEW bs \in Seq(Ballot), OneBallotEach(r, bs)
    PROVE  Standing(bs, "yes") <= Cardinality(YesVoters(bs) \cap Eligible(r))
<1> DEFINE S == StandingIndices(bs, "yes")
           T == YesVoters(bs) \cap Eligible(r)
           f == [k \in S |-> bs[k].voter]
<1>1. IsFiniteSet(T)
  <2>1. T \in SUBSET Eligible(r)
    OBVIOUS
  <2> QED BY <2>1, FS_Subset, MembersFinite
<1>2. \A k \in S : bs[k].voter \in T
  BY DEF StandingIndices, YesVoters, Eligible, OneBallotEach
<1>3. \A p, q \in S : f[p] = f[q] => p = q
  BY DEF StandingIndices, OneBallotEach
<1>4. f \in Injection(S, T)
  BY <1>2, <1>3 DEF Injection, IsInjective
<1>5. Cardinality(S) <= Cardinality(T)
  BY <1>1, <1>4, FS_Injection
<1> QED BY <1>5, StandingFinite

LEMMA MajorityCarries ==
    ASSUME BoardTypeOK, NEW r, NEW bs \in Seq(Ballot), OneBallotEach(r, bs),
           Verdict(r, bs) = "yes"
    PROVE  Carried(r, bs)
<1> DEFINE c == Cardinality(YesVoters(bs) \cap Eligible(r))
           n == Cardinality(Eligible(r))
           st == Standing(bs, "yes")
           mj == Majority(r)
<1>1. st >= mj
  BY DEF Verdict
<1>2. c \in Nat
  <2>1. YesVoters(bs) \cap Eligible(r) \in SUBSET Eligible(r)
    OBVIOUS
  <2> QED BY <2>1, FS_Subset, FS_CardinalityType, MembersFinite
<1>3. st <= c /\ st \in Nat /\ n \in Nat /\ mj \in Nat /\ 2 * mj > n
  BY CountedOnce, StandingFinite, MembersFinite
<1> HIDE DEF c, n, st, mj
<1>4. 2 * c > n
  BY <1>1, <1>2, <1>3
<1> QED BY <1>4 DEF Carried, c, n

-----------------------------------------------------------------------------
(* Tranches in order. *)

LEMMA InOrderProof ==
    ASSUME NEW r \in Request, NEW k \in DOMAIN r.milestones, GrantInOrder(r),
           r.status = "approved", IsNext(r, k), Current(r.milestones[k]) = 0
    PROVE  GrantInOrder(AfterProof(r, k))
<1> DEFINE s == AfterProof(r, k)
           m == r.milestones[k]
           len == Len(m.attempts)
<1>1. s \in Request /\ s.status = "approved"
  BY AfterProofType, AfterProofKeeps
<1>2. /\ DOMAIN s.milestones = DOMAIN r.milestones
      /\ \A j \in DOMAIN r.milestones :
            s.milestones[j] = IF j = k THEN Offered(m) ELSE r.milestones[j]
  BY AfterProofKeeps
<1>3. /\ m \in Milestone /\ m.attempts \in Seq(Attempt) /\ len \in Nat
      /\ DOMAIN m.attempts = 1..len
  <2>1. r.milestones \in Seq(Milestone)
    BY DEF Request
  <2>2. m \in Milestone
    BY <2>1
  <2>3. m.attempts \in Seq(Attempt)
    BY <2>2 DEF Milestone
  <2> QED BY <2>2, <2>3
<1>4. /\ DOMAIN r.milestones = 1..Len(r.milestones)
      /\ Len(r.milestones) \in Nat
  BY DEF Request
<1> HIDE DEF s
<1>5. \A j \in DOMAIN r.milestones :
        s.milestones[j].released = r.milestones[j].released
  BY <1>2, <1>3, OfferedKeeps
<1>6. FullyPaid(s) <=> FullyPaid(r)
  BY <1>2, <1>5 DEF FullyPaid
<1>7. s.milestones # <<>>
  <2>1. r.milestones \in Seq(Milestone) /\ s.milestones \in Seq(Milestone)
    BY <1>1 DEF Request
  <2> QED BY <1>2, <2>1
\* The earlier attempts were all refused.
<1>8. \A j \in DOMAIN m.attempts : m.attempts[j].outcome = "refused"
  <2>1. m.attempts # <<>> => m.attempts[len].outcome # "review"
    BY <1>3 DEF Current
  <2>2. \A j \in DOMAIN m.attempts : m.attempts[j].outcome # "accepted"
    BY DEF IsNext, GrantInOrder
  <2>3. \A j \in DOMAIN m.attempts : m.attempts[j] \in Attempt
    BY <1>3
  <2> QED BY <1>3, <2>1, <2>2, <2>3 DEF GrantInOrder, Attempt, Outcome
<1>9. ASSUME NEW l \in DOMAIN s.milestones
      PROVE  LET n == s.milestones[l] IN
             /\ n.released <=> \E j \in DOMAIN n.attempts :
                                  n.attempts[j].outcome = "accepted"
             /\ \A j \in DOMAIN n.attempts :
                   n.attempts[j].outcome # "refused" => j = Len(n.attempts)
             /\ \A j \in 1..(l-1) : n.attempts # <<>> => s.milestones[j].released
  <2>1. CASE l = k
    <3> DEFINE n == Offered(m)
    <3>1. s.milestones[l] = n /\ n.released = m.released
      BY <1>2, <1>3, <2>1, OfferedKeeps
    <3>2. /\ Len(n.attempts) = len + 1 /\ DOMAIN n.attempts = 1..(len + 1)
          /\ \A j \in 1..len : n.attempts[j] = m.attempts[j]
          /\ n.attempts[len + 1].outcome = "review"
      BY <1>3, OfferedKeeps DEF FreshAttempt
    <3>3. ~ m.released /\ \A j \in 1..(k-1) : r.milestones[j].released
      BY DEF IsNext
    <3>4. \A j \in DOMAIN n.attempts :
            n.attempts[j].outcome # "refused" => j = Len(n.attempts)
      <4> HIDE DEF n
      <4> QED BY <1>3, <1>8, <3>2
    <3>5. \A j \in DOMAIN n.attempts : n.attempts[j].outcome # "accepted"
      <4> SUFFICES ASSUME NEW j \in DOMAIN n.attempts
                   PROVE  n.attempts[j].outcome # "accepted"
        OBVIOUS
      <4>1. j \in 1..len \/ j = len + 1
        BY <1>3, <3>2
      <4>2. CASE j \in 1..len
        <5>1. n.attempts[j] = m.attempts[j] /\ m.attempts[j].outcome = "refused"
          BY <1>3, <1>8, <3>2, <4>2
        <5> QED BY <5>1
      <4> QED BY <3>2, <4>1, <4>2
    <3>6. \A j \in 1..(l-1) : s.milestones[j].released
      <4>1. ASSUME NEW j \in 1..(l-1) PROVE j \in DOMAIN r.milestones
        BY <1>4, <2>1
      <4> QED BY <1>5, <2>1, <3>3, <4>1
    <3> HIDE DEF n, m
    <3> QED BY <3>1, <3>3, <3>4, <3>5, <3>6
  <2>2. CASE l # k
    <3>1. s.milestones[l] = r.milestones[l] /\ l \in DOMAIN r.milestones
      BY <1>2, <2>2
    <3>2. ASSUME NEW j \in 1..(l-1) PROVE j \in DOMAIN r.milestones
      BY <1>4, <3>1
    <3> QED BY <1>5, <3>1, <3>2 DEF GrantInOrder
  <2> QED BY <2>1, <2>2
<1>10. GrantInOrder(s)
  BY <1>1, <1>6, <1>7, <1>9 DEF GrantInOrder
<1> QED BY <1>10 DEF s

LEMMA InOrderReview ==
    ASSUME NEW r \in Request, NEW k \in DOMAIN r.milestones, GrantInOrder(r),
           r.status = "approved", Current(r.milestones[k]) # 0,
           NEW a \in Callers, NEW answer \in Answer
    PROVE  /\ GrantInOrder(AfterReview(r, k, a, answer))
           /\ ~ r.milestones[k].released
<1> DEFINE s == AfterReview(r, k, a, answer)
           m == r.milestones[k]
           bs == Cast(Reviews(m), a, answer)
           v == Verdict(r, bs)
           n == AfterVerdict(m, bs, v)
           len == Len(m.attempts)
<1>1. s \in Request
  BY AfterReviewType
<1>2. /\ DOMAIN s.milestones = DOMAIN r.milestones
      /\ \A j \in DOMAIN r.milestones :
            s.milestones[j] = IF j = k THEN n ELSE r.milestones[j]
      /\ s.status = IF v = "yes" /\ FullyPaid(s) THEN "completed" ELSE r.status
  BY AfterReviewKeeps
<1>3. /\ DOMAIN r.milestones = 1..Len(r.milestones)
      /\ Len(r.milestones) \in Nat /\ m \in Milestone
  BY DEF Request
<1>4. /\ Current(m) = len /\ len \in DOMAIN m.attempts
      /\ m.attempts[len].outcome = "review" /\ bs \in Seq(Ballot)
  <2>1. Reviews(m) \in Seq(Ballot)
    BY <1>3, CurrentIndex
  <2>2. bs \in Seq(Ballot)
    BY <2>1, CastType
  <2> HIDE DEF bs
  <2> QED BY <1>3, <2>2, CurrentIndex
<1>5. /\ n.released = (m.released \/ v = "yes")
      /\ Len(n.attempts) = len /\ DOMAIN n.attempts = DOMAIN m.attempts
      /\ \A j \in DOMAIN m.attempts : j # len => n.attempts[j] = m.attempts[j]
      /\ n.attempts[len].outcome = IF v = "yes" THEN "accepted"
                                   ELSE IF v = "no" THEN "refused" ELSE "review"
  <2> HIDE DEF bs, v
  <2>1. Current(m) # 0
    OBVIOUS
  <2> QED BY ONLY <1>3, <1>4, <2>1, AfterVerdictKeeps
\* Nothing was accepted for this milestone before, so it was not released.
<1>6. /\ \A j \in DOMAIN m.attempts : m.attempts[j].outcome # "accepted"
      /\ ~ m.released
      /\ \A j \in DOMAIN m.attempts : j # len => m.attempts[j].outcome = "refused"
      /\ \A j \in 1..(k-1) : r.milestones[j].released
  <2>1. /\ m.released <=> \E j \in DOMAIN m.attempts :
                            m.attempts[j].outcome = "accepted"
        /\ \A j \in DOMAIN m.attempts : m.attempts[j].outcome # "refused" => j = len
        /\ m.attempts # <<>> => \A j \in 1..(k-1) : r.milestones[j].released
    BY DEF GrantInOrder
  <2>2. m.attempts # <<>>
    BY <1>4
  <2> QED BY <1>4, <2>1, <2>2
<1> HIDE DEF s, n, m, v, len, bs
<1>7. \A j \in DOMAIN r.milestones :
        s.milestones[j].released <=>
            IF j = k THEN v = "yes" ELSE r.milestones[j].released
  BY <1>2, <1>5, <1>6
<1>8. ~ r.milestones[k].released
  BY <1>6 DEF m
<1>9. s.milestones # <<>> /\ (s.status = "completed" <=> FullyPaid(s))
  <2>1. ~ (v = "yes") => ~ FullyPaid(s)
    BY <1>2, <1>7 DEF FullyPaid
  <2>2. s.milestones # <<>>
    BY <1>1, <1>2, <1>3 DEF Request
  <2> QED BY <1>2, <2>1, <2>2
<1>10. s.status \in {"approved", "completed"}
  BY <1>2
<1>11. ASSUME NEW l \in DOMAIN s.milestones
       PROVE  LET q == s.milestones[l] IN
              /\ q.released <=> \E j \in DOMAIN q.attempts :
                                   q.attempts[j].outcome = "accepted"
              /\ \A j \in DOMAIN q.attempts :
                    q.attempts[j].outcome # "refused" => j = Len(q.attempts)
              /\ \A j \in 1..(l-1) : q.attempts # <<>> => s.milestones[j].released
  <2>1. CASE l = k
    <3>1. s.milestones[l] = n
      BY <1>2, <2>1
    <3>2. n.released <=> \E j \in DOMAIN n.attempts : n.attempts[j].outcome = "accepted"
      BY <1>4, <1>5, <1>6
    <3>3. \A j \in DOMAIN n.attempts :
             n.attempts[j].outcome # "refused" => j = Len(n.attempts)
      BY <1>5, <1>6
    <3>4. ASSUME NEW j \in 1..(l-1) PROVE s.milestones[j].released
      <4>1. j \in DOMAIN r.milestones /\ j # k /\ r.milestones[j].released
        BY <1>3, <1>6, <2>1
      <4> QED BY <1>7, <4>1
    <3> QED BY <3>1, <3>2, <3>3, <3>4
  <2>2. CASE l # k
    <3>1. s.milestones[l] = r.milestones[l] /\ l \in DOMAIN r.milestones
      BY <1>2, <2>2
    <3>2. ASSUME NEW j \in 1..(l-1), r.milestones[j].released
          PROVE  s.milestones[j].released
      <4>1. j \in DOMAIN r.milestones
        BY <1>3, <3>1
      <4> QED BY <1>7, <1>8, <3>2, <4>1
    <3> QED BY <3>1, <3>2 DEF GrantInOrder
  <2> QED BY <2>1, <2>2
<1>12. GrantInOrder(s)
  BY <1>9, <1>10, <1>11 DEF GrantInOrder
<1> QED BY <1>8, <1>12 DEF s

LEMMA ValidSpecNotEmpty ==
    ASSUME NEW spec \in Seq(Int), ValidSpec(spec)
    PROVE  Len(spec) > 0 /\ Len(spec) \in Nat
<1>1. Len(spec) \in 1..10
  BY DEF ValidSpec, MaxMilestones
<1> QED BY <1>1

LEMMA InOrderStep ==
    BoardTypeOK /\ ReleasedInOrder /\ [BoardNext]_boardVars => ReleasedInOrder'
<1> SUFFICES ASSUME BoardTypeOK, ReleasedInOrder, [BoardNext]_boardVars
             PROVE  ReleasedInOrder'
  OBVIOUS
<1>1. \A i \in Ids : requests[i] \in Request
  BY RequestOfId DEF BoardTypeOK
<1>2. ASSUME NEW i \in Ids, NEW s, Becomes(i, s), s.kind = "grant" => GrantInOrder(s)
      PROVE  ReleasedInOrder'
  <2>1. ASSUME NEW j \in Ids', requests'[j].kind = "grant"
        PROVE  GrantInOrder(requests'[j])
    BY <1>2, <2>1 DEF Becomes, ReleasedInOrder
  <2> QED BY <2>1 DEF ReleasedInOrder, GrantInOrder, FullyPaid
<1>3. ASSUME NEW s \in Request, File(s), s.kind = "grant" => GrantInOrder(s)
      PROVE  ReleasedInOrder'
  <2>1. ASSUME NEW j \in Ids', requests'[j].kind = "grant"
        PROVE  GrantInOrder(requests'[j])
    BY <1>3, <2>1, FileEffect DEF BoardTypeOK, ReleasedInOrder
  <2> QED BY <2>1 DEF ReleasedInOrder, GrantInOrder, FullyPaid
<1>4. ASSUME NEW a \in Callers, NEW to \in Address, NEW spec \in Specs,
             SubmitFor(a, to, spec)
      PROVE  ReleasedInOrder'
  <2> DEFINE s == NewGrant(a, to, spec)
  <2>1. spec \in Seq(Int) /\ Len(spec) > 0 /\ Len(spec) \in Nat
    <3>1. spec \in Seq(Int)
      BY SpecsAssumption
    <3>2. ValidSpec(spec)
      BY <1>4 DEF SubmitFor
    <3> QED BY <3>1, <3>2, ValidSpecNotEmpty
  <2>2. /\ s.status = "pending" /\ DOMAIN s.milestones = 1..Len(spec)
        /\ \A k \in 1..Len(spec) : s.milestones[k].released = FALSE
                                   /\ s.milestones[k].attempts = <<>>
    BY <2>1 DEF NewGrant, FreshMilestone
  <2>3. s.milestones # <<>> /\ ~ FullyPaid(s)
    BY <2>1, <2>2 DEF FullyPaid
  <2>4. GrantInOrder(s)
    <3> HIDE DEF s
    <3> QED BY <2>2, <2>3 DEF GrantInOrder
  <2> QED BY <1>3, <1>4, <2>4, SubmitForEffect, NewGrantType
<1>5. ASSUME NEW a \in Callers, NEW kind \in {"add", "remove"},
             NEW subject \in Address, SubmitMemberChange(a, kind, subject)
      PROVE  ReleasedInOrder'
  <2>1. NewMemberChange(a, kind, subject).kind # "grant"
    BY DEF NewMemberChange
  <2> QED BY <1>3, <1>5, <2>1, SubmitMemberChangeEffect, NewMemberChangeType
\* A status that is neither approved nor completed before or after the step.
<1>6. ASSUME NEW r \in Request, NEW s \in Request, r.status = "pending",
             s.milestones = r.milestones, s.status # "completed",
             GrantInOrder(r)
      PROVE  GrantInOrder(s)
  <2>1. \A k \in DOMAIN r.milestones : r.milestones[k].attempts = <<>>
    BY <1>6 DEF GrantInOrder
  <2>2. FullyPaid(s) <=> FullyPaid(r)
    BY <1>6 DEF FullyPaid
  <2> QED BY <1>6, <2>1, <2>2 DEF GrantInOrder
<1>7. ASSUME NEW a \in Callers, NEW i \in Ids, Withdraw(a, i)
      PROVE  ReleasedInOrder'
  <2> DEFINE s == [requests[i] EXCEPT !.status = "withdrawn"]
  <2>1. /\ s \in Request /\ s.milestones = requests[i].milestones
        /\ s.status # "completed" /\ s.kind = requests[i].kind
    BY <1>1 DEF Request, Status
  <2>2. Becomes(i, s) /\ requests[i].status = "pending"
    BY <1>7, WithdrawEffect
  <2> HIDE DEF s
  <2> QED BY <1>1, <1>2, <1>6, <2>1, <2>2 DEF ReleasedInOrder
<1>8. ASSUME NEW a \in Callers, NEW i \in Ids, NEW answer \in Answer,
             Vote(a, i, answer)
      PROVE  ReleasedInOrder'
  <2> DEFINE s == AfterVote(requests[i], a, answer)
  <2>1. s \in Request /\ s.milestones = requests[i].milestones
    BY <1>1, AfterVoteType, AfterVoteKeeps
  <2>2. s.kind = requests[i].kind /\ (s.kind = "grant" => s.status # "completed")
    BY <1>1 DEF AfterVote, Request
  <2>3. Becomes(i, s) /\ requests[i].status = "pending"
    BY <1>8, VoteEffect
  <2> HIDE DEF s
  <2> QED BY <1>1, <1>2, <1>6, <2>1, <2>2, <2>3 DEF ReleasedInOrder
<1>9. ASSUME NEW a \in Callers, NEW i \in Ids,
             NEW k \in DOMAIN requests[i].milestones, SubmitProof(a, i, k)
      PROVE  ReleasedInOrder'
  BY <1>1, <1>2, <1>9, SubmitProofEffect, InOrderProof DEF ReleasedInOrder
<1>10. ASSUME NEW a \in Callers, NEW i \in Ids, NEW answer \in Answer,
              NEW k \in DOMAIN requests[i].milestones, Review(a, i, k, answer)
       PROVE  ReleasedInOrder'
  BY <1>1, <1>2, <1>10, ReviewEffect, InOrderReview DEF ReleasedInOrder
<1>11. CASE UNCHANGED boardVars
  BY <1>11 DEF boardVars, ReleasedInOrder, GrantInOrder, FullyPaid, Ids
<1> QED BY <1>4, <1>5, <1>7, <1>8, <1>9, <1>10, <1>11 DEF BoardNext

\* Tranches are released in order, each on its own accepted proof, and a grant
\* is complete exactly when all of them were.
THEOREM TranchesReleasedInOrder == BoardSpec => []ReleasedInOrder
<1>1. BoardInit => ReleasedInOrder
  BY DEF BoardInit, ReleasedInOrder, Ids
<1> QED BY <1>1, InOrderStep, BoardTypeCorrect, PTL DEF BoardSpec

-----------------------------------------------------------------------------
(* Decisions need a majority. *)

BoardInv == BoardTypeOK /\ BallotsAreSound /\ ReleasedInOrder

LEMMA BoardInvariant == BoardSpec => []BoardInv
BY BoardTypeCorrect, BallotsStaySound, TranchesReleasedInOrder, PTL DEF BoardInv

LEMMA BoardInvFacts ==
    ASSUME BoardInv, NEW i \in Ids
    PROVE  /\ requests[i] \in Request
           /\ SoundRequest(requests[i])
           /\ requests[i].kind = "grant" => GrantInOrder(requests[i])
BY RequestOfId DEF BoardInv, BoardTypeOK, BallotsAreSound, SoundRequest, ReleasedInOrder

\* What a step can do to one request already filed.
LEMMA StepCases ==
    ASSUME BoardInv, [BoardNext]_boardVars, NEW i \in Ids
    PROVE  \/ requests'[i] = requests[i]
           \/ \E a \in Callers : Withdraw(a, i)
           \/ \E a \in Callers, answer \in Answer : Vote(a, i, answer)
           \/ \E a \in Callers, k \in DOMAIN requests[i].milestones :
                 SubmitProof(a, i, k)
           \/ \E a \in Callers, answer \in Answer,
                 k \in DOMAIN requests[i].milestones : Review(a, i, k, answer)
<1>1. BoardTypeOK
  BY DEF BoardInv
<1>2. ASSUME NEW s \in Request, File(s)
      PROVE  requests'[i] = requests[i]
  BY <1>1, <1>2, FileEffect DEF BoardTypeOK
<1>3. ASSUME NEW j \in Ids, NEW s, Becomes(j, s), j # i
      PROVE  requests'[i] = requests[i]
  BY <1>3 DEF Becomes
<1>4. CASE UNCHANGED boardVars
  BY <1>4 DEF boardVars
<1>5. ASSUME NEW a \in Callers, NEW to \in Address, NEW spec \in Specs,
             SubmitFor(a, to, spec)
      PROVE  requests'[i] = requests[i]
  BY <1>1, <1>2, <1>5, SubmitForEffect, NewGrantType
<1>6. ASSUME NEW a \in Callers, NEW kind \in {"add", "remove"},
             NEW subject \in Address, SubmitMemberChange(a, kind, subject)
      PROVE  requests'[i] = requests[i]
  BY <1>1, <1>2, <1>6, SubmitMemberChangeEffect, NewMemberChangeType
<1>7. ASSUME NEW a \in Callers, NEW j \in Ids, Withdraw(a, j), j # i
      PROVE  requests'[i] = requests[i]
  BY <1>1, <1>3, <1>7, WithdrawEffect
<1>8. ASSUME NEW a \in Callers, NEW j \in Ids, NEW answer \in Answer,
             Vote(a, j, answer), j # i
      PROVE  requests'[i] = requests[i]
  BY <1>1, <1>3, <1>8, VoteEffect
<1>9. ASSUME NEW a \in Callers, NEW j \in Ids,
             NEW k \in DOMAIN requests[j].milestones, SubmitProof(a, j, k), j # i
      PROVE  requests'[i] = requests[i]
  BY <1>1, <1>3, <1>9, SubmitProofEffect
<1>10. ASSUME NEW a \in Callers, NEW j \in Ids, NEW answer \in Answer,
              NEW k \in DOMAIN requests[j].milestones, Review(a, j, k, answer), j # i
       PROVE  requests'[i] = requests[i]
  BY <1>1, <1>3, <1>10, ReviewEffect
<1> QED BY <1>4, <1>5, <1>6, <1>7, <1>8, <1>9, <1>10 DEF BoardNext

LEMMA WithdrawOf ==
    ASSUME BoardInv, NEW i \in Ids, NEW a \in Callers, Withdraw(a, i)
    PROVE  /\ requests[i].status = "pending"
           /\ requests'[i].status = "withdrawn"
           /\ requests'[i].votes = requests[i].votes
           /\ requests'[i].milestones = requests[i].milestones
<1>1. requests[i] \in Request /\ BoardTypeOK
  BY BoardInvFacts DEF BoardInv
<1>2. requests'[i] = [requests[i] EXCEPT !.status = "withdrawn"]
  BY <1>1, WithdrawEffect DEF Becomes
<1> QED BY <1>1, <1>2, WithdrawEffect DEF Request

LEMMA VoteOf ==
    ASSUME BoardInv, NEW i \in Ids, NEW a \in Callers, NEW answer \in Answer,
           Vote(a, i, answer)
    PROVE  /\ requests[i].status = "pending"
           /\ requests'[i] = AfterVote(requests[i], a, answer)
           /\ requests'[i].votes = Cast(requests[i].votes, a, answer)
           /\ requests'[i].milestones = requests[i].milestones
<1>1. requests[i] \in Request /\ BoardTypeOK
  BY BoardInvFacts DEF BoardInv
<1> QED BY <1>1, VoteEffect, AfterVoteKeeps DEF Becomes

LEMMA ProofOf ==
    ASSUME BoardInv, NEW i \in Ids, NEW a \in Callers,
           NEW k \in DOMAIN requests[i].milestones, SubmitProof(a, i, k)
    PROVE  /\ requests[i].status = "approved"
           /\ requests'[i].status = requests[i].status
           /\ requests'[i].votes = requests[i].votes
           /\ DOMAIN requests'[i].milestones = DOMAIN requests[i].milestones
           /\ \A j \in DOMAIN requests[i].milestones :
                 requests'[i].milestones[j] =
                    IF j = k THEN Offered(requests[i].milestones[k])
                    ELSE requests[i].milestones[j]
           /\ requests[i].milestones[k] \in Milestone
           /\ Current(requests[i].milestones[k]) = 0
           /\ ~ requests[i].milestones[k].released
<1>1. /\ requests[i] \in Request /\ BoardTypeOK
      /\ requests[i].milestones[k] \in Milestone
  BY BoardInvFacts, RequestOfId DEF BoardInv, BoardTypeOK
<1>2. /\ requests[i].status = "approved" /\ Current(requests[i].milestones[k]) = 0
      /\ IsNext(requests[i], k)
      /\ requests'[i] = AfterProof(requests[i], k)
  BY <1>1, SubmitProofEffect DEF Becomes
<1> QED BY <1>1, <1>2, AfterProofKeeps DEF IsNext

LEMMA ReviewOf ==
    ASSUME BoardInv, NEW i \in Ids, NEW a \in Callers, NEW answer \in Answer,
           NEW k \in DOMAIN requests[i].milestones, Review(a, i, k, answer)
    PROVE  LET r == requests[i]  s == requests'[i]  m == r.milestones[k]
               bs == Cast(Reviews(m), a, answer)  v == Verdict(r, bs)
           IN
           /\ r.status = "approved" /\ r.kind = "grant"
           /\ s.status \in {"approved", "completed"}
           /\ s.votes = r.votes
           /\ DOMAIN s.milestones = DOMAIN r.milestones
           /\ \A j \in DOMAIN r.milestones :
                 s.milestones[j] = IF j = k THEN AfterVerdict(m, bs, v)
                                   ELSE r.milestones[j]
           /\ m \in Milestone /\ Current(m) # 0 /\ ~ m.released
           /\ bs \in Seq(Ballot)
           /\ MayBallot(r, Reviews(m), a)
<1> DEFINE r == requests[i]
           m == r.milestones[k]
<1>1. /\ r \in Request /\ BoardTypeOK /\ m \in Milestone
      /\ r.kind = "grant" => GrantInOrder(r)
  BY BoardInvFacts, RequestOfId DEF BoardInv, BoardTypeOK
<1>2. /\ r.kind = "grant" /\ r.status = "approved" /\ Current(m) # 0
      /\ MayBallot(r, Reviews(m), a)
      /\ requests'[i] = AfterReview(r, k, a, answer)
  BY <1>1, ReviewEffect DEF Becomes
<1>3. ~ m.released
  BY <1>1, <1>2, InOrderReview
<1>4. Cast(Reviews(m), a, answer) \in Seq(Ballot)
  BY <1>1, <1>2, CurrentIndex, CastType
<1> QED BY <1>1, <1>2, <1>3, <1>4, AfterReviewKeeps

\* A request is carried only by more than half of those entitled to vote on it.
LEMMA RequestsAreCarried == BoardInv /\ [BoardNext]_boardVars => CarriedStep
<1> SUFFICES ASSUME BoardInv, [BoardNext]_boardVars, NEW i \in Ids,
                    requests[i].status = "pending",
                    requests'[i].status \in {"approved", "completed"}
             PROVE  Carried(requests[i], requests'[i].votes)
  BY DEF CarriedStep
<1>1. PICK a \in Callers, answer \in Answer : Vote(a, i, answer)
  BY StepCases, WithdrawOf, ProofOf, ReviewOf
<1> DEFINE r == requests[i]
           bs == Cast(r.votes, a, answer)
           s == AfterVote(r, a, answer)
<1>2. r \in Request /\ SoundRequest(r) /\ BoardTypeOK
  BY BoardInvFacts DEF BoardInv
<1>3. MayBallot(r, r.votes, a) /\ Becomes(i, s)
  BY <1>1, <1>2, VoteEffect
<1>4. requests'[i] = s /\ s.votes = bs
  BY <1>2, <1>3, AfterVoteKeeps DEF Becomes
<1>5. bs \in Seq(Ballot) /\ OneBallotEach(r, bs)
  BY <1>2, <1>3, CastType, CastOneBallotEach DEF SoundRequest, MayBallot, Request
<1>6. Verdict(r, bs) = "yes"
  BY <1>2, <1>4 DEF AfterVote, Request
<1> HIDE DEF r, bs, s
<1>7. Carried(r, bs)
  BY <1>2, <1>5, <1>6, MajorityCarries
<1> QED BY <1>4, <1>7 DEF r, bs, s

\* A tranche is released only by more than half of those entitled to judge it.
LEMMA TranchesAreEarned == BoardInv /\ [BoardNext]_boardVars => EarnedStep
<1> SUFFICES ASSUME BoardInv, [BoardNext]_boardVars, NEW i \in Ids,
                    NEW k \in DOMAIN requests[i].milestones,
                    ~ requests[i].milestones[k].released,
                    requests'[i].milestones[k].released
             PROVE  Carried(requests[i],
                            Last(requests'[i].milestones[k].attempts).reviews)
  BY DEF EarnedStep, Changed
<1>1. PICK a \in Callers, answer \in Answer : Review(a, i, k, answer)
  <2>1. ASSUME NEW a \in Callers, NEW l \in DOMAIN requests[i].milestones,
               SubmitProof(a, i, l)
        PROVE  FALSE
    BY <2>1, ProofOf, OfferedKeeps
  <2>2. ASSUME NEW a \in Callers, NEW answer \in Answer,
               NEW l \in DOMAIN requests[i].milestones, Review(a, i, l, answer), l # k
        PROVE  FALSE
    BY <2>2, ReviewOf
  <2> QED BY <2>1, <2>2, StepCases, WithdrawOf, VoteOf
<1> DEFINE r == requests[i]
           m == r.milestones[k]
           bs == Cast(Reviews(m), a, answer)
           v == Verdict(r, bs)
           n == AfterVerdict(m, bs, v)
<1>2. r \in Request /\ SoundRequest(r) /\ BoardTypeOK /\ m \in Milestone
  BY BoardInvFacts, RequestOfId DEF BoardInv, BoardTypeOK
<1>3. Current(m) # 0 /\ MayBallot(r, Reviews(m), a) /\ requests'[i].milestones[k] = n
  BY <1>1, <1>2, ReviewEffect, AfterReviewKeeps DEF Becomes
<1>4. /\ Reviews(m) \in Seq(Ballot) /\ Current(m) = Len(m.attempts)
      /\ Current(m) \in DOMAIN m.attempts
  BY <1>2, <1>3, CurrentIndex
<1>5. bs \in Seq(Ballot) /\ OneBallotEach(r, bs)
  <2>1. OneBallotEach(r, Reviews(m))
    BY <1>2, <1>4 DEF SoundRequest, Reviews
  <2> QED BY <1>3, <1>4, <2>1, CastType, CastOneBallotEach DEF MayBallot
<1>6. Last(n.attempts).reviews = bs /\ v = "yes"
  <2>1. /\ n.released = (m.released \/ v = "yes")
        /\ Len(n.attempts) = Len(m.attempts)
        /\ n.attempts[Current(m)].reviews = bs
    BY <1>2, <1>3, <1>5, AfterVerdictKeeps
  <2>2. n.released /\ ~ m.released
    BY <1>3
  <2> QED BY <1>4, <2>1, <2>2 DEF Last
<1> HIDE DEF r, m, bs, v, n
<1>7. Carried(r, bs)
  BY <1>2, <1>5, <1>6, MajorityCarries DEF v
<1> QED BY <1>3, <1>6, <1>7 DEF r, n

\* Whatever is decided is decided by more than half of those entitled to.
THEOREM MajoritiesDecide == BoardSpec => DecidedByMajority
BY RequestsAreCarried, TranchesAreEarned, BoardInvariant, PTL
   DEF BoardSpec, DecidedByMajority

-----------------------------------------------------------------------------
(* The preview is exact. *)

\* One more ballot of a current member adds one to its own side.
LEMMA StandingCast ==
    ASSUME NEW bs \in Seq(Ballot), NEW a \in Callers, a \in members,
           NEW answer \in Answer, NEW side
    PROVE  Standing(Cast(bs, a, answer), side) =
              Standing(bs, side) + (IF answer = side THEN 1 ELSE 0)
<1> DEFINE c == Cast(bs, a, answer)
           S == StandingIndices(bs, side)
           x == Len(bs) + 1
<1>1. /\ c \in Seq(Ballot) /\ DOMAIN c = 1..x /\ DOMAIN bs = 1..Len(bs)
      /\ Len(bs) \in Nat
  <2>1. c \in Seq(Ballot) /\ Len(c) = x
    BY CastType
  <2> HIDE DEF c
  <2> QED BY <2>1, LenProperties
<1>2. \A k \in DOMAIN bs : c[k] = bs[k]
  <2>1. \A k \in 1..Len(bs) : c[k] = bs[k]
    BY CastType
  <2> QED BY <1>1, <2>1
<1>3. c[x] = [voter |-> a, answer |-> answer]
  BY CastType
<1>4. \A k \in DOMAIN c : k \in DOMAIN bs \/ k = x
  BY <1>1
<1>5. x \notin S /\ x \in DOMAIN c /\ DOMAIN bs \subseteq DOMAIN c
  BY <1>1 DEF StandingIndices
<1>6. c[x].voter = a /\ c[x].answer = answer
  BY <1>3
<1> HIDE DEF c, x
<1>7. StandingIndices(c, side) = IF answer = side THEN S \cup {x} ELSE S
  BY <1>2, <1>4, <1>5, <1>6 DEF StandingIndices
<1>8. IsFiniteSet(S) /\ Standing(bs, side) = Cardinality(S) /\ Standing(bs, side) \in Nat
  BY StandingFinite
<1>9. Cardinality(S \cup {x}) = Cardinality(S) + 1
  BY <1>5, <1>8, FS_AddElement
<1>10. Standing(c, side) = Cardinality(StandingIndices(c, side))
  BY <1>1, StandingFinite
<1> QED BY <1>7, <1>8, <1>9, <1>10 DEF c

LEMMA PreviewIsVerdict ==
    ASSUME NEW r, NEW bs \in Seq(Ballot), NEW a \in Callers, a \in members,
           NEW answer \in Answer
    PROVE  Preview(r, bs, answer) = Verdict(r, Cast(bs, a, answer))
BY StandingCast DEF Preview, Verdict

\* A vote and the preview of it agree.
LEMMA VotePreview ==
    ASSUME BoardInv, NEW a \in Callers, NEW i \in Ids, NEW answer \in Answer,
           Vote(a, i, answer)
    PROVE  LET r == requests[i]  s == requests'[i]  v == Decides(r, a, answer) IN
           /\ s = AfterVote(r, a, answer)
           /\ v = Verdict(r, Cast(r.votes, a, answer))
           /\ s.status = IF v = "yes"
                         THEN IF r.kind = "grant" THEN "approved" ELSE "completed"
                         ELSE IF v = "no" THEN "rejected" ELSE "pending"
<1> DEFINE r == requests[i]
<1>1. r \in Request /\ BoardTypeOK
  BY BoardInvFacts DEF BoardInv
<1>2. r.status = "pending" /\ MayBallot(r, r.votes, a) /\ requests'[i] = AfterVote(r, a, answer)
  BY <1>1, VoteEffect DEF Becomes
<1>3. Decides(r, a, answer) = Preview(r, r.votes, answer)
  BY <1>2 DEF Decides
<1>4. r.votes \in Seq(Ballot) /\ a \in members
  BY <1>1, <1>2 DEF Request, MayBallot
<1>5. Decides(r, a, answer) = Verdict(r, Cast(r.votes, a, answer))
  BY <1>3, <1>4, PreviewIsVerdict
<1>6. AfterVote(r, a, answer).status =
        LET v == Verdict(r, Cast(r.votes, a, answer)) IN
        IF v = "yes" THEN IF r.kind = "grant" THEN "approved" ELSE "completed"
        ELSE IF v = "no" THEN "rejected" ELSE "pending"
  BY <1>1 DEF AfterVote, Request
<1> QED BY <1>2, <1>5, <1>6

\* So do a review of a proof and the preview of it.
LEMMA ReviewPreview ==
    ASSUME BoardInv, NEW a \in Callers, NEW i \in Ids, NEW answer \in Answer,
           NEW k \in DOMAIN requests[i].milestones, Review(a, i, k, answer)
    PROVE  LET r == requests[i]  m == r.milestones[k]
               bs == Cast(Reviews(m), a, answer)  v == ReviewDecides(r, k, a, answer)
           IN
           /\ bs \in Seq(Ballot) /\ v = Verdict(r, bs)
           /\ requests'[i] = AfterReview(r, k, a, answer)
           /\ requests'[i].milestones[k] = AfterVerdict(m, bs, v)
<1> DEFINE r == requests[i]
           m == r.milestones[k]
           bs == Cast(Reviews(m), a, answer)
<1>1. r \in Request /\ BoardTypeOK /\ m \in Milestone
  BY BoardInvFacts, RequestOfId DEF BoardInv, BoardTypeOK
<1>2. /\ r.kind = "grant" /\ r.status = "approved" /\ Current(m) # 0
      /\ MayBallot(r, Reviews(m), a)
      /\ requests'[i] = AfterReview(r, k, a, answer)
  BY <1>1, ReviewEffect DEF Becomes
<1>3. ReviewDecides(r, k, a, answer) = Preview(r, Reviews(m), answer)
  BY <1>2 DEF ReviewDecides
<1>4. Reviews(m) \in Seq(Ballot) /\ a \in members
  BY <1>1, <1>2, CurrentIndex DEF MayBallot
<1>5. ReviewDecides(r, k, a, answer) = Verdict(r, bs) /\ bs \in Seq(Ballot)
  BY <1>3, <1>4, PreviewIsVerdict, CastType
<1>6. AfterReview(r, k, a, answer).milestones[k] = AfterVerdict(m, bs, Verdict(r, bs))
  BY <1>1, AfterReviewKeeps
<1> QED BY <1>2, <1>5, <1>6

\* The previews a realm relies on say exactly what the ballot then does.
THEOREM PreviewsAreExact == BoardSpec => PreviewsAgree
<1>1. BoardInv /\ [BoardNext]_boardVars => PreviewStep
  <2> SUFFICES ASSUME BoardInv, [BoardNext]_boardVars PROVE PreviewStep
    OBVIOUS
  <2>1. ASSUME NEW i \in Ids, Len(requests'[i].votes) > Len(requests[i].votes)
        PROVE  LET r == requests[i]  s == requests'[i] IN
               Decides(r, Last(s.votes).voter, Last(s.votes).answer) =
                  CASE s.status \in {"approved", "completed"} -> "yes"
                    [] s.status = "rejected" -> "no"
                    [] OTHER -> "open"
    <3>1. requests[i] \in Request /\ Len(requests[i].votes) \in Nat
      BY BoardInvFacts DEF Request
    <3>2. PICK a \in Callers, answer \in Answer : Vote(a, i, answer)
      BY <2>1, <3>1, StepCases, WithdrawOf, ProofOf, ReviewOf
    <3> DEFINE r == requests[i]
               s == requests'[i]
    <3>3. Last(s.votes) = [voter |-> a, answer |-> answer]
      <4>1. r.votes \in Seq(Ballot)
        BY <3>1 DEF Request
      <4>2. s.votes = Cast(r.votes, a, answer)
        BY <3>2, VoteOf
      <4> QED BY <4>1, <4>2, CastType DEF Last
    <3>4. Last(s.votes).voter = a /\ Last(s.votes).answer = answer
      BY <3>3
    <3>5. s.status = LET v == Decides(r, a, answer) IN
                     IF v = "yes"
                     THEN IF r.kind = "grant" THEN "approved" ELSE "completed"
                     ELSE IF v = "no" THEN "rejected" ELSE "pending"
      BY <3>2, VotePreview
    <3>6. Decides(r, a, answer) \in {"yes", "no", "open"}
      BY <3>2, VotePreview DEF Verdict
    <3> HIDE DEF r, s
    <3>7. Decides(r, a, answer) = CASE s.status \in {"approved", "completed"} -> "yes"
                                    [] s.status = "rejected" -> "no"
                                    [] OTHER -> "open"
      BY <3>5, <3>6
    <3> QED BY <3>4, <3>7 DEF r, s
  <2>2. ASSUME NEW i \in Ids, NEW k \in DOMAIN requests[i].milestones,
               Current(requests[i].milestones[k]) # 0,
               requests'[i].milestones[k] # requests[i].milestones[k]
        PROVE  LET r == requests[i]  s == requests'[i]
                   m == r.milestones[k]  n == s.milestones[k]
                   b == Last(n.attempts[Current(m)].reviews) IN
               ReviewDecides(r, k, b.voter, b.answer) =
                  CASE n.attempts[Current(m)].outcome = "accepted" -> "yes"
                    [] n.attempts[Current(m)].outcome = "refused" -> "no"
                    [] OTHER -> "open"
    <3>1. PICK a \in Callers, answer \in Answer : Review(a, i, k, answer)
      BY <2>2, StepCases, WithdrawOf, VoteOf, ProofOf, ReviewOf
    <3> DEFINE r == requests[i]
               m == r.milestones[k]
               n == requests'[i].milestones[k]
               bs == Cast(Reviews(m), a, answer)
               v == ReviewDecides(r, k, a, answer)
    <3>2. /\ bs \in Seq(Ballot) /\ v = Verdict(r, bs) /\ n = AfterVerdict(m, bs, v)
          /\ m \in Milestone /\ Current(m) # 0
      BY <3>1, ReviewPreview, ReviewOf
    <3>3. /\ n.attempts[Current(m)].reviews = bs
          /\ n.attempts[Current(m)].outcome =
                IF v = "yes" THEN "accepted" ELSE IF v = "no" THEN "refused" ELSE "review"
      BY <3>2, AfterVerdictKeeps
    <3>4. Last(bs) = [voter |-> a, answer |-> answer]
      BY <3>2, CurrentIndex, CastType DEF Last
    <3>5. Last(bs).voter = a /\ Last(bs).answer = answer
      BY <3>4
    <3>6. v \in {"yes", "no", "open"}
      BY <3>2 DEF Verdict
    <3> HIDE DEF v, bs
    <3>7. v = CASE n.attempts[Current(m)].outcome = "accepted" -> "yes"
                [] n.attempts[Current(m)].outcome = "refused" -> "no"
                [] OTHER -> "open"
      BY <3>3, <3>6
    <3> QED BY <3>3, <3>5, <3>7 DEF v
  <2> QED BY <2>1, <2>2 DEF PreviewStep, Changed
<1> QED BY <1>1, BoardInvariant, PTL DEF BoardSpec, PreviewsAgree

\* A ballot that leaves a request pending left it without a majority, so only a
\* change of the board can give a pending request one that nobody acted on.
THEOREM MajoritiesAreActedOn == BoardSpec => MajorityMissedOnlyByMembership
<1>1. BoardInv /\ [BoardNext]_boardVars => MissedStep
  <2> SUFFICES ASSUME BoardInv, [BoardNext]_boardVars, NEW i \in Ids,
                      requests[i].status = "pending", requests'[i].status = "pending",
                      ~ MajorityStands(i), MajorityStands(i)', members' = members
               PROVE  FALSE
    BY DEF MissedStep
  <2> DEFINE r == requests[i]
             s == requests'[i]
  <2>1. \A q, bs : Verdict(q, bs)' = Verdict(q, bs)
    BY DEF Verdict, Standing, Majority, Eligible, Excludes, Payee
  <2>2. Verdict(s, s.votes) # "open" /\ Verdict(r, r.votes) = "open"
    BY <2>1 DEF MajorityStands, Verdict, Standing, Majority, Eligible, Excludes, Payee
  <2>3. s # r
    BY <2>2
  <2>4. PICK a \in Callers, answer \in Answer : Vote(a, i, answer)
    BY <2>3, StepCases, WithdrawOf, ProofOf, ReviewOf
  <2>5. /\ s = AfterVote(r, a, answer) /\ s.votes = Cast(r.votes, a, answer)
        /\ Verdict(r, s.votes) = "open"
    <3>1. /\ s.status = LET v == Verdict(r, Cast(r.votes, a, answer)) IN
                        IF v = "yes"
                        THEN IF r.kind = "grant" THEN "approved" ELSE "completed"
                        ELSE IF v = "no" THEN "rejected" ELSE "pending"
      BY <2>4, VotePreview
    <3>2. Verdict(r, Cast(r.votes, a, answer)) \in {"yes", "no", "open"}
      BY DEF Verdict
    <3> QED BY <2>4, <3>1, <3>2, VoteOf
  <2>6. SameGrant(r, s)
    BY <2>5, BoardInvFacts, AfterVoteKeeps
  <2>7. Verdict(s, s.votes) = Verdict(r, s.votes)
    <3>1. \A a1 : Excludes(s, a1) <=> Excludes(r, a1)
      BY <2>6 DEF SameGrant, Excludes, Payee
    <3>2. Eligible(s) = Eligible(r)
      BY <3>1 DEF Eligible
    <3> QED BY <3>2 DEF Verdict, Majority
  <2> QED BY <2>2, <2>5, <2>7
<1> QED BY <1>1, BoardInvariant, PTL DEF BoardSpec, MajorityMissedOnlyByMembership

-----------------------------------------------------------------------------
(* The record is permanent. *)

LEMMA PrefixRefl ==
    ASSUME NEW bs PROVE IsPrefix(bs, bs)
BY DEF IsPrefix

LEMMA PrefixCast ==
    ASSUME NEW bs \in Seq(Ballot), NEW a \in Callers, NEW answer \in Answer
    PROVE  IsPrefix(bs, Cast(bs, a, answer))
<1> DEFINE c == Cast(bs, a, answer)
<1>1. /\ c \in Seq(Ballot) /\ Len(c) = Len(bs) + 1 /\ Len(bs) \in Nat
      /\ \A k \in 1..Len(bs) : c[k] = bs[k]
  <2>1. Len(bs) \in Nat
    OBVIOUS
  <2> QED BY <2>1, CastType
<1> HIDE DEF c
<1>2. SubSeq(bs, 1, Len(bs)) = SubSeq(c, 1, Len(bs))
  BY <1>1
<1> QED BY <1>1, <1>2 DEF IsPrefix, c

\* No decision is reopened and no ballot, review or attempt is rewritten.
THEOREM RecordsNeverChange == BoardSpec => RecordsArePermanent
<1>1. BoardInv /\ [BoardNext]_boardVars => PermanentStep
  <2> SUFFICES ASSUME BoardInv, [BoardNext]_boardVars, NEW i \in Ids
               PROVE
      LET r == requests[i]  s == requests'[i] IN
      /\ r.status # "pending" => \/ s.status = r.status
                                 \/ r.status = "approved" /\ s.status = "completed"
      /\ IsPrefix(r.votes, s.votes)
      /\ r.status # "pending" => s.votes = r.votes
      /\ \A k \in DOMAIN r.milestones :
            LET m == r.milestones[k]  n == s.milestones[k] IN
            /\ m.released => n = m
            /\ \A j \in DOMAIN m.attempts :
                  /\ IsPrefix(m.attempts[j].reviews, n.attempts[j].reviews)
                  /\ m.attempts[j].outcome # "review" =>
                        n.attempts[j] = m.attempts[j]
    BY DEF PermanentStep, Changed
  <2> DEFINE r == requests[i]
             s == requests'[i]
  <2>1. r \in Request
    BY BoardInvFacts
  <2>2. CASE s = r
    BY <2>2, PrefixRefl
  <2>3. ASSUME NEW a \in Callers, Withdraw(a, i)
        PROVE  r.status = "pending" /\ s.votes = r.votes /\ s.milestones = r.milestones
    BY <2>3, WithdrawOf
  <2>4. ASSUME NEW a \in Callers, NEW answer \in Answer, Vote(a, i, answer)
        PROVE  /\ r.status = "pending" /\ IsPrefix(r.votes, s.votes)
               /\ s.milestones = r.milestones
    BY <2>1, <2>4, VoteOf, PrefixCast DEF Request
  <2>5. ASSUME NEW a \in Callers, NEW k \in DOMAIN r.milestones, SubmitProof(a, i, k)
        PROVE  /\ s.status = r.status /\ s.votes = r.votes
               /\ \A l \in DOMAIN r.milestones :
                     LET m == r.milestones[l]  n == s.milestones[l] IN
                     /\ m.released => n = m
                     /\ \A j \in DOMAIN m.attempts : n.attempts[j] = m.attempts[j]
    <3> DEFINE m == r.milestones[k]
    <3>1. /\ s.status = r.status /\ s.votes = r.votes /\ ~ m.released
          /\ \A l \in DOMAIN r.milestones :
                s.milestones[l] = IF l = k THEN Offered(m) ELSE r.milestones[l]
          /\ m \in Milestone
      BY <2>5, ProofOf
    <3>2. \A j \in DOMAIN m.attempts : Offered(m).attempts[j] = m.attempts[j]
      BY <3>1, OfferedKeeps
    <3> QED BY <3>1, <3>2
  <2>6. ASSUME NEW a \in Callers, NEW answer \in Answer,
               NEW k \in DOMAIN r.milestones, Review(a, i, k, answer)
        PROVE  /\ r.status = "approved" /\ s.status \in {"approved", "completed"}
               /\ s.votes = r.votes
               /\ \A l \in DOMAIN r.milestones :
                     LET m == r.milestones[l]  n == s.milestones[l] IN
                     /\ m.released => n = m
                     /\ \A j \in DOMAIN m.attempts :
                          /\ IsPrefix(m.attempts[j].reviews, n.attempts[j].reviews)
                          /\ m.attempts[j].outcome # "review" =>
                                n.attempts[j] = m.attempts[j]
    <3> DEFINE m == r.milestones[k]
               bs == Cast(Reviews(m), a, answer)
               n == AfterVerdict(m, bs, Verdict(r, bs))
    <3>1. /\ r.status = "approved" /\ s.status \in {"approved", "completed"}
          /\ s.votes = r.votes /\ ~ m.released
          /\ \A l \in DOMAIN r.milestones :
                s.milestones[l] = IF l = k THEN n ELSE r.milestones[l]
          /\ m \in Milestone /\ Current(m) # 0 /\ bs \in Seq(Ballot)
      BY <2>6, ReviewOf
    <3>2. /\ Reviews(m) \in Seq(Ballot)
          /\ m.attempts[Current(m)].outcome = "review"
      BY <3>1, CurrentIndex
    <3>3. IsPrefix(m.attempts[Current(m)].reviews, bs)
      BY <3>2, PrefixCast DEF Reviews
    <3>4. \A j \in DOMAIN m.attempts :
            IF j = Current(m) THEN n.attempts[j].reviews = bs
                              ELSE n.attempts[j] = m.attempts[j]
      BY <3>1, AfterVerdictKeeps
    <3> HIDE DEF bs, n
    <3>5. \A j \in DOMAIN m.attempts :
            /\ IsPrefix(m.attempts[j].reviews, n.attempts[j].reviews)
            /\ m.attempts[j].outcome # "review" => n.attempts[j] = m.attempts[j]
      BY <3>2, <3>3, <3>4, PrefixRefl
    <3> QED BY <3>1, <3>5, PrefixRefl
  <2> HIDE DEF r, s
  <2>7. CASE /\ r.status = "pending" /\ IsPrefix(r.votes, s.votes)
             /\ s.milestones = r.milestones
    BY <2>7, PrefixRefl DEF r, s
  <2>8. \/ s = r
        \/ \E a \in Callers : Withdraw(a, i)
        \/ \E a \in Callers, answer \in Answer : Vote(a, i, answer)
        \/ \E a \in Callers, k \in DOMAIN r.milestones : SubmitProof(a, i, k)
        \/ \E a \in Callers, answer \in Answer, k \in DOMAIN r.milestones :
              Review(a, i, k, answer)
    BY StepCases DEF r, s
  <2> QED BY <2>2, <2>3, <2>4, <2>5, <2>6, <2>7, <2>8, PrefixRefl DEF r, s
<1> QED BY <1>1, BoardInvariant, PTL DEF BoardSpec, RecordsArePermanent
-----------------------------------------------------------------------------
(* The realm drives a board. *)

LEMMA NextIsBoardNext == [Next]_vars => [BoardNext]_boardVars
<1> SUFFICES ASSUME [Next]_vars PROVE [BoardNext]_boardVars
  OBVIOUS
<1>1. Callers \subseteq Address
  BY AddressAssumption
<1>2. ASSUME NEW a \in Callers, NEW spec \in Specs, Apply(a, spec)
      PROVE  BoardNext
  BY <1>1, <1>2 DEF Apply, ApplyFor, BoardNext
<1>3. CASE \E amount \in Deposits : Fund(amount) \/ BankSend(amount)
  BY <1>3 DEF Fund, BankSend, boardVars
<1>4. CASE UNCHANGED vars
  BY <1>4 DEF vars, boardVars
<1> QED
  BY <1>2, <1>3, <1>4 DEF Next, BoardNext, ApplyFor, ProposeMember, Retract,
     CastVote, OfferProof, JudgeProof

\* Whatever the realm does with its money, its board behaves as a board.
THEOREM RealmImplementsBoard == Spec => BoardSpec
<1>1. Init => BoardInit
  BY DEF Init
<1> QED BY <1>1, NextIsBoardNext, PTL DEF Spec, BoardSpec

LEMMA RealmBoardInv == Spec => []BoardInv
BY RealmImplementsBoard, BoardInvariant, PTL

-----------------------------------------------------------------------------
(* The tranches of a list of requests. *)

LEMMA InReleased ==
    ASSUME NEW reqs, NEW t
    PROVE  t \in ReleasedIn(reqs) <=>
              \E i \in DOMAIN reqs : \E k \in DOMAIN reqs[i].milestones :
                 t = Tranche(i, reqs[i], k) /\ reqs[i].milestones[k].released
BY DEF ReleasedIn, TranchesWhere

LEMMA InPromised ==
    ASSUME NEW reqs, NEW t
    PROVE  t \in PromisedIn(reqs) <=>
              \E i \in DOMAIN reqs : \E k \in DOMAIN reqs[i].milestones :
                 t = Tranche(i, reqs[i], k) /\ reqs[i].status \in {"approved", "completed"}
BY DEF PromisedIn, TranchesWhere

LEMMA TrancheFields ==
    ASSUME NEW i, NEW r, NEW k
    PROVE  /\ Tranche(i, r, k).request = i
           /\ Tranche(i, r, k).milestone = k
           /\ Tranche(i, r, k).to = Payee(r)
           /\ Tranche(i, r, k).amount = r.milestones[k].amount
BY DEF Tranche

\* Requests with the same tranches, released and promised alike.
SameTranches(r, s) ==
    /\ DOMAIN s.milestones = DOMAIN r.milestones
    /\ Payee(s) = Payee(r)
    /\ \A k \in DOMAIN r.milestones :
          /\ s.milestones[k].amount = r.milestones[k].amount
          /\ s.milestones[k].released = r.milestones[k].released

LEMMA SameReleased ==
    ASSUME NEW reqs, NEW news, DOMAIN news = DOMAIN reqs,
           \A i \in DOMAIN reqs : SameTranches(reqs[i], news[i])
    PROVE  ReleasedIn(news) = ReleasedIn(reqs)
<1>1. \A i \in DOMAIN reqs : \A k \in DOMAIN reqs[i].milestones :
         Tranche(i, news[i], k) = Tranche(i, reqs[i], k)
  BY DEF SameTranches, Tranche
<1>2. \A t : t \in ReleasedIn(news) <=> t \in ReleasedIn(reqs)
  BY <1>1, InReleased DEF SameTranches
<1> QED BY <1>2

LEMMA SamePromised ==
    ASSUME NEW reqs, NEW news, DOMAIN news = DOMAIN reqs,
           \A i \in DOMAIN reqs :
              /\ SameTranches(reqs[i], news[i])
              /\ news[i].status \in {"approved", "completed"} <=>
                    reqs[i].status \in {"approved", "completed"}
    PROVE  PromisedIn(news) = PromisedIn(reqs)
<1>1. \A i \in DOMAIN reqs : \A k \in DOMAIN reqs[i].milestones :
         Tranche(i, news[i], k) = Tranche(i, reqs[i], k)
  BY DEF SameTranches, Tranche
<1>2. \A t : t \in PromisedIn(news) <=> t \in PromisedIn(reqs)
  BY <1>1, InPromised DEF SameTranches
<1> QED BY <1>2

\* A new request promises and releases nothing.
LEMMA FiledTranches ==
    ASSUME BoardInv, NEW r \in Request, File(r), r.status = "pending",
           \A k \in DOMAIN r.milestones : ~ r.milestones[k].released
    PROVE  /\ ReleasedIn(requests') = ReleasedIn(requests)
           /\ PromisedIn(requests') = PromisedIn(requests)
<1>1. /\ DOMAIN requests' = DOMAIN requests \cup {Len(requests) + 1}
      /\ \A j \in DOMAIN requests : requests'[j] = requests[j]
      /\ requests'[Len(requests) + 1] = r
  BY FileEffect DEF BoardInv, BoardTypeOK, Ids
<1>2. \A t : t \in ReleasedIn(requests') <=> t \in ReleasedIn(requests)
  BY <1>1, InReleased
<1>3. \A t : t \in PromisedIn(requests') <=> t \in PromisedIn(requests)
  BY <1>1, InPromised
<1> QED BY <1>2, <1>3

\* Withdrawals, votes and proofs release nothing; only a vote that approves a
\* grant promises anything.
LEMMA ReplacedReleased ==
    ASSUME BoardInv, NEW i \in Ids, NEW s, Becomes(i, s),
           SameTranches(requests[i], s)
    PROVE  /\ ReleasedIn(requests') = ReleasedIn(requests)
           /\ (s.status \in {"approved", "completed"} <=>
                  requests[i].status \in {"approved", "completed"})
              => PromisedIn(requests') = PromisedIn(requests)
<1>1. /\ DOMAIN requests' = DOMAIN requests
      /\ \A j \in DOMAIN requests : requests'[j] = IF j = i THEN s ELSE requests[j]
  BY DEF Becomes, Ids
<1>2. \A j \in DOMAIN requests : SameTranches(requests[j], requests'[j])
  BY <1>1 DEF SameTranches
<1> QED BY <1>1, <1>2, SameReleased, SamePromised

LEMMA RetractMoney ==
    ASSUME BoardInv, NEW a \in Callers, NEW i \in Ids, Withdraw(a, i)
    PROVE  /\ ReleasedIn(requests') = ReleasedIn(requests)
           /\ PromisedIn(requests') = PromisedIn(requests)
<1> DEFINE s == [requests[i] EXCEPT !.status = "withdrawn"]
<1>1. requests[i] \in Request /\ BoardTypeOK
  BY BoardInvFacts DEF BoardInv
<1>2. SameTranches(requests[i], s) /\ s.status = "withdrawn"
  BY <1>1 DEF SameTranches, Request, Payee
<1>3. Becomes(i, s) /\ requests[i].status = "pending"
  BY <1>1, WithdrawEffect
<1> HIDE DEF s
<1> QED BY <1>2, <1>3, ReplacedReleased

LEMMA VoteMoney ==
    ASSUME BoardInv, NEW a \in Callers, NEW i \in Ids, NEW answer \in Answer,
           Vote(a, i, answer)
    PROVE  /\ ReleasedIn(requests') = ReleasedIn(requests)
           /\ requests'[i].status \notin {"approved", "completed"} =>
                 PromisedIn(requests') = PromisedIn(requests)
           /\ requests[i].status = "pending"
           /\ SameTranches(requests[i], requests'[i])
           /\ Becomes(i, requests'[i])
<1> DEFINE s == AfterVote(requests[i], a, answer)
<1>1. requests[i] \in Request /\ BoardTypeOK
  BY BoardInvFacts DEF BoardInv
<1>2. SameGrant(requests[i], s) /\ s.milestones = requests[i].milestones
  BY <1>1, AfterVoteKeeps
<1>3. Becomes(i, s) /\ requests[i].status = "pending"
  BY <1>1, VoteEffect
<1> HIDE DEF s
<1>4. SameTranches(requests[i], s)
  BY <1>2 DEF SameTranches, SameGrant, Payee
<1>5. requests'[i] = s
  BY <1>3 DEF Becomes
<1> QED BY <1>3, <1>4, <1>5, ReplacedReleased

LEMMA ProofMoney ==
    ASSUME BoardInv, NEW a \in Callers, NEW i \in Ids,
           NEW k \in DOMAIN requests[i].milestones, SubmitProof(a, i, k)
    PROVE  /\ ReleasedIn(requests') = ReleasedIn(requests)
           /\ PromisedIn(requests') = PromisedIn(requests)
<1> DEFINE s == AfterProof(requests[i], k)
<1>1. /\ requests[i] \in Request /\ BoardTypeOK
      /\ requests[i].milestones[k] \in Milestone
  BY BoardInvFacts, RequestOfId DEF BoardInv, BoardTypeOK
<1>2. /\ SameGrant(requests[i], s) /\ s.status = requests[i].status
      /\ DOMAIN s.milestones = DOMAIN requests[i].milestones
      /\ \A j \in DOMAIN requests[i].milestones :
            s.milestones[j] = IF j = k THEN Offered(requests[i].milestones[k])
                              ELSE requests[i].milestones[j]
  BY <1>1, AfterProofKeeps
<1>3. Becomes(i, s)
  BY <1>1, SubmitProofEffect
<1> HIDE DEF s
<1>4. SameTranches(requests[i], s)
  BY <1>1, <1>2, OfferedKeeps DEF SameTranches, SameGrant, Payee
<1> QED BY <1>2, <1>3, <1>4, ReplacedReleased

\* A review that decides nothing moves nothing; one that accepts releases the
\* one tranche it pays, promised and not yet released, after all before it.
LEMMA ReviewMoney ==
    ASSUME BoardInv, NEW a \in Callers, NEW i \in Ids, NEW answer \in Answer,
           NEW k \in DOMAIN requests[i].milestones, Review(a, i, k, answer)
    PROVE  LET t == Tranche(i, requests[i], k) IN
           /\ PromisedIn(requests') = PromisedIn(requests)
           /\ t \in PromisedIn(requests)
           /\ ~ requests[i].milestones[k].released
           /\ requests'[i].milestones[k].released <=>
                 ReviewDecides(requests[i], k, a, answer) = "yes"
           /\ requests'[i].milestones[k].released =>
                 ReleasedIn(requests') = ReleasedIn(requests) \cup {t}
           /\ ~ requests'[i].milestones[k].released =>
                 ReleasedIn(requests') = ReleasedIn(requests)
           /\ \A j \in 1..(k-1) : requests[i].milestones[j].released
<1> DEFINE r == requests[i]
           m == r.milestones[k]
           s == AfterReview(r, k, a, answer)
           bs == Cast(Reviews(m), a, answer)
           v == Verdict(r, bs)
           n == AfterVerdict(m, bs, v)
           t == Tranche(i, r, k)
<1>1. /\ r \in Request /\ BoardTypeOK /\ m \in Milestone
      /\ r.kind = "grant" => GrantInOrder(r)
  BY BoardInvFacts, RequestOfId DEF BoardInv, BoardTypeOK
<1>2. /\ r.kind = "grant" /\ r.status = "approved" /\ ~ m.released
      /\ Current(m) # 0 /\ bs \in Seq(Ballot)
  BY ReviewOf
<1>3. /\ Becomes(i, s) /\ SameGrant(r, s)
      /\ DOMAIN s.milestones = DOMAIN r.milestones
      /\ \A j \in DOMAIN r.milestones :
            s.milestones[j] = IF j = k THEN n ELSE r.milestones[j]
      /\ s.status \in {"approved", "completed"}
  BY <1>1, <1>2, ReviewEffect, AfterReviewKeeps
<1>4. n.amount = m.amount /\ (n.released <=> v = "yes")
  <2>1. m.released \in BOOLEAN /\ v \in {"yes", "no", "open"}
    BY <1>1 DEF Milestone, Verdict
  <2>2. n.amount = m.amount /\ n.released = (m.released \/ v = "yes")
    BY <1>1, <1>2, <2>1, AfterVerdictKeeps
  <2> HIDE DEF n, v
  <2> QED BY <1>2, <2>2
<1>5. v = ReviewDecides(r, k, a, answer)
  BY ReviewPreview
<1>6. \A j \in 1..(k-1) : r.milestones[j].released
  <2>1. m.attempts # <<>>
    BY <1>1, <1>2, CurrentIndex DEF Milestone
  <2> QED BY <1>1, <1>2, <2>1 DEF GrantInOrder
<1> HIDE DEF s, n, v, bs
<1>7. /\ Payee(s) = Payee(r)
      /\ \A j \in DOMAIN r.milestones : Tranche(i, s, j) = Tranche(i, r, j)
  BY <1>3, <1>4 DEF SameGrant, Payee, Tranche
<1>8. /\ DOMAIN requests' = DOMAIN requests
      /\ \A j \in DOMAIN requests : requests'[j] = IF j = i THEN s ELSE requests[j]
      /\ i \in DOMAIN requests
  BY <1>3 DEF Becomes, Ids
<1>9. t \in PromisedIn(requests)
  BY <1>2, <1>8, InPromised
<1>10. PromisedIn(requests') = PromisedIn(requests)
  <2>1. \A x : x \in PromisedIn(requests') <=> x \in PromisedIn(requests)
    BY <1>2, <1>3, <1>7, <1>8, InPromised
  <2> QED BY <2>1
<1>11. \A j \in DOMAIN r.milestones :
          s.milestones[j].released <=>
             IF j = k THEN v = "yes" ELSE r.milestones[j].released
  BY <1>3, <1>4
<1>12. ASSUME v = "yes"
       PROVE  ReleasedIn(requests') = ReleasedIn(requests) \cup {t}
  <2>1. \A x : x \in ReleasedIn(requests') <=> x \in ReleasedIn(requests) \/ x = t
    BY <1>3, <1>7, <1>8, <1>11, <1>12, InReleased
  <2> QED BY <2>1
<1>13. ASSUME v # "yes"
       PROVE  ReleasedIn(requests') = ReleasedIn(requests)
  <2>1. \A x : x \in ReleasedIn(requests') <=> x \in ReleasedIn(requests)
    BY <1>2, <1>3, <1>7, <1>8, <1>11, <1>13, InReleased
  <2> QED BY <2>1
<1>14. requests'[i].milestones[k].released <=> v = "yes"
  BY <1>8, <1>11
<1> QED BY <1>2, <1>5, <1>6, <1>9, <1>10, <1>12, <1>13, <1>14

-----------------------------------------------------------------------------
(* The steps of the realm, by what they do to its money. *)

\* Nothing the ledger speaks of moves.
Quiet ==
    /\ UNCHANGED <<treasury, payments>>
    /\ ReleasedIn(requests') = ReleasedIn(requests)
    /\ PromisedIn(requests') = PromisedIn(requests)

Collects ==
    /\ treasury \in Int => treasury' \in Int /\ treasury' > treasury
    /\ UNCHANGED <<payments, requests>>

\* A vote approves request i, all tranches of which are promised at once.
Approves(i) ==
    /\ UNCHANGED <<treasury, payments>>
    /\ ReleasedIn(requests') = ReleasedIn(requests)
    /\ \A t : t \in PromisedIn(requests') <=>
                 \/ t \in PromisedIn(requests)
                 \/ \E k \in DOMAIN requests[i].milestones : t = Tranche(i, requests[i], k)
    /\ \A t \in PromisedIn(requests) : t.request # i

Pays(i, k) ==
    LET t == Tranche(i, requests[i], k) IN
    /\ payments' = Append(payments, t)
    /\ treasury' = IF t.to = Treasury THEN treasury ELSE treasury - t.amount
    /\ t.amount \in Int /\ t.to \in Address /\ i \in Nat /\ k \in Nat
    /\ treasury >= t.amount
    /\ t \in PromisedIn(requests)
    /\ ~ requests[i].milestones[k].released
    /\ ReleasedIn(requests') = ReleasedIn(requests) \cup {t}
    /\ PromisedIn(requests') = PromisedIn(requests)
    /\ \A j \in 1..(k-1) : requests[i].milestones[j].released

LEMMA VoteApproves ==
    ASSUME BoardInv, NEW a \in Callers, NEW i \in Ids, NEW answer \in Answer,
           CastVote(a, i, answer)
    PROVE  Quiet \/ Approves(i)
<1>1. Vote(a, i, answer) /\ UNCHANGED <<treasury, payments>>
  BY DEF CastVote, moneyVars
<1>2. /\ ReleasedIn(requests') = ReleasedIn(requests)
      /\ requests'[i].status \notin {"approved", "completed"} =>
            PromisedIn(requests') = PromisedIn(requests)
      /\ requests[i].status = "pending"
      /\ SameTranches(requests[i], requests'[i])
      /\ Becomes(i, requests'[i])
  BY <1>1, VoteMoney
<1>3. CASE requests'[i].status \notin {"approved", "completed"}
  BY <1>1, <1>2, <1>3 DEF Quiet
<1>4. CASE requests'[i].status \in {"approved", "completed"}
  <2>1. /\ DOMAIN requests' = DOMAIN requests /\ i \in DOMAIN requests
        /\ \A j \in DOMAIN requests : j # i => requests'[j] = requests[j]
    BY <1>2 DEF Becomes, Ids
  <2>2. /\ DOMAIN requests'[i].milestones = DOMAIN requests[i].milestones
        /\ \A k \in DOMAIN requests[i].milestones :
              Tranche(i, requests'[i], k) = Tranche(i, requests[i], k)
    BY <1>2 DEF SameTranches, Tranche
  <2>3. \A t : t \in PromisedIn(requests') <=>
           \/ t \in PromisedIn(requests)
           \/ \E k \in DOMAIN requests[i].milestones : t = Tranche(i, requests[i], k)
    BY <1>2, <1>4, <2>1, <2>2, InPromised
  <2>4. \A t \in PromisedIn(requests) : t.request # i
    BY <1>2, InPromised, TrancheFields
  <2> QED BY <1>1, <1>2, <2>3, <2>4 DEF Approves
<1> QED BY <1>3, <1>4

LEMMA ReviewPays ==
    ASSUME BoardInv, NEW a \in Callers, NEW i \in Ids, NEW answer \in Answer,
           NEW k \in DOMAIN requests[i].milestones, JudgeProof(a, i, k, answer)
    PROVE  Quiet \/ Pays(i, k)
<1> DEFINE t == Tranche(i, requests[i], k)
<1>1. Review(a, i, k, answer) /\ Covered(i, k, a, answer)
  BY DEF JudgeProof
<1>2. /\ PromisedIn(requests') = PromisedIn(requests)
      /\ t \in PromisedIn(requests)
      /\ ~ requests[i].milestones[k].released
      /\ requests'[i].milestones[k].released <=>
            ReviewDecides(requests[i], k, a, answer) = "yes"
      /\ requests'[i].milestones[k].released =>
            ReleasedIn(requests') = ReleasedIn(requests) \cup {t}
      /\ ~ requests'[i].milestones[k].released =>
            ReleasedIn(requests') = ReleasedIn(requests)
      /\ \A j \in 1..(k-1) : requests[i].milestones[j].released
  BY <1>1, ReviewMoney
<1>3. CASE ~ requests'[i].milestones[k].released
  BY <1>2, <1>3 DEF JudgeProof, Quiet
<1>4. CASE requests'[i].milestones[k].released
  <2>1. /\ t.amount = requests[i].milestones[k].amount
        /\ t.to = Payee(requests[i])
    BY TrancheFields
  <2>2. requests[i] \in Request /\ requests \in Seq(Request)
    BY BoardInvFacts DEF BoardInv, BoardTypeOK
  <2>3. t.amount \in Int /\ t.to \in Address /\ i \in Nat /\ k \in Nat
    <3>1. requests[i].milestones \in Seq(Milestone)
      BY <2>2 DEF Request
    <3>2. requests[i].milestones[k] \in Milestone /\ k \in Nat
      BY <3>1
    <3>3. i \in Nat
      BY <2>2 DEF Ids
    <3>4. Payee(requests[i]) \in Address
      BY <2>2, AddressAssumption DEF Payee, Request
    <3> QED BY <2>1, <3>2, <3>3, <3>4 DEF Milestone
  <2>4. treasury >= t.amount
    BY <1>1, <1>2, <1>4, <2>1 DEF Covered
  <2>5. /\ payments' = Append(payments, t)
        /\ treasury' = IF t.to = Treasury THEN treasury ELSE treasury - t.amount
    BY <1>4 DEF JudgeProof
  <2> HIDE DEF t
  <2> QED BY <1>2, <1>4, <2>3, <2>4, <2>5 DEF Pays, t
<1> QED BY <1>3, <1>4

LEMMA MoneyCases ==
    ASSUME BoardInv, [Next]_vars
    PROVE  \/ Quiet
           \/ Collects
           \/ \E i \in Ids : Approves(i)
           \/ \E i \in Ids : \E k \in DOMAIN requests[i].milestones : Pays(i, k)
<1>1. ASSUME NEW amount \in Deposits, Fund(amount) \/ BankSend(amount)
      PROVE  Collects
  <2>1. amount \in Int
    BY DepositsAssumption
  <2> QED BY <1>1, <2>1 DEF Fund, BankSend, Receive, Collects
<1>2. ASSUME NEW a \in Callers, NEW to \in Address, NEW spec \in Specs,
             ApplyFor(a, to, spec)
      PROVE  Quiet
  <2> DEFINE r == NewGrant(a, to, spec)
  <2>1. SubmitFor(a, to, spec) /\ UNCHANGED <<treasury, payments>>
    BY <1>2 DEF ApplyFor, moneyVars
  <2>2. r \in Request /\ File(r)
    BY <2>1, NewGrantType DEF SubmitFor
  <2>3. /\ r.status = "pending" /\ DOMAIN r.milestones = DOMAIN spec
        /\ \A k \in DOMAIN spec : ~ r.milestones[k].released
    BY DEF NewGrant, FreshMilestone
  <2> HIDE DEF r
  <2> QED BY <2>1, <2>2, <2>3, FiledTranches DEF Quiet
<1>3. ASSUME NEW a \in Callers, NEW spec \in Specs, Apply(a, spec)
      PROVE  Quiet
  BY <1>2, <1>3, AddressAssumption DEF Apply
<1>4. ASSUME NEW a \in Callers, NEW kind \in {"add", "remove"},
             NEW subject \in Address, ProposeMember(a, kind, subject)
      PROVE  Quiet
  <2> DEFINE r == NewMemberChange(a, kind, subject)
  <2>1. SubmitMemberChange(a, kind, subject) /\ UNCHANGED <<treasury, payments>>
    BY <1>4 DEF ProposeMember, moneyVars
  <2>2. r \in Request /\ File(r)
    BY <2>1, NewMemberChangeType DEF SubmitMemberChange
  <2>3. r.status = "pending" /\ DOMAIN r.milestones = {}
    BY DEF NewMemberChange
  <2> HIDE DEF r
  <2> QED BY <2>1, <2>2, <2>3, FiledTranches DEF Quiet
<1>5. ASSUME NEW a \in Callers, NEW i \in Ids, Retract(a, i)
      PROVE  Quiet
  BY <1>5, RetractMoney DEF Retract, moneyVars, Quiet
<1>6. ASSUME NEW a \in Callers, NEW i \in Ids,
             NEW k \in DOMAIN requests[i].milestones, OfferProof(a, i, k)
      PROVE  Quiet
  BY <1>6, ProofMoney DEF OfferProof, moneyVars, Quiet
<1>7. CASE UNCHANGED vars
  BY <1>7 DEF vars, Quiet
<1> QED BY <1>1, <1>2, <1>3, <1>4, <1>5, <1>6, <1>7, VoteApproves, ReviewPays DEF Next

-----------------------------------------------------------------------------
(* Each tranche is paid once and never beyond the treasury. *)

LedgerInv ==
    /\ payments \in Seq(Payment)
    /\ treasury \in Int /\ Solvent
    /\ PaidExactlyOnce

LEMMA PaymentOfReleased ==
    ASSUME LedgerInv, NEW p \in DOMAIN payments
    PROVE  /\ payments[p].request \in DOMAIN requests
           /\ payments[p].milestone \in
                 DOMAIN requests[payments[p].request].milestones
           /\ requests[payments[p].request].milestones[payments[p].milestone].released
<1>1. payments[p] \in ReleasedIn(requests)
  BY DEF LedgerInv, PaidExactlyOnce, ToSet
<1> QED BY <1>1, InReleased, TrancheFields

LEMMA PaysKeepsLedger ==
    ASSUME LedgerInv, NEW i \in Ids, NEW k \in DOMAIN requests[i].milestones,
           Pays(i, k)
    PROVE  LedgerInv'
<1> DEFINE t == Tranche(i, requests[i], k)
<1>1. /\ payments' = Append(payments, t)
      /\ treasury' = IF t.to = Treasury THEN treasury ELSE treasury - t.amount
      /\ t.amount \in Int /\ t.to \in Address /\ i \in Nat /\ k \in Nat
      /\ treasury >= t.amount
      /\ ~ requests[i].milestones[k].released
      /\ ReleasedIn(requests') = ReleasedIn(requests) \cup {t}
  BY DEF Pays
<1>2. t.request = i /\ t.milestone = k
  BY TrancheFields
<1>3. t \in Payment
  BY <1>1 DEF Tranche, Payment
<1> HIDE DEF t
<1>4. /\ payments' \in Seq(Payment)
      /\ DOMAIN payments' = DOMAIN payments \cup {Len(payments) + 1}
      /\ \A p \in DOMAIN payments : payments'[p] = payments[p]
      /\ payments'[Len(payments) + 1] = t
  BY <1>1, <1>3 DEF LedgerInv
<1>5. ToSet(payments') = ToSet(payments) \cup {t}
  BY <1>4 DEF ToSet
<1>6. \A p \in DOMAIN payments :
         ~ (payments[p].request = t.request /\ payments[p].milestone = t.milestone)
  BY <1>1, <1>2, PaymentOfReleased
<1>7. PaidExactlyOnce'
  BY <1>1, <1>4, <1>5, <1>6 DEF LedgerInv, PaidExactlyOnce
<1>8. treasury' \in Int /\ Solvent'
  BY <1>1 DEF LedgerInv, Solvent
<1> QED BY <1>4, <1>7, <1>8 DEF LedgerInv

LEMMA LedgerStep == BoardInv /\ LedgerInv /\ [Next]_vars => LedgerInv'
<1> SUFFICES ASSUME BoardInv, LedgerInv, [Next]_vars
             PROVE  LedgerInv'
  OBVIOUS
<1>1. CASE Quiet
  BY <1>1 DEF Quiet, LedgerInv, PaidExactlyOnce, Solvent
<1>2. CASE Collects
  BY <1>2 DEF Collects, LedgerInv, PaidExactlyOnce, Solvent
<1>3. ASSUME NEW i \in Ids, Approves(i)
      PROVE  LedgerInv'
  BY <1>3 DEF Approves, LedgerInv, PaidExactlyOnce, Solvent
<1> QED BY <1>1, <1>2, <1>3, MoneyCases, PaysKeepsLedger

LEMMA LedgerInit == Init => LedgerInv
<1> SUFFICES ASSUME Init PROVE LedgerInv
  OBVIOUS
<1>1. requests = <<>> /\ payments = <<>> /\ treasury = 0
  BY DEF Init, BoardInit
<1>2. ReleasedIn(requests) = {}
  <2>1. \A t : t \notin ReleasedIn(requests)
    BY <1>1, InReleased
  <2> QED BY <2>1
<1>3. ToSet(payments) = {}
  BY <1>1 DEF ToSet
<1> QED BY <1>1, <1>2, <1>3 DEF LedgerInv, PaidExactlyOnce, Solvent

LEMMA LedgerInvariant == Spec => []LedgerInv
BY LedgerInit, LedgerStep, RealmBoardInv, PTL DEF Spec

\* Every release was paid exactly once, in full, to the payee of its grant.
THEOREM TranchesPaidOnce == Spec => []PaidExactlyOnce
BY LedgerInvariant, PTL DEF LedgerInv

\* The treasury is never overdrawn, whatever the board approved.
THEOREM TreasuryIsSolvent == Spec => []Solvent
BY LedgerInvariant, PTL DEF LedgerInv

-----------------------------------------------------------------------------
(* The realm implements a grant treasury. *)

\* The amounts of the realm are integers and its ledger a list of payments.
THEOREM RealmTypeCorrect == Spec => []RealmTypeOK
<1> DEFINE Amounts == raised \in Int /\ received \in Int
<1>1. Init => Amounts
  BY DEF Init
<1>2. Amounts /\ [Next]_vars => Amounts'
  <2> SUFFICES ASSUME Amounts, [Next]_vars PROVE Amounts'
    OBVIOUS
  <2>1. ASSUME NEW amount \in Deposits, Fund(amount) \/ BankSend(amount)
        PROVE  Amounts'
    BY <2>1, DepositsAssumption DEF Fund, BankSend, Receive
  <2>2. CASE UNCHANGED <<raised, received>>
    BY <2>2
  <2>3. CASE UNCHANGED vars
    BY <2>3 DEF vars
  <2> QED BY <2>1, <2>2, <2>3 DEF Next, Apply, ApplyFor, ProposeMember, Retract,
             CastVote, OfferProof, JudgeProof, moneyVars
<1>3. Spec => []Amounts
  BY <1>1, <1>2, PTL DEF Spec
<1>4. BoardTypeOK /\ LedgerInv /\ Amounts => RealmTypeOK
  BY DEF LedgerInv, RealmTypeOK
<1> HIDE DEF Amounts
<1> QED BY <1>3, <1>4, RealmBoardInv, LedgerInvariant, PTL DEF BoardInv

LEMMA ApprovalPromises ==
    ASSUME NEW i \in Ids, Approves(i), LedgerInv
    PROVE  [Ledger!Next]_(Ledger!vars)
<1>1. /\ UNCHANGED <<treasury, payments>>
      /\ \A t : t \in PromisedIn(requests') <=>
                   \/ t \in PromisedIn(requests)
                   \/ \E k \in DOMAIN requests[i].milestones :
                         t = Tranche(i, requests[i], k)
      /\ \A t \in PromisedIn(requests) : t.request # i
  BY DEF Approves
<1>2. \A t \in PromisedIn(requests') \ PromisedIn(requests) : t.request = i
  BY <1>1, TrancheFields
<1>3. PromisedIn(requests) \subseteq PromisedIn(requests')
  BY <1>1
<1>4. UNCHANGED ToSet(payments)
  BY <1>1 DEF ToSet
<1>5. CASE PromisedIn(requests') = PromisedIn(requests)
  BY <1>1, <1>4, <1>5 DEF Ledger!vars
<1>6. CASE PromisedIn(requests') # PromisedIn(requests)
  <2>1. Ledger!Promise
    BY <1>1, <1>2, <1>3, <1>4, <1>6 DEF Ledger!Promise
  <2> QED BY <2>1 DEF Ledger!Next
<1> QED BY <1>5, <1>6

LEMMA PaysPays ==
    ASSUME NEW i \in Ids, NEW k \in DOMAIN requests[i].milestones, Pays(i, k),
           BoardInv, LedgerInv
    PROVE  Ledger!Next
<1> DEFINE t == Tranche(i, requests[i], k)
<1>1. /\ payments' = Append(payments, t)
      /\ treasury' = IF t.to = Treasury THEN treasury ELSE treasury - t.amount
      /\ t.amount \in Int /\ k \in Nat
      /\ treasury >= t.amount
      /\ t \in PromisedIn(requests)
      /\ ~ requests[i].milestones[k].released
      /\ ReleasedIn(requests') = ReleasedIn(requests) \cup {t}
      /\ PromisedIn(requests') = PromisedIn(requests)
      /\ \A j \in 1..(k-1) : requests[i].milestones[j].released
  BY DEF Pays
<1>2. t.request = i /\ t.milestone = k
  BY TrancheFields
<1>3. ToSet(payments) = ReleasedIn(requests) /\ PaidExactlyOnce'
  BY PaysKeepsLedger DEF LedgerInv, PaidExactlyOnce
<1>4. ToSet(payments') = ToSet(payments) \cup {t}
  BY <1>1, <1>3 DEF PaidExactlyOnce
<1>5. t \notin ToSet(payments)
  BY <1>1, <1>2, <1>3, InReleased, TrancheFields
<1>6. \A s \in PromisedIn(requests) :
         s.request = i /\ s.milestone < k => s \in ToSet(payments)
  <2> SUFFICES ASSUME NEW s \in PromisedIn(requests), s.request = i, s.milestone < k
               PROVE  s \in ReleasedIn(requests)
    BY <1>3
  <2>1. PICK j \in DOMAIN requests[i].milestones : s = Tranche(i, requests[i], j)
    BY InPromised, TrancheFields
  <2>2. s.milestone = j
    BY <2>1, TrancheFields
  <2>3. requests[i].milestones \in Seq(Milestone)
    BY BoardInvFacts DEF Request
  <2>4. j \in 1..(k-1)
    BY <1>1, <2>2, <2>3
  <2> QED BY <1>1, <2>1, <2>4, InReleased DEF Ids
<1> HIDE DEF t
<1>7. Ledger!Pay(t)
  BY <1>1, <1>2, <1>4, <1>5, <1>6 DEF Ledger!Pay, LedgerInv
<1> QED BY <1>1, <1>7 DEF Ledger!Next

\* Grants are promised whole, each promise is paid at most once, in order and
\* out of coins the treasury holds, and none is ever withdrawn.
THEOREM RealmKeepsPromises == Spec => KeepsPromises
<1>1. Init => Ledger!Init
  <2> SUFFICES ASSUME Init PROVE Ledger!Init
    OBVIOUS
  <2>1. requests = <<>> /\ payments = <<>> /\ treasury = 0
    BY DEF Init, BoardInit
  <2>2. \A t : t \notin PromisedIn(requests)
    BY <2>1, InPromised
  <2>3. ToSet(payments) = {}
    BY <2>1 DEF ToSet
  <2> QED BY <2>1, <2>2, <2>3 DEF Ledger!Init
<1>2. BoardInv /\ LedgerInv /\ [Next]_vars => [Ledger!Next]_(Ledger!vars)
  <2> SUFFICES ASSUME BoardInv, LedgerInv, [Next]_vars
               PROVE  [Ledger!Next]_(Ledger!vars)
    OBVIOUS
  <2>1. CASE Quiet
    BY <2>1 DEF Quiet, Ledger!vars, ToSet
  <2>2. CASE Collects
    <3>1. treasury' > treasury /\ UNCHANGED <<payments, requests>>
      BY <2>2 DEF Collects, LedgerInv
    <3>2. Ledger!Deposit
      BY <3>1 DEF Ledger!Deposit, ToSet
    <3> QED BY <3>2 DEF Ledger!Next
  <2> QED BY <2>1, <2>2, MoneyCases, ApprovalPromises, PaysPays
<1> QED BY <1>1, <1>2, RealmBoardInv, LedgerInvariant, PTL
        DEF Spec, KeepsPromises, Ledger!Spec

-----------------------------------------------------------------------------
(* No coin appears or disappears. *)

LEMMA OutflowType ==
    ASSUME NEW t \in Payment PROVE Outflow(t) \in Int
BY DEF Payment, Outflow

\* A payment more is its amount more, nothing when the treasury pays itself.
LEMMA PaidOutGrows ==
    ASSUME payments \in Seq(Payment), NEW t \in Payment, payments' = Append(payments, t)
    PROVE  PaidOut \in Int /\ PaidOut' = PaidOut + Outflow(t)
<1> DEFINE n == Len(payments)
           f == [p \in DOMAIN payments |-> Outflow(payments[p])]
           g == [p \in DOMAIN payments' |-> Outflow(payments'[p])]
<1>1. /\ n \in Nat /\ DOMAIN payments = 1..n /\ DOMAIN payments' = (1..n) \cup {n + 1}
      /\ \A p \in 1..n : payments'[p] = payments[p] /\ payments[p] \in Payment
      /\ payments'[n + 1] = t /\ n + 1 \notin 1..n
  OBVIOUS
<1>2. /\ DOMAIN f = 1..n /\ DOMAIN g = (1..n) \cup {n + 1}
      /\ \A p \in 1..n : f[p] \in Int /\ g[p] = f[p]
      /\ g[n + 1] = Outflow(t) /\ Outflow(t) \in Int
  BY <1>1, OutflowType
<1>3. PaidOut = SumFunction(f) /\ PaidOut' = SumFunction(g)
  BY DEF PaidOut
<1> HIDE DEF f, g
<1>4. IsFiniteSet(1..n)
  BY <1>1, FS_Interval
<1> HIDE DEF n
<1>5. \A p \in (1..n) \cup {n + 1} : g[p] \in Int
  BY <1>2
<1>6. SumFunctionOnSet(g, (1..n) \cup {n + 1}) = SumFunctionOnSet(g, 1..n) + g[n + 1]
  BY <1>1, <1>4, <1>5, SumExtend
<1>7. SumFunctionOnSet(g, 1..n) = SumFunctionOnSet(f, 1..n)
  BY <1>2, <1>4, SumSame
<1>8. SumFunctionOnSet(f, 1..n) \in Int
  BY <1>2, <1>4, SumType
<1> QED BY <1>2, <1>3, <1>6, <1>7, <1>8 DEF SumFunction

ConservationInv ==
    raised \in Int /\ received \in Int /\ Conservation

LEMMA ConservationInit == Init => ConservationInv
<1> SUFFICES ASSUME Init PROVE ConservationInv
  OBVIOUS
<1> DEFINE f == [p \in DOMAIN payments |-> Outflow(payments[p])]
<1>1. payments = <<>> /\ treasury = 0 /\ raised = 0 /\ received = 0
  BY DEF Init
<1>2. DOMAIN f = {}
  BY <1>1
<1>3. PaidOut = SumFunction(f)
  BY DEF PaidOut
<1> HIDE DEF f
<1>4. PaidOut = 0
  BY <1>2, <1>3, FS_EmptySet, SumOfZeros DEF SumFunction
<1> QED BY <1>1, <1>4 DEF ConservationInv, Conservation

LEMMA ConservationStep ==
    BoardInv /\ LedgerInv /\ ConservationInv /\ [Next]_vars => ConservationInv'
<1> SUFFICES ASSUME BoardInv, LedgerInv, ConservationInv, [Next]_vars
             PROVE  ConservationInv'
  OBVIOUS
<1>0. /\ payments \in Seq(Payment) /\ treasury \in Int
      /\ raised \in Int /\ received \in Int
      /\ treasury = received - PaidOut /\ raised <= received
  BY DEF LedgerInv, ConservationInv, Conservation
<1>1. PaidOut \in Int
  <2> DEFINE f == [p \in DOMAIN payments |-> Outflow(payments[p])]
  <2>1. DOMAIN f = 1..Len(payments) /\ \A p \in 1..Len(payments) : f[p] \in Int
    BY <1>0, OutflowType
  <2>2. IsFiniteSet(1..Len(payments))
    BY <1>0, FS_Interval
  <2> HIDE DEF f
  <2>3. SumFunction(f) \in Int
    BY <2>1, <2>2, SumType DEF SumFunction
  <2> QED BY <2>3 DEF PaidOut, f
<1>2. ASSUME NEW amount \in Deposits, Fund(amount) \/ BankSend(amount)
      PROVE  ConservationInv'
  <2>1. /\ amount \in Int /\ amount > 0 /\ payments' = payments
        /\ received' = received + amount /\ treasury' = treasury + amount
        /\ raised' = raised + amount \/ raised' = raised
    BY <1>2, DepositsAssumption DEF Fund, BankSend, Receive
  <2>2. PaidOut' = PaidOut
    BY <2>1 DEF PaidOut
  <2> QED BY <1>0, <1>1, <2>1, <2>2 DEF ConservationInv, Conservation
<1>3. CASE UNCHANGED moneyVars
  <2>1. PaidOut' = PaidOut /\ UNCHANGED <<treasury, raised, received>>
    BY <1>3 DEF PaidOut, moneyVars
  <2> QED BY <1>0, <2>1 DEF ConservationInv, Conservation
<1>4. ASSUME NEW a \in Callers, NEW i \in Ids, NEW answer \in Answer,
             NEW k \in DOMAIN requests[i].milestones, JudgeProof(a, i, k, answer)
      PROVE  ConservationInv'
  <2>1. UNCHANGED <<raised, received>>
    BY <1>4 DEF JudgeProof
  <2>2. CASE Quiet
    <3>1. UNCHANGED moneyVars
      BY <2>1, <2>2 DEF Quiet, moneyVars
    <3> QED BY <1>3, <3>1
  <2>3. CASE Pays(i, k)
    <3> DEFINE t == Tranche(i, requests[i], k)
    <3>1. /\ payments' = Append(payments, t)
          /\ treasury' = IF t.to = Treasury THEN treasury ELSE treasury - t.amount
          /\ t.amount \in Int /\ t.to \in Address /\ i \in Nat /\ k \in Nat
      BY <2>3 DEF Pays
    <3>2. t \in Payment
      BY <3>1 DEF Tranche, Payment
    <3> HIDE DEF t
    <3>3. PaidOut' = PaidOut + Outflow(t)
      BY <1>0, <3>1, <3>2, PaidOutGrows
    <3> QED BY <1>0, <1>1, <2>1, <3>1, <3>3 DEF Outflow, ConservationInv, Conservation
  <2> QED BY <1>4, <2>2, <2>3, ReviewPays
<1>5. CASE UNCHANGED vars
  BY <1>3, <1>5 DEF vars, moneyVars
<1> QED BY <1>2, <1>3, <1>4, <1>5
        DEF Next, Apply, ApplyFor, ProposeMember, Retract, CastVote, OfferProof

\* Each release is paid once and in full, out of coins that are there, and every coin
\* that arrived is in the treasury or was paid out, whoever the payees are.
THEOREM BooksAddUp == Spec => []PaysWhatItHas
<1>1. Spec => []ConservationInv
  BY ConservationInit, ConservationStep, RealmBoardInv, LedgerInvariant, PTL DEF Spec
<1>2. LedgerInv /\ ConservationInv => PaysWhatItHas
  BY DEF LedgerInv, ConservationInv, PaysWhatItHas
<1> QED BY <1>1, <1>2, LedgerInvariant, PTL
=============================================================================
