------------------------------- MODULE Review -------------------------------
(***************************************************************************)
(* ReviewCore (src/review/core.rs): review sessions and their verdicts,    *)
(* and the choice of the latest session that the settlement gateway makes  *)
(* (src/settlement/gateway.rs, latest_review_session).                     *)
(*                                                                         *)
(* Criteria, scores and feedback are only measured, before anything        *)
(* changes; the task of a session is left out, it follows its target.      *)
(***************************************************************************)
EXTENDS Naturals, Sequences, FiniteSets

CONSTANTS
  Reviewers,     \* assignments that may be named as reviewers
  Targets,       \* assignments that may be reviewed
  ReviewTimes,   \* times a review may be requested at
  PriorReviews,  \* sessions for other work that took the first ids
  MaxReviews     \* bound of the model: the last number in a "review-N"

ASSUME ReviewAssumption ==
  ReviewTimes \subseteq Nat /\ MaxReviews \in Nat /\ PriorReviews \in 0 .. MaxReviews

VARIABLE reviews  \* ReviewSession records by the number of their id

-----------------------------------------------------------------------------
(* Types.  ArtifactUnavailable, HashMismatch and InvalidFormat are told    *)
(* apart by no code and stand under "Failed".                              *)

ReviewId == PriorReviews + 1 .. MaxReviews

VerdictKind == {"Passed", "Failed"}

ReviewSession ==
  [target : Targets, members : SUBSET Reviewers,
   verdicts : Seq([by : Reviewers, kind : VerdictKind]),
   createdAt : ReviewTimes]

(* ReviewArtifactEvidence: what the caller read of the review assignment.  *)
Evidence(by, status, hasOutput) ==
  [by |-> by, status |-> status, hasOutput |-> hasOutput]

-----------------------------------------------------------------------------
(* Queries.                                                                *)

SessionsOf(target) == {r \in DOMAIN reviews : reviews[r].target = target}

VerdictsBy(r, reviewer) ==
  {i \in DOMAIN reviews[r].verdicts : reviews[r].verdicts[i].by = reviewer}

Verdict(r, reviewer) ==
  reviews[r].verdicts[CHOOSE i \in VerdictsBy(r, reviewer) : TRUE].kind

(* ReviewId derives Ord from its String: "review-10" < "review-9".         *)
Digits[n \in Nat] ==
  IF n < 10 THEN <<n>> ELSE Append(Digits[n \div 10], n % 10)

ComesBefore(s, t) ==
  \/ \E k \in DOMAIN s \cap DOMAIN t :
       s[k] < t[k] /\ \A j \in 1 .. k - 1 : s[j] = t[j]
  \/ Len(s) < Len(t) /\ \A j \in DOMAIN s : s[j] = t[j]

IsYounger(r, q) ==
  \/ reviews[q].createdAt < reviews[r].createdAt
  \/ /\ reviews[q].createdAt = reviews[r].createdAt
     /\ ComesBefore(Digits[q], Digits[r])

(* fault: the session with the most verdicts counts as the latest.         *)
MostJudged(ids) ==
  CHOOSE r \in ids : \A q \in ids \ {r} :
    \/ Len(reviews[q].verdicts) < Len(reviews[r].verdicts)
    \/ Len(reviews[q].verdicts) = Len(reviews[r].verdicts) /\ IsYounger(r, q)

(* latest_review_session: by creation time, then by id as a string.        *)
Latest(ids) == CHOOSE r \in ids : \A q \in ids \ {r} : IsYounger(r, q)

-----------------------------------------------------------------------------
(* Operations.                                                             *)

ReviewInit == reviews = [r \in {} |-> {}]

(* fault: the counter is read before it moves.                             *)
CountBefore == PriorReviews + Cardinality(DOMAIN reviews)

NextReviewId == PriorReviews + 1 + Cardinality(DOMAIN reviews)

RequestReview(target, members, at) ==
  /\ Cardinality(DOMAIN reviews) < MaxReviews - PriorReviews
  /\ reviews' = [r \in DOMAIN reviews \cup {NextReviewId} |->
                   IF r = NextReviewId
                   THEN [target |-> target, members |-> members,
                         verdicts |-> << >>, createdAt |-> at]
                   ELSE reviews[r]]

(* fault: only the last verdict is compared with the new one.              *)
RepeatsLast(r, by) ==
  LET last == Len(reviews[r].verdicts)
  IN  last > 0 /\ reviews[r].verdicts[last].by = by

(* DuplicateVerdict.                                                       *)
HasJudged(r, by) == VerdictsBy(r, by) # {}

(* validate_review_artifact, and the checks of submit in its order.        *)
CanSubmitVerdict(r, evidence) ==
  /\ evidence.status = "Submitted"
  /\ evidence.hasOutput
  /\ r \in DOMAIN reviews
  /\ evidence.by \in reviews[r].members
  /\ ~HasJudged(r, evidence.by)

SubmitVerdict(r, evidence, kind) ==
  /\ CanSubmitVerdict(r, evidence)
  /\ reviews' = [reviews EXCEPT ![r].verdicts =
                   Append(@, [by |-> evidence.by, kind |-> kind])]

ReviewNext ==
  \/ \E target \in Targets, members \in SUBSET Reviewers, at \in ReviewTimes :
       RequestReview(target, members, at)
  \/ \E r \in ReviewId, by \in Reviewers, hasOutput \in BOOLEAN,
        status \in {"Assigned", "Submitted"}, kind \in VerdictKind :
       SubmitVerdict(r, Evidence(by, status, hasOutput), kind)

ReviewSpec == ReviewInit /\ [][ReviewNext]_reviews

-----------------------------------------------------------------------------
(* Properties.                                                             *)

(* Ids are given out without gaps and every session has its fields' types  *)
(* (core.rs:17-22).                                                        *)
ReviewTypeOK ==
  \E n \in PriorReviews .. MaxReviews :
    reviews \in [PriorReviews + 1 .. n -> ReviewSession]

(* A session never holds two verdicts of one reviewer, nor one of a        *)
(* reviewer it did not name: "all passed" then means that everybody who    *)
(* was asked agreed (core.rs:79-97).                                       *)
OneVerdictEach ==
  \A r \in DOMAIN reviews :
    LET given == reviews[r].verdicts
    IN  /\ \A i \in DOMAIN given : given[i].by \in reviews[r].members
        /\ \A i, j \in DOMAIN given : given[i].by = given[j].by => i = j

(* A session stays what it was asked to be and its verdicts are only added *)
(* to, so that what a settlement has read of it stays true while it awaits *)
(* the next answer (core.rs:38-48, 99-106).                                *)
VerdictsAreFinal ==
  [][\A r \in DOMAIN reviews :
       LET old == reviews[r].verdicts
           new == reviews'[r].verdicts
       IN  /\ r \in DOMAIN reviews'
           /\ [reviews'[r] EXCEPT !.verdicts = old] = reviews[r]
           /\ Len(old) <= Len(new) /\ SubSeq(new, 1, Len(old)) = old]_reviews

(* Once another session of the same target has taken over, a session never *)
(* becomes the latest again: only a session that is just being requested   *)
(* can become the latest (gateway.rs:284-290).                             *)
NeverLatestAgain ==
  [][\A target \in Targets :
       LET latest == Latest(SessionsOf(target))
       IN  SessionsOf(target) # {}
             => \/ Latest(SessionsOf(target))' = latest
                \/ Latest(SessionsOf(target))' \notin DOMAIN reviews]_reviews

=============================================================================
