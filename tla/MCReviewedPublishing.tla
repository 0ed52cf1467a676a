----------------------- MODULE MCReviewedPublishing ------------------------
(* Small instances of ReviewedPublishing for TLC.                           *)
EXTENDS ReviewedPublishing, TLC

CONSTANTS p1, p2, w1, r1, r2

TwoPosts == {p1, p2}
OwnKeys == [p \in Posts |-> p]
TwoReviewers == {w1, r1, r2}

\* Answers that leave a post in each of the ways a request can find it.
MixedAnswers == AllAnswers \ {"transient"}

EitherReviewer == Permutations(Reviewers)

=============================================================================
