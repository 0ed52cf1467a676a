----------------------- MODULE MCScheduledPublishing -----------------------
(* Small instances of ScheduledPublishing for TLC.                          *)
EXTENDS ScheduledPublishing, TLC

CONSTANTS p1, p2, w1, w2

TwoPosts == {p1, p2}

\* Every post has a key of its own.
OwnKeys == [p \in Posts |-> p]

TwoPublishers == {w1, w2}

\* One answer of each kind a pass handles in its own way.  The platform's own
\* spacing is not among them: it is counted nowhere in the code, so nothing
\* settles if a platform answers it for ever.
MainAnswers == {"ok", "wait", "transient", "refused", "database"}

EitherPost == Permutations(Posts)

\* The answers after which publishers may disagree about a post.
HardAnswers == {"ok", "lost", "database"}

=============================================================================
