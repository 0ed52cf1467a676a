---------------------------- MODULE PostLifecycle ----------------------------
(***************************************************************************)
(* What the scheduled publisher promises about each post, without saying   *)
(* who does it: no publishers, batches, locks, limits or clocks.  A post   *)
(* is planned, taken by somebody, and then delivered, put back or given up *)
(* on.  It may be delivered only while every earlier delivery is excused,  *)
(* that is, came to an answer that was lost.                               *)
(***************************************************************************)
EXTENDS Naturals

CONSTANT Posts

VARIABLES
    life,       \* post |-> where it is in its life
    delivered,  \* post |-> times its platform took it
    excused     \* post |-> those nobody could know of

vars == <<life, delivered, excused>>

Lives == {"absent", "waiting", "taken", "published", "failed", "cancelled"}

Init ==
    /\ life = [p \in Posts |-> "absent"]
    /\ delivered = [p \in Posts |-> 0]
    /\ excused = [p \in Posts |-> 0]

\* Nobody knows of a delivery of p.
Undelivered(p) == delivered[p] <= excused[p]

Becomes(p, l) == life' = [life EXCEPT ![p] = l]

Plan(p) ==
    /\ life[p] = "absent" /\ Becomes(p, "waiting")
    /\ UNCHANGED <<delivered, excused>>

Withdraw(p) ==
    /\ life[p] = "waiting" /\ Becomes(p, "cancelled")
    /\ UNCHANGED <<delivered, excused>>

\* Somebody takes the posts of S and gives up on those of T, which were taken
\* long ago.
Take(S, T) ==
    /\ \A p \in S : life[p] = "waiting"
    /\ \A p \in T : life[p] = "taken"
    /\ life' = [p \in Posts |-> IF p \in S THEN "taken" ELSE IF p \in T THEN "failed" ELSE life[p]]
    /\ UNCHANGED <<delivered, excused>>

\* Put back: also a post that was given up on while its taker was only slow.
PutBack(S) ==
    /\ \A p \in S : life[p] \in {"taken", "failed"} /\ Undelivered(p)
    /\ life' = [p \in Posts |-> IF p \in S THEN "waiting" ELSE life[p]]
    /\ UNCHANGED <<delivered, excused>>

GiveUp(p) ==
    /\ life[p] \in {"taken", "failed"} /\ Becomes(p, "failed")
    /\ UNCHANGED <<delivered, excused>>

\* The platform takes the post: it is known, or it is never known (and the
\* post may be tried again), or its taker comes to grief before recording it.
Deliver(p) ==
    /\ life[p] = "taken" /\ Undelivered(p)
    /\ delivered' = [delivered EXCEPT ![p] = @ + 1]
    /\ \/ Becomes(p, "published") /\ UNCHANGED excused
       \/ /\ \E l \in {"waiting", "failed"} : Becomes(p, l)
          /\ excused' = [excused EXCEPT ![p] = @ + 1]
       \/ UNCHANGED <<life, excused>>

Next ==
    \/ \E p \in Posts : Plan(p) \/ Withdraw(p) \/ GiveUp(p) \/ Deliver(p)
    \/ \E S, T \in SUBSET Posts : Take(S, T)
    \/ \E S \in SUBSET Posts : PutBack(S)

Spec == Init /\ [][Next]_vars

=============================================================================
