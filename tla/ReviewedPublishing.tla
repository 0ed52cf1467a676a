------------------------- MODULE ReviewedPublishing -------------------------
(***************************************************************************)
(* Content agents' posts from their approval card to the platform: the     *)
(* scheduled publisher composed with the people who approve, reject, edit, *)
(* publish and decline posts, and with the job that expires old cards.     *)
(*                                                                         *)
(* Every post starts as a draft with one pending approval item.  A request *)
(* reads the item and the post first and writes later, on what it read:    *)
(* neither row is locked in between, and several requests may be about the *)
(* same post.  The library's buttons (api/v1/content.py) decide the item   *)
(* while it is pending and act on the post alone once it is not.           *)
(* Releasing a post (assets.release) runs publish_due inside the request   *)
(* for a social post that is due, and calls the platform directly          *)
(* (assets.publish) for other kinds.                                       *)
(***************************************************************************)
EXTENDS ScheduledPublishing

CONSTANTS
    Reviewers,      \* requests about posts and their items
    MaxReviews      \* bound: requests opened in one behaviour

ASSUME ReviewConstants ==
    /\ Reviewers \subseteq Publishers \ Schedulers
    /\ IsFiniteSet(Publishers)
    /\ MaxReviews \in Nat

VARIABLES
    item,       \* post |-> ApprovalStatus of its item
    phase,      \* request |-> how far it is
    asked,      \* request |-> what it is for
    about,      \* request |-> its post
    seen,       \* request |-> the post's status in its memory
    reviews,    \* requests opened so far
    releases    \* ghost: post |-> times somebody's request released it

reviewVars == <<item, phase, asked, about, seen, reviews, releases>>
allVars    == <<vars, reviewVars>>

\* Decisions on a pending item; the library's buttons for a post without one;
\* saving an edit; expire_stale reaching the item.
OnItem    == {"approve", "reject", "expire"}
InLibrary == {"publish", "refuse"}
Asks      == OnItem \cup InLibrary \cup {"edit"}

InitReviewed ==
    /\ InitWith("draft")
    /\ item = [p \in Posts |-> "pending"]
    /\ phase = [a \in Reviewers |-> "none"]
    /\ asked = [a \in Reviewers |-> "approve"]
    /\ about = [a \in Reviewers |-> NoPost]
    /\ seen = [a \in Reviewers |-> "draft"]
    /\ reviews = 0
    /\ releases = [p \in Posts |-> 0]

-----------------------------------------------------------------------------
(* A request opens: the handler reads the post and its item.                *)

Open(a, p, what) ==
    /\ phase[a] = "none" /\ pc[a] = "idle" /\ reviews < MaxReviews
    /\ what \in OnItem => item[p] = "pending"
    /\ what \in InLibrary => item[p] # "pending"
    /\ phase' = [phase EXCEPT ![a] = "opened"]
    /\ asked' = [asked EXCEPT ![a] = what]
    /\ about' = [about EXCEPT ![a] = p]
    /\ seen' = [seen EXCEPT ![a] = status[p]]
    /\ reviews' = reviews + 1
    /\ UNCHANGED <<vars, item, releases>>

\* A release sends through the same connectors, so it waits for the stop.
OpenRelease(a, p) == ~Halted /\ \E what \in {"approve", "publish"} : Open(a, p, what)
OpenRefusal(a, p) == \E what \in {"reject", "refuse", "expire"} : Open(a, p, what)
OpenEdit(a, p)    == status[p] \notin {"publishing", "published"} /\ Open(a, p, "edit")

Opened(a, what) == phase[a] = "opened" /\ asked[a] \in what
Releasing(a)    == Opened(a, {"approve", "publish"})

\* The request is over, however it went.
Close(a) ==
    /\ phase' = [phase EXCEPT ![a] = "none"]
    /\ about' = [about EXCEPT ![a] = NoPost]
    /\ asked' = [asked EXCEPT ![a] = "approve"]
    /\ seen' = [seen EXCEPT ![a] = "draft"]
    /\ UNCHANGED reviews

\* The post's status once the request has written value: a column is written
\* only when the request's copy of it has another value.
Written(a, value) ==
    [status EXCEPT ![about[a]] = IF seen[a] # value THEN value ELSE @]

\* approve(), reject() and expire_stale() write the decision without looking at
\* the item again.
Decide(p, decision) == item' = [item EXCEPT ![p] = decision]

\* A released post's item, when the request came from it.
Approved(a) == IF asked[a] = "approve" THEN Decide(about[a], "approved") ELSE UNCHANGED item

NoteRelease(p) == releases' = [releases EXCEPT ![p] = @ + 1]

-----------------------------------------------------------------------------
(* release(), by what it read and the post's date.                          *)

\* Already published: nothing to do.
ReleaseDone(a) ==
    /\ Releasing(a) /\ seen[a] = "published"
    /\ Approved(a) /\ Close(a)
    /\ UNCHANGED <<vars, releases>>

\* A date ahead, or a due social post while a stop is on (publish_due returns
\* at once): the post goes on the schedule and its item is approved.
ReleaseLater(a) ==
    LET p == about[a] IN
    /\ Releasing(a) /\ seen[a] # "published" /\ ~Locked(p)
    /\ status' = Written(a, "scheduled")
    /\ \/ due' = [due EXCEPT ![p] = FALSE]
       \/ Halted /\ p \in Social /\ due' = [due EXCEPT ![p] = TRUE]
    /\ Touch(p)
    /\ NoteRelease(p) /\ Approved(a) /\ Close(a)
    /\ UNCHANGED <<recent, attempts, deferrals, stops, passVars, crashes, ghostVars>>

\* _release_social_now: on the schedule for now, and publish_due for it alone.
\* Up to the claim's commit this is one transaction, which waits for the row.
\* A row that did not get onto the schedule is not claimed: the pass is over,
\* and the request goes by its copy, which says "scheduled".
ReleaseNow(a) ==
    LET p == about[a]
        mine == IF Written(a, "scheduled")[p] = "scheduled" THEN {p} ELSE {} IN
    /\ Releasing(a) /\ seen[a] # "published"
    /\ p \in Social /\ ~Halted /\ ~Locked(p)
    /\ \E lost \in SUBSET Posts :
          /\ Takes(lost, {q \in Posts \ {p} : Interrupted(q)})
          /\ status' = [q \in Posts |->
                CASE q \in mine  -> "publishing"
                  [] q \in lost  -> "failed"
                  [] OTHER       -> status[q]]
          /\ stale' = [q \in Posts |-> stale[q] /\ q \notin lost \cup {p}]
    /\ due' = [due EXCEPT ![p] = TRUE]
    /\ batch' = [batch EXCEPT ![a] = mine]
    /\ Goto(a, IF mine = {} THEN "idle" ELSE "count")
    /\ phase' = [phase EXCEPT ![a] = "passing"]
    /\ NoteRelease(p)
    /\ UNCHANGED <<recent, attempts, deferrals, stops, current, posted, reloaded,
                   crashes, ghostVars, item, asked, about, seen, reviews>>

\* The pass inside the request.  Each step that reads or writes the post
\* refreshes the request's copy of it; the end of the pass does not.
ReviewerPass(a) ==
    /\ phase[a] = "passing" /\ pc[a] # "idle"
    /\ Pass(a)
    /\ seen' = IF pc[a] = "next" /\ batch[a] = {} THEN seen
               ELSE [seen EXCEPT ![a] = status'[about[a]]]
    /\ UNCHANGED <<item, phase, asked, about, reviews, releases>>

\* Mutant: only a post that went out at once closes its item.
FinishIfPublished(a) ==
    /\ phase[a] = "passing" /\ pc[a] = "idle"
    /\ IF seen[a] = "published" THEN Approved(a) ELSE UNCHANGED item
    /\ Close(a)
    /\ UNCHANGED <<vars, releases>>

\* Back in the request: a post that failed keeps its item as it is, with the
\* reason; otherwise the item is approved.
FinishRelease(a) ==
    /\ phase[a] = "passing" /\ pc[a] = "idle"
    /\ IF seen[a] = "failed" THEN UNCHANGED item ELSE Approved(a)
    /\ Close(a)
    /\ UNCHANGED <<vars, releases>>

-----------------------------------------------------------------------------
(* publish(): other kinds are sent from the request itself, with no claim.  *)

CallPlatform(a) ==
    /\ Releasing(a) /\ seen[a] # "published" /\ about[a] \notin Social
    /\ phase' = [phase EXCEPT ![a] = "direct"]
    /\ NoteRelease(about[a])
    /\ UNCHANGED <<vars, item, asked, about, seen, reviews>>

DirectOk(a) ==
    LET p == about[a] IN
    /\ phase[a] = "direct" /\ ~Locked(p) /\ "ok" \in Answers
    /\ status' = [status EXCEPT ![p] = "published"]
    /\ recent' = [recent EXCEPT ![p] = TRUE]
    /\ Touch(p)
    /\ reached' = [reached EXCEPT ![p] = @ + 1]
    /\ Approved(a) /\ Close(a)
    /\ UNCHANGED <<due, attempts, deferrals, stops, passVars, crashes, unsure, afterStop,
                   keptVars, releases>>

\* A platform that asks to wait puts the post off; the item counts as approved.
DirectWait(a) ==
    LET p == about[a] IN
    /\ phase[a] = "direct" /\ ~Locked(p)
    /\ \/ "wait" \in Answers /\ deferrals' = [deferrals EXCEPT ![p] = @ + 1]
       \/ "spacing" \in Answers /\ UNCHANGED deferrals
    /\ status' = Written(a, "scheduled") /\ due' = [due EXCEPT ![p] = FALSE]
    /\ Touch(p)
    /\ Approved(a) /\ Close(a)
    /\ UNCHANGED <<recent, attempts, stops, passVars, crashes, ghostVars, releases>>

\* Any other answer fails the post and leaves the item as it is.
DirectFail(a) ==
    LET p == about[a] IN
    /\ phase[a] = "direct" /\ ~Locked(p)
    /\ \/ Answers \cap {"transient", "refused"} # {} /\ UNCHANGED <<reached, unsure>>
       \/ /\ "lost" \in Answers
          /\ reached' = [reached EXCEPT ![p] = @ + 1]
          /\ unsure' = [unsure EXCEPT ![p] = @ + 1]
    /\ status' = Written(a, "failed") /\ Touch(p) /\ Close(a)
    /\ UNCHANGED <<due, recent, attempts, deferrals, stops, passVars, crashes, afterStop,
                   keptVars, item, releases>>

-----------------------------------------------------------------------------
(* Declining, editing, expiring.                                            *)

\* The decision of a card, "rejected" or "expired"; the library's has none.
Declined(a) ==
    CASE asked[a] = "reject" -> Decide(about[a], "rejected")
      [] asked[a] = "expire" -> Decide(about[a], "expired")
      [] OTHER               -> UNCHANGED item

\* Both ways to decline leave alone only a post read as published.  The card's
\* dates the row again in any case, the library's only with a new status.
Reject(a) ==
    LET p == about[a] IN
    /\ Opened(a, {"reject", "refuse"})
    /\ IF seen[a] = "published" \/ (asked[a] = "refuse" /\ seen[a] = "rejected")
       THEN UNCHANGED <<status, stale>>
       ELSE ~Locked(p) /\ status' = Written(a, "rejected") /\ Touch(p)
    /\ Declined(a) /\ Close(a)
    /\ UNCHANGED <<due, recent, attempts, deferrals, stops, passVars, crashes, ghostVars, releases>>

\* expire_stale closes the item and leaves the post alone.
Expire(a) ==
    /\ Opened(a, {"expire"})
    /\ Declined(a) /\ Close(a)
    /\ UNCHANGED <<vars, releases>>

\* update_asset: a post that failed is a draft again, whatever its item says,
\* and any other may get a new date (which a release sets for the rest).
Edit(a) ==
    LET p == about[a] IN
    /\ Opened(a, {"edit"}) /\ ~Locked(p)
    /\ status' = IF seen[a] = "failed" THEN Written(a, "draft") ELSE status
    /\ \E now \in (IF seen[a] = "scheduled" THEN BOOLEAN ELSE {due[p]}) : due' = [due EXCEPT ![p] = now]
    /\ Touch(p) /\ Close(a)
    /\ UNCHANGED <<recent, attempts, deferrals, stops, passVars, crashes, ghostVars, item, releases>>

\* The process serving the request dies.  What it committed stays: a claimed
\* post is left "publishing" and its item pending.
ReviewerCrash(a) ==
    /\ phase[a] # "none"
    /\ \/ Crash(a)
       \/ /\ pc[a] = "idle" /\ crashes < MaxCrashes
          /\ crashes' = crashes + 1
          /\ \/ UNCHANGED reached
             \/ phase[a] = "direct" /\ reached' = [reached EXCEPT ![about[a]] = @ + 1]
          /\ UNCHANGED <<rowVars, stops, passVars, unsure, afterStop, keptVars>>
    /\ Close(a)
    /\ UNCHANGED <<item, releases>>

-----------------------------------------------------------------------------
Review(a) ==
    \/ \E p \in Posts : OpenRelease(a, p) \/ OpenRefusal(a, p) \/ OpenEdit(a, p)
    \/ ReleaseDone(a) \/ ReleaseLater(a) \/ ReleaseNow(a)
    \/ ReviewerPass(a) \/ FinishRelease(a)
    \/ CallPlatform(a) \/ DirectOk(a) \/ DirectWait(a) \/ DirectFail(a)
    \/ Reject(a) \/ Expire(a) \/ Edit(a) \/ ReviewerCrash(a)

\* What goes on without a reviewer: cancelling, stops, time, other publishers.
Elsewhere ==
    /\ \/ \E p \in Posts : Cancel(p) \/ Time(p)
       \/ \E k \in StopKinds : Stop(k) \/ Resume(k)
       \/ \E w \in Publishers \ Reviewers : Pass(w) \/ Crash(w)
    /\ UNCHANGED reviewVars

NextReviewed == Elsewhere \/ \E a \in Reviewers : Review(a)

SpecReviewed == InitReviewed /\ [][NextReviewed]_allVars

-----------------------------------------------------------------------------
(* Properties.                                                              *)

ReviewTypeOK ==
    /\ TypeOK
    /\ item \in [Posts -> {"pending", "approved", "rejected", "expired"}]
    /\ phase \in [Reviewers -> {"none", "opened", "passing", "direct"}]
    /\ asked \in [Reviewers -> Asks]
    /\ about \in [Reviewers -> Posts \cup {NoPost}]
    /\ seen \in [Reviewers -> Statuses]
    /\ reviews \in 0..MaxReviews
    /\ releases \in [Posts -> Nat]

\* However many requests, publishers, stops, deaths and database errors meet on
\* a post, it reaches its platform at most once for each time somebody's request
\* released it, and once more for each answer that was lost: no pass, retry or
\* recovery sends it by itself.
SentAsReleased == \A p \in Posts : reached[p] <= releases[p] + unsure[p]

\* What a process that died had not committed is not known to anybody.
AllAlive == crashes = 0

\* A post waits for a person until somebody approves: as long as no process has
\* died, nothing is on the schedule, in a publisher's hands or out while its
\* item is pending and no approval of it is at work, however requests overlap.
NothingSentUndecided ==
    AllAlive =>
        \A p \in Posts :
            /\ item[p] = "pending"
            /\ \A a \in Reviewers : about[a] = p => asked[a] # "approve"
            => status[p] \notin Active

\* A publisher that has p in hand puts it back, still to be sent.
PutsBack(p) == status'[p] = "scheduled" /\ \E w \in Publishers : p \in batch[w]

\* A direct call about p was under way when it was declined.
CalledFor(p) == \E a \in Reviewers : phase[a] = "direct" /\ about[a] = p

\* A declined or cancelled post does not go out and is not taken up again, unless
\* somebody releases it or it was being sent, or about to be, when declined.
RejectedStaysBack(p) ==
    status[p] = "rejected" =>
        \/ status'[p] \notin Active /\ reached'[p] = reached[p]
        \/ releases'[p] > releases[p]
        \/ PutsBack(p) /\ reached'[p] = reached[p]
        \/ CalledFor(p)

RejectedNeverSent == [][\A p \in Posts : RejectedStaysBack(p)]_allVars

-----------------------------------------------------------------------------
(* The inductive invariants behind them.                                    *)

\* A request has a post, runs a pass only to release it, and claims no other.
RequestShape ==
    \A a \in Reviewers :
        /\ phase[a] # "none" <=> about[a] \in Posts
        /\ phase[a] # "passing" => pc[a] = "idle"
        /\ pc[a] # "claim"
        /\ pc[a] = "count" => batch[a] # {}
        /\ batch[a] \subseteq {about[a]}
        /\ current[a] \in {about[a], NoPost}

ShapeInv == ReviewTypeOK /\ PassShape /\ RequestShape

\* One publisher at a time is sending a post, and its row says so.
SendingRows ==
    \A w \in Publishers, p \in Posts :
        Sends(w, p) => status[p] = "publishing" /\ \A v \in Publishers : Sends(v, p) => v = w

\* Those who may still send p: a publisher that has it in hand and did not meet a
\* database error with it, and a request that calls its platform.
InHand(w, p)  == p \in batch[w] \/ (current[w] = p /\ pc[w] # "undo")
Calling(w, p) == w \in Reviewers /\ phase[w] = "direct" /\ about[w] = p
Senders(p)    == {w \in Publishers : InHand(w, p) \/ Calling(w, p)}

\* Every right to send a post, held or left on the schedule, comes from a release
\* or from an answer that was lost.
SendsAccounted ==
    \A p \in Posts :
        reached[p] + Cardinality(Senders(p)) + (IF status[p] = "scheduled" THEN 1 ELSE 0)
            <= releases[p] + unsure[p]

\* Releases alone run a pass or call a platform, and the library's are of decided
\* posts, whose item never opens again.
OnlyReleasesSend ==
    \A a \in Reviewers :
        /\ phase[a] \in {"passing", "direct"} => asked[a] \in {"approve", "publish"}
        /\ phase[a] # "none" /\ asked[a] = "publish" => item[about[a]] # "pending"

\* An approval of p whose pass has done its part, and which will close its item.
WillApprove(a, p) ==
    /\ about[a] = p /\ asked[a] = "approve" /\ phase[a] = "passing"
    /\ pc[a] \in {"idle", "next"} /\ batch[a] = {} /\ seen[a] # "failed"

\* p is not on the schedule nor out, and approvals of it alone have it in hand.
InApproval(p) ==
    /\ status[p] \notin {"scheduled", "published"}
    /\ \A w \in Publishers :
          Holds(w, p) => w \in Reviewers /\ about[w] = p /\ asked[w] = "approve"
    /\ status[p] = "publishing" => \E w \in Publishers : Holds(w, p)

\* So it is while its item is pending, unless an approval will close that.
Undecided(p) ==
    item[p] = "pending" => InApproval(p) \/ \E a \in Reviewers : WillApprove(a, p)

ApprovalsGuard == OnlyReleasesSend /\ (AllAlive => \A p \in Posts : Undecided(p))

=============================================================================
