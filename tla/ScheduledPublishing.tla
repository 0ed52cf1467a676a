------------------------ MODULE ScheduledPublishing ------------------------
(***************************************************************************)
(* The scheduled publisher of one workspace: assets.publish_due run by     *)
(* several processes at once (the scheduler's pass every five minutes and  *)
(* "post now" background tasks), with people scheduling and cancelling     *)
(* posts, the emergency stop, time passing and publishers dying half-way.  *)
(*                                                                         *)
(* A database transaction is one step unless it holds a row lock across a  *)
(* call to a platform.  Instants are abstracted to what the code compares: *)
(* whether a post is due, whether its claim is older than                  *)
(* STALE_PUBLISHING_MINUTES, and whether it went out in the last 24 hours. *)
(***************************************************************************)
EXTENDS Naturals, FiniteSets

CONSTANTS
    Posts,          \* rows of marketing_assets that may come to exist
    Social,         \* those of kind social_post
    KeyOf,          \* post |-> idempotency key (design, network, minute)
    Publishers,     \* processes that may run publish_due
    Schedulers,     \* those of the scheduler; the others are "post now" tasks
    Batch,          \* PUBLISH_BATCH
    DailyCap,       \* daily_social_cap
    MaxAttempts,    \* social_publish_max_attempts
    MaxDeferrals,   \* MAX_DEFERRALS
    MaxCrashes,     \* bound: publishers that die in one behaviour
    StopKinds,      \* the platform's switch, the workspace's "Stop all agents"
    Answers,        \* how the platform may answer a send
    NoPost

AllAnswers == {"ok", "wait", "spacing", "transient", "lost", "refused", "database"}

ASSUME ConstantsAssumption ==
    /\ Social \subseteq Posts
    /\ IsFiniteSet(Posts)
    /\ Schedulers \subseteq Publishers
    /\ NoPost \notin Posts
    /\ DOMAIN KeyOf = Posts
    /\ Batch \in Nat \ {0}
    /\ DailyCap \in Nat \ {0}
    /\ MaxAttempts \in Nat \ {0}
    /\ MaxDeferrals \in Nat
    /\ MaxCrashes \in Nat
    /\ Answers \subseteq AllAnswers

VARIABLES
    status,     \* post |-> AssetStatus, "none" before the row exists
    due,        \* post |-> scheduled_for <= now
    stale,      \* post |-> updated_at < now - STALE_PUBLISHING_MINUTES
    recent,     \* post |-> published_at >= now - 24 hours
    attempts,   \* post |-> detail["publish_attempts"]
    deferrals,  \* post |-> detail["deferrals"]
    stops,      \* emergency stops that are on, as agent_safety.halt_reason reads them
    pc,         \* publisher |-> where it is in publish_due
    batch,      \* publisher |-> claimed posts it has not looked at yet
    current,    \* publisher |-> the post it is about to send
    posted,     \* publisher |-> its count of posts in the last 24 hours
    reloaded,   \* publisher |-> a rollback made its rows read again
    crashes,    \* publishers that have died so far
    reached,    \* ghost: post |-> times the platform took it
    unsure,     \* ghost: post |-> those whose answer did not arrive
    afterStop,  \* ghost: publisher |-> posts it sent since the stop came on
    sentBy,     \* ghost: publisher |-> posts it published in the last 24 hours
    revived     \* ghost: posts put back on the schedule though not "publishing" any more

rowVars   == <<status, due, stale, recent, attempts, deferrals>>
passVars  == <<pc, batch, current, posted, reloaded>>
keptVars  == <<sentBy, revived>>
ghostVars == <<reached, unsure, afterStop, keptVars>>
vars      == <<rowVars, stops, passVars, crashes, ghostVars>>

Statuses == {"none", "draft", "scheduled", "publishing", "published", "failed", "rejected"}
\* "draft" (written, waiting for a person) is used by ReviewedPublishing only.
Active   == {"scheduled", "publishing", "published"}
Labels   == {"idle", "claim", "count", "next", "relock", "sending", "undo"}

\* Every post has status s, and nothing is under way.
InitWith(s) ==
    /\ status = [p \in Posts |-> s]
    /\ due = [p \in Posts |-> FALSE]
    /\ stale = [p \in Posts |-> FALSE]
    /\ recent = [p \in Posts |-> FALSE]
    /\ attempts = [p \in Posts |-> 0]
    /\ deferrals = [p \in Posts |-> 0]
    /\ stops = {}
    /\ pc = [w \in Publishers |-> "idle"]
    /\ batch = [w \in Publishers |-> {}]
    /\ current = [w \in Publishers |-> NoPost]
    /\ posted = [w \in Publishers |-> 0]
    /\ reloaded = [w \in Publishers |-> FALSE]
    /\ crashes = 0
    /\ reached = [p \in Posts |-> 0]
    /\ unsure = [p \in Posts |-> 0]
    /\ afterStop = [w \in Publishers |-> 0]
    /\ sentBy = [w \in Publishers |-> {}]
    /\ revived = {}

Init == InitWith("none")

Halted == stops # {}

-----------------------------------------------------------------------------
(* Rows and their locks.                                                    *)

\* The row lock _relock_publishing takes is held until the outcome commits.
Sends(w, p) == pc[w] = "sending" /\ current[w] = p
Locked(p)   == \E w \in Publishers : Sends(w, p)

\* Mutant: the claim also takes rows another publisher has claimed.
ClaimableAgain(p) == status[p] \in {"scheduled", "publishing"} /\ due[p] /\ ~Locked(p)

\* _claim_due and _recover_interrupted use SKIP LOCKED.
Claimable(p)   == status[p] = "scheduled" /\ due[p] /\ ~Locked(p)
Interrupted(p) == status[p] = "publishing" /\ stale[p] /\ ~Locked(p)

\* T is at most Batch rows of S, as many as there are.
Takes(T, S) ==
    /\ T \subseteq S
    /\ Cardinality(T) <= Batch
    /\ T # S => Cardinality(T) = Batch

\* updated_at is set to now.
Touch(p) == stale' = [stale EXCEPT ![p] = FALSE]

\* Posts published in the last 24 hours, as _posted_last_day counts them.
PostedLastDay == {p \in Social : status[p] = "published" /\ recent[p]}

-----------------------------------------------------------------------------
(* People and time.                                                         *)

\* social_schedule.schedule, one item.  The advisory lock on the design makes
\* the look for an active row with this key and the insert one step.
Schedule(p) ==
    /\ status[p] = "none"
    /\ \A q \in Posts : KeyOf[q] = KeyOf[p] => status[q] \notin Active
    /\ status' = [status EXCEPT ![p] = "scheduled"]
    /\ \E now \in BOOLEAN : due' = [due EXCEPT ![p] = now]
    /\ UNCHANGED <<stale, recent, attempts, deferrals, stops, passVars, crashes, ghostVars>>

\* Mutants: a post that went out, or that a publisher has claimed, can be cancelled.
CancellablePublished(p) == p \in Social /\ status[p] \in {"scheduled", "published"}
CancellableClaimed(p) == p \in Social /\ status[p] \in {"scheduled", "publishing"}

\* What social_schedule.cancel accepts.
Cancellable(p) == p \in Social /\ status[p] = "scheduled"

Cancel(p) ==
    /\ Cancellable(p) /\ ~Locked(p)
    /\ status' = [status EXCEPT ![p] = "rejected"]
    /\ Touch(p)
    /\ UNCHANGED <<due, recent, attempts, deferrals, stops, passVars, crashes, ghostVars>>

\* An emergency stop is pressed, or released.  Each is refused when it
\* changes nothing.
Stop(k) ==
    /\ k \notin stops
    /\ stops' = stops \cup {k}
    /\ afterStop' = IF Halted THEN afterStop ELSE [w \in Publishers |-> 0]
    /\ UNCHANGED <<rowVars, passVars, crashes, reached, unsure, keptVars>>

Resume(k) ==
    /\ k \in stops
    /\ stops' = stops \ {k}
    /\ UNCHANGED <<rowVars, passVars, crashes, ghostVars>>

BecomeDue(p) ==
    /\ status[p] = "scheduled" /\ ~due[p]
    /\ due' = [due EXCEPT ![p] = TRUE]
    /\ UNCHANGED <<status, stale, recent, attempts, deferrals, stops, passVars, crashes, ghostVars>>

BecomeStale(p) ==
    /\ status[p] = "publishing" /\ ~stale[p]
    /\ stale' = [stale EXCEPT ![p] = TRUE]
    /\ UNCHANGED <<status, due, recent, attempts, deferrals, stops, passVars, crashes, ghostVars>>

DayPasses(p) ==
    /\ status[p] = "published" /\ recent[p]
    /\ recent' = [recent EXCEPT ![p] = FALSE]
    /\ sentBy' = [w \in Publishers |-> sentBy[w] \ {p}]
    /\ UNCHANGED <<status, due, stale, attempts, deferrals, stops, passVars, crashes,
                   reached, unsure, afterStop, revived>>

-----------------------------------------------------------------------------
(* One pass of publish_due by publisher w.                                  *)

Goto(w, label) == pc' = [pc EXCEPT ![w] = label]

\* The pass ends, or its process dies: nothing of it stays in memory.
Forget(w) ==
    /\ Goto(w, "idle")
    /\ batch' = [batch EXCEPT ![w] = {}]
    /\ current' = [current EXCEPT ![w] = NoPost]
    /\ posted' = [posted EXCEPT ![w] = 0]
    /\ reloaded' = [reloaded EXCEPT ![w] = FALSE]

\* publish_scheduled_assets or publish_now begins; with a stop on it returns at once.
StartPass(w) ==
    /\ pc[w] = "idle" /\ ~Halted
    /\ Goto(w, "claim")
    /\ UNCHANGED <<rowVars, stops, batch, current, posted, reloaded, crashes, ghostVars>>

\* The scheduler's pass takes any post; a "post now" task its own (only_ids).
Scopes(w) == IF w \in Schedulers THEN {Posts} ELSE {{p} : p \in Posts}

\* _recover_interrupted, then _claim_due, in one transaction.  The scope limits
\* what is claimed, never what is recovered.
Claim(w) ==
    /\ pc[w] = "claim"
    /\ \E only \in Scopes(w), lost, mine \in SUBSET Posts :
          /\ Takes(lost, {p \in Posts : Interrupted(p)})
          /\ Takes(mine, {p \in only : Claimable(p)})
          /\ status' = [p \in Posts |->
                CASE p \in mine -> "publishing"
                  [] p \in lost -> "failed"
                  [] OTHER      -> status[p]]
          /\ stale' = [p \in Posts |-> stale[p] /\ p \notin mine \cup lost]
          /\ batch' = [batch EXCEPT ![w] = mine]
          /\ Goto(w, IF mine = {} THEN "idle" ELSE "count")
    /\ UNCHANGED <<due, recent, attempts, deferrals, stops, current, posted, reloaded, crashes, ghostVars>>

CountPosted(w) ==
    /\ pc[w] = "count"
    /\ posted' = [posted EXCEPT ![w] = Cardinality(PostedLastDay)]
    /\ Goto(w, "next")
    /\ UNCHANGED <<rowVars, stops, batch, current, reloaded, crashes, ghostVars>>

\* Rows _hold_for_stop puts back: those its memory shows as "publishing".
\* Memory dates from the claim, except after a rollback, which reloads rows.
Held(w) == IF reloaded[w] THEN {p \in batch[w] : status[p] = "publishing"} ELSE batch[w]

\* The rows of S go back on the schedule; the hold does not read them again.
PutBack(S) ==
    /\ revived' = revived \cup {p \in S : status[p] # "publishing"}
    /\ UNCHANGED <<reached, unsure, afterStop, sentBy>>

HoldForStop(w) ==
    /\ pc[w] = "next" /\ batch[w] # {} /\ Halted
    /\ \A p \in Held(w) : ~Locked(p)
    /\ status' = [p \in Posts |-> IF p \in Held(w) THEN "scheduled" ELSE status[p]]
    /\ stale' = [p \in Posts |-> stale[p] /\ p \notin Held(w)]
    /\ PutBack(Held(w))
    /\ Forget(w)
    /\ UNCHANGED <<due, recent, attempts, deferrals, stops, crashes>>

\* Mutant: one more than the limit gets through.
OverCapLate(w, p) == p \in Social /\ posted[w] > DailyCap

OverCap(w, p) == p \in Social /\ posted[w] >= DailyCap

\* _hold_for_cap: back on the schedule for when the 24-hour window frees up.
HoldForCap(w, p) ==
    /\ pc[w] = "next" /\ ~Halted /\ p \in batch[w]
    /\ OverCap(w, p) /\ ~Locked(p)
    /\ status' = [status EXCEPT ![p] = "scheduled"]
    /\ due' = [due EXCEPT ![p] = FALSE]
    /\ Touch(p)
    /\ batch' = [batch EXCEPT ![w] = @ \ {p}]
    /\ PutBack({p})
    /\ UNCHANGED <<recent, attempts, deferrals, stops, pc, current, posted, reloaded, crashes>>

\* Mutant: the stop is not read again before each post.
PickNextBlindly(w, p) ==
    /\ pc[w] = "next" /\ p \in batch[w] /\ ~OverCap(w, p)
    /\ batch' = [batch EXCEPT ![w] = @ \ {p}]
    /\ current' = [current EXCEPT ![w] = p]
    /\ Goto(w, "relock")
    /\ UNCHANGED <<rowVars, stops, posted, reloaded, crashes, ghostVars>>

\* No stop, and room under the limit: _send_claimed begins for p.
PickNext(w, p) ==
    /\ pc[w] = "next" /\ ~Halted /\ p \in batch[w] /\ ~OverCap(w, p)
    /\ batch' = [batch EXCEPT ![w] = @ \ {p}]
    /\ current' = [current EXCEPT ![w] = p]
    /\ Goto(w, "relock")
    /\ UNCHANGED <<rowVars, stops, posted, reloaded, crashes, ghostVars>>

\* Mutant: a row marked interrupted while its publisher was slow is sent after all.
StillClaimed(p) == status[p] \in {"publishing", "failed"}

\* Mutant: a post declined while its publisher was slow is sent after all.
StillToSend(p) == status[p] \in {"publishing", "rejected"}

\* What _relock_publishing lets through.
StillPublishing(p) == status[p] = "publishing"

Relock(w) ==
    /\ pc[w] = "relock" /\ ~Locked(current[w])
    /\ IF StillPublishing(current[w])
       THEN Goto(w, "sending") /\ UNCHANGED current
       ELSE Goto(w, "next") /\ current' = [current EXCEPT ![w] = NoPost]
    /\ UNCHANGED <<rowVars, stops, batch, posted, reloaded, crashes, ghostVars>>

EndPass(w) ==
    /\ pc[w] = "next" /\ batch[w] = {}
    /\ Forget(w)
    /\ UNCHANGED <<rowVars, stops, crashes, ghostVars>>

-----------------------------------------------------------------------------
(* The platform's answers to the send of current[w], and what is recorded.  *)

\* The post reached the platform n more times; a send begun under a stop is noted.
Sent(w, p, n) ==
    /\ reached' = [reached EXCEPT ![p] = @ + n]
    /\ afterStop' = [afterStop EXCEPT ![w] = IF Halted THEN @ + 1 ELSE @]

\* The outcome commits, the row lock goes, publish_due moves on.
MoveOn(w) ==
    /\ Goto(w, "next")
    /\ current' = [current EXCEPT ![w] = NoPost]
    /\ UNCHANGED <<stops, batch, crashes>>

Answered(w, p, answer) ==
    Sends(w, p) /\ answer \in Answers

SendOk(w, p) ==
    /\ Answered(w, p, "ok")
    /\ status' = [status EXCEPT ![p] = "published"]
    /\ recent' = [recent EXCEPT ![p] = TRUE]
    /\ Touch(p)
    /\ posted' = [posted EXCEPT ![w] = IF p \in Social THEN @ + 1 ELSE @]
    /\ sentBy' = [sentBy EXCEPT ![w] = @ \cup {p}]
    /\ Sent(w, p, 1) /\ MoveOn(w)
    /\ UNCHANGED <<due, attempts, deferrals, reloaded, unsure, revived>>

\* _defer: back on the schedule for later.
Defer(p) ==
    /\ status' = [status EXCEPT ![p] = "scheduled"]
    /\ due' = [due EXCEPT ![p] = FALSE]

\* Mutant: a status the rest of the code does not know.
FailOddly(p) ==
    /\ status' = [status EXCEPT ![p] = "error"]
    /\ UNCHANGED due

\* _fail.
Fail(p) ==
    /\ status' = [status EXCEPT ![p] = "failed"]
    /\ UNCHANGED due

\* Mutant: a "wait" is not counted.
SendWaitUncounted(w, p) ==
    /\ \/ Answered(w, p, "wait") /\ deferrals[p] >= MaxDeferrals /\ Fail(p)
       \/ Answered(w, p, "wait") /\ deferrals[p] < MaxDeferrals /\ Defer(p)
       \/ Answered(w, p, "spacing") /\ Defer(p)
    /\ Touch(p) /\ Sent(w, p, 0) /\ MoveOn(w)
    /\ UNCHANGED <<deferrals, recent, attempts, posted, reloaded, unsure, keptVars>>

\* "Wait" counts against MAX_DEFERRALS, our own spacing between posts does not.
SendWait(w, p) ==
    /\ \/ /\ Answered(w, p, "wait") /\ deferrals[p] >= MaxDeferrals
          /\ Fail(p) /\ UNCHANGED deferrals
       \/ /\ Answered(w, p, "wait") /\ deferrals[p] < MaxDeferrals
          /\ Defer(p) /\ deferrals' = [deferrals EXCEPT ![p] = @ + 1]
       \/ /\ Answered(w, p, "spacing")
          /\ Defer(p) /\ UNCHANGED deferrals
    /\ Touch(p) /\ Sent(w, p, 0) /\ MoveOn(w)
    /\ UNCHANGED <<recent, attempts, posted, reloaded, unsure, keptVars>>

\* Mutant: one try too many.
RetriedOnceMore(p) == p \in Social /\ attempts[p] < MaxAttempts

\* Another try is made for a social post the platform could not take now.
Retried(p) == p \in Social /\ attempts[p] + 1 < MaxAttempts

\* A transient ConnectorError.  "lost": the platform did take the post, only
\* its answer did not arrive, which the publisher cannot tell apart.
SendTransient(w, p) ==
    /\ \/ Answered(w, p, "transient") /\ Sent(w, p, 0) /\ UNCHANGED unsure
       \/ /\ Answered(w, p, "lost") /\ Sent(w, p, 1)
          /\ unsure' = [unsure EXCEPT ![p] = @ + 1]
    /\ attempts' = [attempts EXCEPT ![p] = @ + 1]
    /\ (Retried(p) /\ Defer(p)) \/ (~Retried(p) /\ Fail(p))
    /\ Touch(p) /\ MoveOn(w)
    /\ UNCHANGED <<recent, deferrals, posted, reloaded, keptVars>>

\* Refused for good.
SendRefused(w, p) ==
    /\ Answered(w, p, "refused")
    /\ attempts' = [attempts EXCEPT ![p] = @ + 1]
    /\ Fail(p) /\ Touch(p) /\ Sent(w, p, 0) /\ MoveOn(w)
    /\ UNCHANGED <<recent, deferrals, posted, reloaded, unsure, keptVars>>

\* The publisher's own database work fails, before or after the platform took
\* the post: the rollback drops the row lock, the failure is recorded afresh.
SendDatabaseError(w, p) ==
    /\ Answered(w, p, "database")
    /\ Goto(w, "undo")
    /\ reloaded' = [reloaded EXCEPT ![w] = TRUE]
    /\ \E n \in {0, 1} : Sent(w, p, n)
    /\ UNCHANGED <<rowVars, stops, batch, current, posted, crashes, unsure, keptVars>>

\* Mutant: a database error is retried like an outage of the platform.
RetryDatabaseError(w, p) ==
    /\ pc[w] = "undo" /\ current[w] = p /\ ~Locked(p)
    /\ attempts' = [attempts EXCEPT ![p] = @ + 1]
    /\ (Retried(p) /\ Defer(p)) \/ (~Retried(p) /\ Fail(p))
    /\ Touch(p) /\ MoveOn(w)
    /\ UNCHANGED <<recent, deferrals, posted, reloaded, ghostVars>>

RecordDatabaseError(w, p) ==
    /\ pc[w] = "undo" /\ current[w] = p /\ ~Locked(p)
    /\ attempts' = [attempts EXCEPT ![p] = @ + 1]
    /\ Fail(p) /\ Touch(p) /\ MoveOn(w)
    /\ UNCHANGED <<recent, deferrals, posted, reloaded, ghostVars>>

\* The process dies (or an exception ends its pass); a send under way may or
\* may not have reached the platform.  Its uncommitted work and locks are gone.
Crash(w) ==
    /\ pc[w] # "idle" /\ crashes < MaxCrashes
    /\ crashes' = crashes + 1
    /\ IF pc[w] = "sending"
       THEN \E n \in {0, 1} : Sent(w, current[w], n)
       ELSE UNCHANGED <<reached, afterStop>>
    /\ Forget(w)
    /\ UNCHANGED <<rowVars, stops, unsure, keptVars>>

-----------------------------------------------------------------------------
Sending(w) == \E p \in Posts :
    \/ SendOk(w, p) \/ SendWait(w, p) \/ SendTransient(w, p) \/ SendRefused(w, p)
    \/ SendDatabaseError(w, p) \/ RecordDatabaseError(w, p)

Pass(w) ==
    \/ StartPass(w) \/ Claim(w) \/ CountPosted(w)
    \/ HoldForStop(w) \/ Relock(w) \/ EndPass(w)
    \/ \E p \in Posts : HoldForCap(w, p) \/ PickNext(w, p)
    \/ Sending(w)

Time(p) == BecomeDue(p) \/ BecomeStale(p) \/ DayPasses(p)

People ==
    \/ \E p \in Posts : Schedule(p) \/ Cancel(p)
    \/ \E k \in StopKinds : Stop(k) \/ Resume(k)

Next ==
    \/ People
    \/ \E p \in Posts : Time(p)
    \/ \E w \in Publishers : Pass(w) \/ Crash(w)

Spec == Init /\ [][Next]_vars

\* The scheduler ticks for ever and platform calls time out, so a pass that has
\* begun moves on; instants pass.  Nothing makes people act or processes die.
Fairness ==
    /\ \A w \in Publishers : WF_vars(pc[w] # "idle" /\ Pass(w))
    /\ \A w \in Schedulers : WF_vars(StartPass(w))
    /\ \A p \in Posts :
          WF_vars(BecomeDue(p)) /\ WF_vars(BecomeStale(p)) /\ WF_vars(DayPasses(p))

FairSpec == Spec /\ Fairness

-----------------------------------------------------------------------------
(* Properties.                                                              *)

TypeOK ==
    /\ status \in [Posts -> Statuses]
    /\ due \in [Posts -> BOOLEAN]
    /\ stale \in [Posts -> BOOLEAN]
    /\ recent \in [Posts -> BOOLEAN]
    /\ attempts \in [Posts -> Nat]
    /\ deferrals \in [Posts -> Nat]
    /\ stops \in SUBSET StopKinds
    /\ pc \in [Publishers -> Labels]
    /\ batch \in [Publishers -> SUBSET Posts]
    /\ current \in [Publishers -> Posts \cup {NoPost}]
    /\ posted \in [Publishers -> Nat]
    /\ reloaded \in [Publishers -> BOOLEAN]
    /\ crashes \in Nat
    /\ reached \in [Posts -> Nat]
    /\ unsure \in [Posts -> Nat]
    /\ afterStop \in [Publishers -> Nat]
    /\ sentBy \in [Publishers -> SUBSET Posts]
    /\ revived \in SUBSET Posts

\* A post a publisher still has to deal with.
Holds(w, p) == p \in batch[w] \/ current[w] = p

\* No post is in the hands of two publishers ("together, no post can be
\* claimed twice"), whatever was recovered or cancelled since it was claimed.
ClaimedOnce ==
    \A v, w \in Publishers : \A p \in Posts :
        Holds(v, p) /\ Holds(w, p) => v = w

\* A post reaches its platform at most once, plus once for every answer that
\* was lost and looked like an outage: a publisher that died is never redone.
SentAtMostOnce == \A p \in Posts : reached[p] <= 1 + unsure[p]

\* The list never calls a post published that the platform does not have, nor
\* offers one that it has while every answer about it arrived.
StatusHonest ==
    \A p \in Posts :
        /\ status[p] = "published" => reached[p] > 0
        /\ status[p] \in {"none", "draft", "rejected"} => reached[p] <= unsure[p]
        /\ status[p] = "scheduled" => reached[p] <= unsure[p]

\* After a stop is pressed a publisher finishes at most the one send it had
\* begun or was about to begin; the rest of its batch waits.
StopHoldsTheRest == \A w \in Publishers : afterStop[w] <= 1

\* A social post is tried at most MaxAttempts times and put off by the
\* platform at most MaxDeferrals times, over any number of passes.
TriesBounded ==
    \A p \in Posts :
        /\ attempts[p] <= MaxAttempts
        /\ deferrals[p] <= MaxDeferrals
        /\ attempts[p] = MaxAttempts => status[p] = "failed"

\* A post someone cancelled is never put back on the schedule, sent or failed,
\* and one that went out keeps saying so.
StaysFinal(p) ==
    /\ status[p] = "rejected" =>
          status'[p] = "rejected" /\ reached'[p] = reached[p]
    /\ status[p] = "published" =>
          status'[p] = "published" /\ reached'[p] = reached[p]

CancelAndPublishAreFinal == [][\A p \in Posts : StaysFinal(p)]_vars

\* However publishers overlap, two active rows carry one idempotency key (the
\* same design, place and minute) only if one of them had been given up as
\* interrupted and its slow publisher then put it back on the schedule.
OneActivePerKey ==
    \A p, q \in Posts :
        p # q /\ KeyOf[p] = KeyOf[q] /\ {status[p], status[q]} \subseteq Active =>
            p \in revived \/ q \in revived

\* However publishers overlap, none of them publishes more social posts in 24
\* hours than the daily limit.  A post the platform took that is listed as
\* failed does not count, here as in the code.
DailyLimitRespected ==
    \A w \in Publishers : Cardinality(Social \cap sentBy[w]) <= DailyCap

\* Once stops are over, no post stays scheduled or claimed for ever: it ends
\* published, failed or cancelled, whatever waits, retries, crashes and the
\* daily limit put it off.
EveryPostSettles ==
    <>[]~Halted =>
        \A p \in Posts : []<>(status[p] \notin {"scheduled", "publishing"})

-----------------------------------------------------------------------------
(* The abstract specification.                                              *)

LifeOf ==
    [none |-> "absent", draft |-> "absent", scheduled |-> "waiting", publishing |-> "taken",
     published |-> "published", failed |-> "failed", rejected |-> "cancelled"]

Life == [p \in Posts |-> LifeOf[status[p]]]

Lifecycle == INSTANCE PostLifecycle WITH life <- Life, delivered <- reached, excused <- unsure

\* Whatever the publishers, the people and the stops do between them, each post
\* only ever lives the life PostLifecycle promises: it is sent out of a
\* publisher's hands alone, and put back only while nobody can know it went out.
ImplementsLifecycle == Lifecycle!Spec

-----------------------------------------------------------------------------
(* The inductive invariant behind the safety properties.                    *)

\* What each label says of a publisher's memory.
PassShape ==
    \A w \in Publishers :
        /\ pc[w] \in {"idle", "claim"} => batch[w] = {}
        /\ current[w] # NoPost <=> pc[w] \in {"relock", "sending", "undo"}
        /\ current[w] \notin batch[w]

\* A claimed row is still "publishing", or was marked interrupted meanwhile.
HeldRows ==
    \A w \in Publishers : \A p \in Posts :
        Holds(w, p) => status[p] = "publishing" \/ (status[p] = "failed" /\ ~Sends(w, p))

\* It has tries left and, unless its send came to grief, was not sent yet.
HeldUnsent ==
    \A w \in Publishers : \A p \in Posts :
        Holds(w, p) =>
            /\ attempts[p] < MaxAttempts
            /\ p \in batch[w] \/ pc[w] # "undo" => reached[p] <= unsure[p]

\* A row that has failed is the only kind that may have used up its tries.
TriesLeft == \A p \in Posts : status[p] # "failed" => attempts[p] < MaxAttempts

\* A publisher that finished a send under a stop does not begin another.
StopIsSeen ==
    \A w \in Publishers :
        Halted /\ afterStop[w] > 0 => pc[w] \in {"idle", "next", "undo"}

IInv ==
    /\ TypeOK
    /\ PassShape
    /\ ClaimedOnce
    /\ HeldRows
    /\ HeldUnsent
    /\ SentAtMostOnce
    /\ StatusHonest
    /\ TriesBounded
    /\ TriesLeft
    /\ StopHoldsTheRest
    /\ StopIsSeen

-----------------------------------------------------------------------------
(* What the daily limit rests on besides.                                   *)

Counting(w) == pc[w] \in {"next", "relock", "sending", "undo"}

\* The count of a pass under way covers what its publisher sent in the last 24
\* hours, and leaves room for the social post it is about to send.
CountCovers ==
    \A w \in Publishers :
        /\ Counting(w) => Cardinality(Social \cap sentBy[w]) <= posted[w]
        /\ pc[w] \in {"relock", "sending"} /\ current[w] \in Social => posted[w] < DailyCap

\* What somebody published in the last 24 hours is listed so, where it counts.
SentIsListed ==
    \A w \in Publishers : \A p \in sentBy[w] : status[p] = "published" /\ recent[p]

LimitInv == SentIsListed /\ CountCovers /\ DailyLimitRespected

=============================================================================
