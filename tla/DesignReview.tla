---------------------------- MODULE DesignReview ----------------------------
(***************************************************************************)
(* One creative in the approvals queue: reviewers decide on its cards or   *)
(* ask for changes, every request becomes a job that a worker runs beside  *)
(* them, and a job that fails puts the previous version back in the queue. *)
(*                                                                         *)
(* Cards are numbered in the order they are queued; card 1 is the original *)
(* design.  What a card shows and what the asset holds is the number of    *)
(* the card that was queued with it.  A transaction is one step, unless    *)
(* it writes what it decided from an earlier read that took no lock.       *)
(* Time is abstracted to what the code compares: whether a job is older    *)
(* than the render task's hard limit plus the grace.                       *)
(***************************************************************************)
EXTENDS Naturals, FiniteSets

CONSTANTS
    MaxItems,        \* bound: cards queued for the design
    MaxJobs,         \* bound: times changes are asked for
    Workers,         \* threads that may run a job, sweep, or hand a job over
    Decisions,       \* decisions that may be under way at once
    MaxRevisions,    \* creative_max_revisions
    MaxCrashes,      \* bound: processes that die
    MaxRedeliveries, \* bound: messages the broker delivers again
    Kinds,           \* the decisions taken
    Deployments      \* "celery": a broker and time limits; "threads": neither

ASSUME DesignAssumption ==
    /\ MaxItems \in Nat \ {0}
    /\ MaxJobs \in Nat
    /\ MaxRevisions \in Nat
    /\ MaxCrashes \in Nat
    /\ MaxRedeliveries \in Nat
    /\ Kinds \subseteq {"approve", "reject", "expire"}
    /\ Deployments \subseteq {"celery", "threads"}

Items == 1..MaxItems
Jobs  == 1..MaxJobs
None  == 0

VARIABLES
    deployment,  \* how jobs are run here (settings.celery_enabled)
    itemStatus,  \* card |-> ApprovalStatus, "none" before it is queued
    revision,    \* card |-> payload[REVISION_KEY]
    replaces,    \* card |-> payload[REVISES_KEY]
    shows,       \* card |-> the version its payload and preview show
    assetStatus, \* AssetStatus of the design
    assetText,   \* the version its content holds
    jobStatus,   \* job |-> CreativeJobStatus, "none" before it is admitted
    revises,     \* job |-> envelope.revises["approval_id"]
    late,        \* job |-> older than the time limit and the grace
    removed,     \* job |-> its stored files were discarded
    handing,     \* jobs committed and not yet handed to a worker
    tasks,       \* jobs with a message waiting for a worker
    sent,        \* jobs whose message was ever sent
    at,          \* worker |-> where it is
    on,          \* worker |-> the job it has in hand
    saw,         \* worker |-> find_open_proposal found a pending card
    verdict,     \* decision |-> "approve", "reject", "expire", "none"
    opened,      \* decision |-> the card it read as pending
    crashes,
    redeliveries,
    lastWord     \* ghost: the last thing a reviewer did, "changes" or "verdict"

itemVars     == <<itemStatus, revision, replaces, shows>>
assetVars    == <<assetStatus, assetText>>
jobVars      == <<jobStatus, revises, late, removed>>
queueVars    == <<handing, tasks, sent>>
workVars     == <<at, on, saw>>
decisionVars == <<verdict, opened, lastWord>>
faultVars    == <<crashes, redeliveries>>
vars == <<deployment, itemVars, assetVars, jobVars, queueVars, workVars, decisionVars, faultVars>>

ItemStatuses == {"none", "pending", "approved", "rejected", "superseded", "expired"}
JobStatuses  == {"none", "queued", "running", "succeeded", "failed"}
Open         == {"queued", "running"}
Labels       == {"idle", "run", "saved", "finish", "fail", "outside", "close", "sweep"}
Verdicts     == Kinds \cup {"none"}

Init ==
    /\ deployment \in Deployments
    /\ itemStatus = [i \in Items |-> IF i = 1 THEN "pending" ELSE "none"]
    /\ revision = [i \in Items |-> 0]
    /\ replaces = [i \in Items |-> None]
    /\ shows = [i \in Items |-> IF i = 1 THEN 1 ELSE None]
    /\ assetStatus = "draft"
    /\ assetText = 1
    /\ jobStatus = [j \in Jobs |-> "none"]
    /\ revises = [j \in Jobs |-> None]
    /\ late = [j \in Jobs |-> FALSE]
    /\ removed = [j \in Jobs |-> FALSE]
    /\ handing = {}
    /\ tasks = {}
    /\ sent = {}
    /\ at = [w \in Workers |-> "idle"]
    /\ on = [w \in Workers |-> None]
    /\ saw = [w \in Workers |-> FALSE]
    /\ verdict = [d \in Decisions |-> "none"]
    /\ opened = [d \in Decisions |-> None]
    /\ crashes = 0
    /\ redeliveries = 0
    /\ lastWord = "none"

-----------------------------------------------------------------------------
(* Rows.                                                                    *)

Pending(i) == itemStatus[i] = "pending"
OpenProposal == \E i \in Items : Pending(i)

\* The row the sweep has locked until it commits.
Locked(j) == \E w \in Workers : at[w] = "sweep" /\ on[w] = j

\* The row the next insert makes, in order.
NextItem(i) ==
    itemStatus[i] = "none" /\ \A k \in Items : k < i => itemStatus[k] # "none"
NextJob(j) ==
    jobStatus[j] = "none" /\ \A k \in Jobs : k < j => jobStatus[k] # "none"

\* approvals.queue_revision: card i, after `previous`, showing version v.
QueueRevision(i, previous, v) ==
    /\ NextItem(i)
    /\ itemStatus' = [itemStatus EXCEPT ![i] = "pending"]
    /\ revision' = [revision EXCEPT ![i] = revision[previous] + 1]
    /\ replaces' = [replaces EXCEPT ![i] = previous]
    /\ shows' = [shows EXCEPT ![i] = v]

Goto(w, label) == at' = [at EXCEPT ![w] = label]

\* The thread is done with its job.
Leave(w) ==
    /\ Goto(w, "idle")
    /\ on' = [on EXCEPT ![w] = None]
    /\ saw' = [saw EXCEPT ![w] = FALSE]

-----------------------------------------------------------------------------
(* Reviewers, and the expiry of cards nobody decided.                       *)

\* Mutants: the pending check before the row lock only; one revision too many.
ReviseOnceClosed(i) == itemStatus[i] \in {"pending", "superseded"} /\ revision[i] < MaxRevisions
ReviseOnceMore(i) == Pending(i) /\ revision[i] <= MaxRevisions

\* What request_changes lets through: _lock_pending, then the limit.
Revisable(i) == Pending(i) /\ revision[i] < MaxRevisions

\* request_changes with the creative's reviser: the job is admitted and the
\* card superseded in one transaction that holds the card's row lock.
RequestChanges(i, j) ==
    /\ Revisable(i) /\ NextJob(j)
    /\ itemStatus' = [itemStatus EXCEPT ![i] = "superseded"]
    /\ jobStatus' = [jobStatus EXCEPT ![j] = "queued"]
    /\ revises' = [revises EXCEPT ![j] = i]
    /\ handing' = handing \cup {j}
    /\ lastWord' = "changes"
    /\ UNCHANGED <<deployment, revision, replaces, shows, assetVars, late, removed,
                   tasks, sent, workVars, verdict, opened, faultVars>>

\* approve, reject or expire_stale reads the card, without a lock.
OpenCard(d, i, v) ==
    /\ verdict[d] = "none" /\ Pending(i)
    /\ verdict' = [verdict EXCEPT ![d] = v]
    /\ opened' = [opened EXCEPT ![d] = i]
    /\ UNCHANGED <<deployment, lastWord, itemVars, assetVars, jobVars, queueVars, workVars, faultVars>>

VerdictStatus ==
    [approve |-> "approved", reject |-> "rejected", expire |-> "expired"]

\* Mutant: the decision writes back the status it read when applying failed.
DecideOrRestore(d) ==
    /\ verdict[d] # "none"
    /\ \/ itemStatus' = [itemStatus EXCEPT ![opened[d]] = VerdictStatus[verdict[d]]]
       \/ itemStatus' = [itemStatus EXCEPT ![opened[d]] = "pending"]
    /\ verdict' = [verdict EXCEPT ![d] = "none"]
    /\ opened' = [opened EXCEPT ![d] = None]
    /\ lastWord' = "verdict"
    /\ UNCHANGED <<deployment, revision, replaces, shows, assetVars, jobVars, queueVars,
                   workVars, faultVars>>

\* It commits: the applier releases the design, the rejecter settles it, and the
\* status is written whatever has become of the card since.
Decide(d) ==
    /\ verdict[d] # "none"
    /\ itemStatus' = [itemStatus EXCEPT ![opened[d]] = VerdictStatus[verdict[d]]]
    /\ assetStatus' = IF verdict[d] = "expire" THEN assetStatus ELSE VerdictStatus[verdict[d]]
    /\ verdict' = [verdict EXCEPT ![d] = "none"]
    /\ opened' = [opened EXCEPT ![d] = None]
    /\ lastWord' = "verdict"
    /\ UNCHANGED <<deployment, revision, replaces, shows, assetText, jobVars, queueVars,
                   workVars, faultVars>>

-----------------------------------------------------------------------------
(* Handing a job over, and messages.                                        *)

\* start_job, after the request has committed.
Dispatch(j) ==
    /\ j \in handing
    /\ handing' = handing \ {j}
    /\ tasks' = tasks \cup {j}
    /\ sent' = sent \cup {j}
    /\ UNCHANGED <<deployment, itemVars, assetVars, jobVars, workVars, decisionVars, faultVars>>

\* The hand-over is refused: fail_job(..., "dispatch_failed") in this thread.
DispatchFails(w, j) ==
    /\ j \in handing /\ at[w] = "idle"
    /\ handing' = handing \ {j}
    /\ Goto(w, "outside")
    /\ on' = [on EXCEPT ![w] = j]
    /\ UNCHANGED <<deployment, itemVars, assetVars, jobVars, tasks, sent, saw, decisionVars, faultVars>>

\* The broker delivers a message again (acks_late, visibility_timeout).
Redeliver(j) ==
    /\ deployment = "celery" /\ redeliveries < MaxRedeliveries
    /\ j \in sent \ tasks
    /\ tasks' = tasks \cup {j}
    /\ redeliveries' = redeliveries + 1
    /\ UNCHANGED <<deployment, itemVars, assetVars, jobVars, handing, sent, workVars, decisionVars, crashes>>

\* Mutant: the time limit is not enforced on the render queue.
GetLateAnyway(j) ==
    /\ jobStatus[j] \in Open /\ ~late[j]
    /\ late' = [late EXCEPT ![j] = TRUE]
    /\ UNCHANGED <<deployment, itemVars, assetVars, jobStatus, revises, removed, queueVars,
                   workVars, decisionVars, faultVars>>

\* A job gets late.  With Celery its worker has been killed by then.
GetLate(j) ==
    /\ jobStatus[j] \in Open /\ ~late[j]
    /\ deployment = "celery" => \A w \in Workers : on[w] # j
    /\ late' = [late EXCEPT ![j] = TRUE]
    /\ UNCHANGED <<deployment, itemVars, assetVars, jobStatus, revises, removed, queueVars,
                   workVars, decisionVars, faultVars>>

-----------------------------------------------------------------------------
(* A worker runs a job.                                                     *)

\* Mutant: a job already running is taken again by a second delivery.
ClaimableRunning(j) == jobStatus[j] \in Open /\ ~Locked(j)

\* _claim_statement; SKIP LOCKED.
Claimable(j) ==
    /\ jobStatus[j] = "queued" \/ (jobStatus[j] = "running" /\ late[j])
    /\ ~Locked(j)

\* run_job takes a message; a job it cannot claim is left alone.
Claim(w, j) ==
    /\ at[w] = "idle" /\ j \in tasks
    /\ tasks' = tasks \ {j}
    /\ \/ /\ Claimable(j)
          /\ jobStatus' = [jobStatus EXCEPT ![j] = "running"]
          /\ late' = [late EXCEPT ![j] = FALSE]
          /\ Goto(w, "run")
          /\ on' = [on EXCEPT ![w] = j]
       \/ /\ ~Claimable(j)
          /\ UNCHANGED <<jobStatus, late, at, on>>
    /\ UNCHANGED <<deployment, itemVars, assetVars, revises, removed, handing, sent, saw,
                   decisionVars, faultVars>>

\* _persist in its savepoint, and the commit after it: the design takes the new
\* text and its card is queued.  It is a draft again if the run read it as
\* rejected, at any moment since its start, and stays what it is otherwise.
Save(w, i) ==
    /\ at[w] = "run"
    /\ QueueRevision(i, revises[on[w]], i)
    /\ assetText' = i
    /\ assetStatus' \in {assetStatus, "draft"}
    /\ Goto(w, "saved")
    /\ UNCHANGED <<deployment, jobVars, queueVars, on, saw, decisionVars, faultVars>>

\* The run ends FAILED or SKIPPED, before or after it saved ("fail"), or an
\* exception leaves run_job and the task calls fail_job ("outside").
Stumble(w, label) ==
    /\ at[w] \in {"run", "saved"}
    /\ Goto(w, label)
    /\ UNCHANGED <<deployment, itemVars, assetVars, jobVars, queueVars, on, saw, decisionVars, faultVars>>

\* The run SUCCEEDED: _reload_job_row, and a job given up on is left so.
FinishLook(w) ==
    /\ at[w] = "saved"
    /\ \/ /\ jobStatus[on[w]] = "running"
          /\ Goto(w, "finish")
          /\ UNCHANGED <<removed, on, saw>>
       \/ /\ jobStatus[on[w]] # "running"
          /\ removed' = [removed EXCEPT ![on[w]] = TRUE]
          /\ Leave(w)
    /\ UNCHANGED <<deployment, itemVars, assetVars, jobStatus, revises, late, queueVars,
                   decisionVars, faultVars>>

FinishWrite(w) ==
    /\ at[w] = "finish" /\ ~Locked(on[w])
    /\ jobStatus' = [jobStatus EXCEPT ![on[w]] = "succeeded"]
    /\ Leave(w)
    /\ UNCHANGED <<deployment, itemVars, assetVars, revises, late, removed, queueVars,
                   decisionVars, faultVars>>

-----------------------------------------------------------------------------
(* Closing a job that failed, and putting the previous version back.        *)

\* fail_job returns when the job is settled already.
StillOpen(w) == at[w] = "outside" /\ jobStatus[on[w]] \in Open

\* _finish on the run's own copy of the row, and _after_failed_revision looks
\* for an open proposal.  Nothing is written yet.
FailLook(w) ==
    /\ at[w] = "fail" \/ StillOpen(w)
    /\ saw' = [saw EXCEPT ![w] = OpenProposal]
    /\ Goto(w, "close")
    /\ UNCHANGED <<deployment, itemVars, assetVars, jobVars, queueVars, on, decisionVars, faultVars>>

FailIgnored(w) ==
    /\ at[w] = "outside" /\ ~StillOpen(w)
    /\ Leave(w)
    /\ UNCHANGED <<deployment, itemVars, assetVars, jobVars, queueVars, decisionVars, faultVars>>

\* Mutants: the sweep overlooks queued jobs; it takes settled ones too.
SweepableRunning(j) == jobStatus[j] = "running" /\ late[j] /\ ~Locked(j)
SweepableSettled(j) == jobStatus[j] # "none" /\ late[j] /\ ~Locked(j)

\* stale_jobs_statement; SKIP LOCKED.
Sweepable(j) == jobStatus[j] \in Open /\ late[j] /\ ~Locked(j)

\* sweep_tenant_stale_jobs locks the row and looks for an open proposal.
SweepLook(w, j) ==
    /\ at[w] = "idle" /\ Sweepable(j)
    /\ on' = [on EXCEPT ![w] = j]
    /\ saw' = [saw EXCEPT ![w] = OpenProposal]
    /\ Goto(w, "sweep")
    /\ UNCHANGED <<deployment, itemVars, assetVars, jobVars, queueVars, decisionVars, faultVars>>

\* Mutant: the previous version is not put back.
CloseForGood(w) ==
    /\ at[w] = "sweep" \/ (at[w] = "close" /\ ~Locked(on[w]))
    /\ jobStatus' = [jobStatus EXCEPT ![on[w]] = "failed"]
    /\ Leave(w)
    /\ UNCHANGED <<deployment, itemVars, assetVars, revises, late, removed, queueVars,
                   decisionVars, faultVars>>

\* It commits: the job is failed and, unless an open proposal was seen, a card
\* with the previous version's payload is queued.
Close(w) ==
    /\ at[w] = "sweep" \/ (at[w] = "close" /\ ~Locked(on[w]))
    /\ jobStatus' = [jobStatus EXCEPT ![on[w]] = "failed"]
    /\ LET previous == revises[on[w]] IN
         \/ saw[w] /\ UNCHANGED itemVars
         \/ ~saw[w] /\ \E i \in Items : QueueRevision(i, previous, shows[previous])
    /\ Leave(w)
    /\ UNCHANGED <<deployment, assetVars, revises, late, removed, queueVars, decisionVars, faultVars>>

\* A worker process dies, at its time limit or otherwise; with threads the
\* process is everything there is, the waiting tasks included.
Crash(w) ==
    /\ at[w] # "idle" /\ crashes < MaxCrashes
    /\ crashes' = crashes + 1
    /\ \/ /\ deployment = "celery"
          /\ Leave(w)
          /\ UNCHANGED queueVars
       \/ /\ deployment = "threads"
          /\ at' = [v \in Workers |-> "idle"]
          /\ on' = [v \in Workers |-> None]
          /\ saw' = [v \in Workers |-> FALSE]
          /\ handing' = {} /\ tasks' = {} /\ UNCHANGED sent
    /\ UNCHANGED <<deployment, itemVars, assetVars, jobVars, decisionVars, redeliveries>>

-----------------------------------------------------------------------------
Run(w) ==
    \/ \E i \in Items : Save(w, i)
    \/ \E label \in {"fail", "outside"} : Stumble(w, label)
    \/ FinishLook(w) \/ FinishWrite(w)
    \/ FailLook(w) \/ FailIgnored(w) \/ Close(w)

Next ==
    \/ \E i \in Items : \E j \in Jobs : RequestChanges(i, j)
    \/ \E d \in Decisions : \E i \in Items : \E v \in Kinds : OpenCard(d, i, v)
    \/ \E d \in Decisions : Decide(d)
    \/ \E j \in Jobs : Dispatch(j) \/ Redeliver(j) \/ GetLate(j)
    \/ \E w \in Workers : \E j \in Jobs : DispatchFails(w, j) \/ Claim(w, j) \/ SweepLook(w, j)
    \/ \E w \in Workers : Run(w) \/ Crash(w)

Spec == Init /\ [][Next]_vars

\* A run that has begun ends (its calls have timeouts), the sweep is scheduled
\* every few minutes and time passes.  A message need not be delivered, and a
\* committed job need not be handed over.
Fairness ==
    /\ \A w \in Workers : WF_vars(Run(w))
    /\ \A j \in Jobs : WF_vars(GetLate(j)) /\ WF_vars(\E w \in Workers : SweepLook(w, j))

FairSpec == Spec /\ Fairness

-----------------------------------------------------------------------------
(* Properties.                                                              *)

TypeOK ==
    /\ deployment \in Deployments
    /\ itemStatus \in [Items -> ItemStatuses]
    /\ revision \in [Items -> Nat]
    /\ replaces \in [Items -> Items \cup {None}]
    /\ shows \in [Items -> Items \cup {None}]
    /\ assetStatus \in {"draft", "approved", "rejected"}
    /\ assetText \in Items
    /\ jobStatus \in [Jobs -> JobStatuses]
    /\ revises \in [Jobs -> Items \cup {None}]
    /\ late \in [Jobs -> BOOLEAN]
    /\ removed \in [Jobs -> BOOLEAN]
    /\ handing \in SUBSET Jobs
    /\ tasks \in SUBSET Jobs
    /\ sent \in SUBSET Jobs
    /\ at \in [Workers -> Labels]
    /\ on \in [Workers -> Jobs \cup {None}]
    /\ saw \in [Workers -> BOOLEAN]
    /\ verdict \in [Decisions -> Verdicts]
    /\ opened \in [Decisions -> Items \cup {None}]
    /\ crashes \in Nat
    /\ redeliveries \in Nat
    /\ lastWord \in {"none", "changes", "verdict"}

\* "Model and image calls are billed": no two threads ever have the same job
\* running, over second deliveries, deaths and late claims.
Running(w, j) == on[w] = j /\ at[w] \in {"run", "saved", "finish"}
OneRunPerJob ==
    \A v, w \in Workers : \A j \in Jobs : Running(v, j) /\ Running(w, j) => v = w

\* One decision never spends two revisions: no two jobs revise the same card,
\* whatever else is deciding on it.
OneRevisionPerDecision ==
    \A j, k \in Jobs : revises[j] = revises[k] /\ revises[j] # None => j = k

\* The count of revisions follows the work through every card, re-queued
\* previous versions included, and never passes the limit.
RevisionsWithinLimit ==
    \A i \in Items :
        /\ revision[i] <= MaxRevisions
        /\ replaces[i] # None => revision[i] = revision[replaces[i]] + 1

\* A card that left the queue never comes back as pending.
DecidedStaysDecided ==
    [][\A i \in Items : itemStatus[i] # "none" /\ ~Pending(i) => ~Pending(i)']_vars

\* A finished design is never called failed afterwards; and, where time limits
\* are enforced, one that was given up on is never called finished.
OutcomeStands ==
    [][\A j \in Jobs :
        /\ jobStatus[j] = "succeeded" => jobStatus'[j] = "succeeded"
        /\ jobStatus[j] = "failed" /\ deployment = "celery" => jobStatus'[j] = "failed"]_vars

\* No job stays queued or running: not when it was never handed over, its
\* message was lost or its worker died.
JobsSettle == \A j \in Jobs : jobStatus[j] \in Open ~> jobStatus[j] \notin Open

\* Whoever asks for changes gets something to decide on again: the design is
\* not left with its last card superseded and nothing in the queue.
ChangesAnswered == lastWord = "changes" ~> OpenProposal \/ lastWord = "verdict"

\* The stored files of version v went with the job that made it.
PictureGone(v) == \E j \in Jobs : revises[j] # None /\ revises[j] = replaces[v] /\ removed[j]
CardHasPicture == \A i \in Items : Pending(i) => ~PictureGone(shows[i])

\* Where time limits are enforced, a card that waits for a decision has the
\* picture it shows: no run outlives the moment its job was given up on.
CardHasItsPicture == deployment = "celery" => CardHasPicture

-----------------------------------------------------------------------------
(* The inductive invariant behind the safety properties.                    *)

\* A thread has a job in hand for as long as it is at work, and every job
\* anybody holds, waits for or was sent has been admitted.
JobsAdmitted ==
    /\ \A j \in Jobs : jobStatus[j] = "none" <=> revises[j] = None
    /\ \A w \in Workers :
          /\ at[w] = "idle" <=> on[w] = None
          /\ on[w] # None => jobStatus[on[w]] # "none"
    /\ \A j \in handing \cup sent : jobStatus[j] # "none"
    /\ tasks \subseteq sent
    /\ handing \cap sent = {}

\* A card that is being revised has left the queue with revisions to spare, and
\* a decision is about a card.
CardsRevised ==
    /\ \A j \in Jobs : revises[j] # None =>
          /\ itemStatus[revises[j]] \notin {"none", "pending"}
          /\ revision[revises[j]] < MaxRevisions
    /\ \A i \in Items : replaces[i] # None => itemStatus[replaces[i]] # "none"
    /\ \A d \in Decisions : verdict[d] # "none" => opened[d] \in Items

\* The thread that runs a job, or closes it for its own failure.
Holds(w, j) == on[w] = j /\ at[w] \notin {"idle", "sweep"}
Sweeps(w, j) == on[w] = j /\ at[w] = "sweep"

\* A job has one holder, which nothing lets another thread join.
OneHolder ==
    /\ \A v, w \in Workers : \A j \in Jobs :
          (Holds(v, j) /\ Holds(w, j)) \/ (Sweeps(v, j) /\ Sweeps(w, j)) => v = w
    /\ \A w \in Workers : \A j \in Jobs : Holds(w, j) =>
          /\ j \notin handing
          /\ jobStatus[j] # "succeeded"
          /\ j \in sent =>
                /\ jobStatus[j] # "queued"
                /\ deployment = "celery" => ~late[j]
                /\ deployment # "celery" => j \notin tasks
    /\ \A j \in handing : jobStatus[j] # "succeeded"

\* The sweep has an open job that is late; where time limits are enforced, the
\* job of a running thread has not been given up on and keeps its files.
RowsKept ==
    /\ \A w \in Workers : \A j \in Jobs :
          /\ Sweeps(w, j) => jobStatus[j] \in Open /\ late[j]
          /\ Running(w, j) => j \in sent
          /\ deployment = "celery" /\ Running(w, j) => jobStatus[j] = "running"
    /\ deployment = "celery" => \A j \in Jobs : ~removed[j]

IInv ==
    /\ TypeOK
    /\ JobsAdmitted
    /\ CardsRevised
    /\ OneHolder
    /\ RowsKept
    /\ OneRevisionPerDecision
    /\ RevisionsWithinLimit

=============================================================================
