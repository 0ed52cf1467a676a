# SEO Portal: TLA+ models of what it sends, spends and decides

SEO Portal (AutoMarket AI) runs some thirty marketing agents for each workspace. The agents draft
content and propose changes; people approve; a scheduler and background tasks send the result to
social networks, content systems and advertising accounts. What is sent cannot be taken back and
what is spent is spent, so the questions this project asks are about that: is a post sent twice, is
one sent that somebody rejected or cancelled, does an emergency stop stop, do the daily and monthly
limits hold, does a design that is being revised come back for a decision, does a connection
survive workers that renew its sign-in beside each other, is the stored ad split the one that is
spent, and does what was scheduled happen in the end. All of this is decided by several processes
that share rows of one PostgreSQL database.

Paths below are relative to `src/backend/app/`.

## 1. Inventory

| Component | Code | State it keeps | Operations | Interacts with |
|---|---|---|---|---|
| Scheduled publisher | `services/assets.py` (`publish_due` and helpers), `orchestration/scheduler.py` | `marketing_assets` rows: `status`, `scheduled_for`, `updated_at`, `published_at`, `detail` (attempts, deferrals); per pass: claimed rows in memory, the day's count | recover interrupted, claim due, count, hold for a stop, hold for the limit, relock, send, defer, fail | platforms; stops; social scheduling; approvals |
| Social scheduling | `services/social_schedule.py` | the same rows, `idempotency_key` | `schedule`, `cancel`, `publish_now` | publisher |
| Approval decisions | `services/approvals.py`, `api/v1/approvals.py`, `assets.release` / `reject_asset` / `publish` | `approval_items.status` | `approve`, `reject`, `expire_stale` | publisher, stops, asset library |
| Approval queue | `services/approvals.py` | `approval_items`, payloads, revisions | `queue_action`, `request_changes`, `edit_text`, `queue_revision`, `expire_stale` | runner, people |
| Agent scheduler | `orchestration/scheduler.py`, `orchestration/tasks.py` | `next_run_at` as a lease | `tick`, `_claim_due`, `_run_one`, Celery task with retry | runner |
| Agent runner | `orchestration/runner.py`, `agents/base/policy.py`, `agents/base/context.py` | `agents` row: `status`, `consecutive_failures`, `actions_today`; `agent_runs` | `run_agent`, `_process_actions` | policy, approvals, stops, connectors |
| Agent switches | `api/v1/agents.py` | the same row | `pause`, `resume`, `run_now`, configure, autonomy | scheduler, runner |
| Emergency stops, limits | `services/agent_safety.py`, `api/v1/safety.py` | `Organization.settings["agent_safety"]`, platform switches | `stop_workspace`, `resume_workspace`, `save_caps`, practice mode, `set_platform_switch` | everything that sends |
| Creative jobs | `services/creative/pipeline.py`, `orchestration/tasks.py` | `creative_jobs.status`, the design's `marketing_assets` row, stored files | admit, hand over, claim, run, finish, fail, sweep, put back the previous version | approvals, Celery's render queue or a thread pool |
| Asset library | `services/assets.py`, `api/v1/content.py`, `api/v1/creative.py`, `services/creative/hooks.py` | a post's row; `marketing_assets.detail` of a design: its picture, the approved one, a redraw awaited | publish, reject, edit, export, restore a text, redraw, download, post | approvals, creative jobs, social scheduling |
| Creative quota | `services/creative/quotas.py` | counters on `creative_jobs`, limits in settings | `admit_job`, `reserve_images`, `reserve_tokens`, `release_images`, `settle_tokens`, overrides | creative jobs |
| Connector tokens | `services/oauth_tokens.py`, `services/oauth_flow.py`, `services/connectors.py`, `connectors/base/oauth.py` | encrypted credentials, one copy in each run's memory | renew, recover, save, sign in, disconnect, store a settings form | vendors |
| Ad budget split | `agents/predictive_budget_engine/`, `services/budgets.py`, `services/agent_safety.py` | `budget_allocations.percent` / `locked`, shift history, the day's ledger | run, allocate, assess, apply, approve, `set_share`, `unlock_channel` | ad platforms, approvals, limits |
| Sessions | `services/auth.py`, `services/mfa.py` | refresh-token families, codes | login, rotate, revoke | – |
| Version history | `services/history/store.py` | numbered snapshots | record, restore, prune | – |

What is left out for good (the agents' prompts and vendor calls, HTTP clients, encryption,
row-level security, reporting, the web console) is listed in `PROJECT.json` with the reason.

**What is hard.** Publishers overlap: the scheduler's pass, a "post now" task and the request of a
reviewer may all hold rows of the same table. They agree through three devices: `FOR UPDATE SKIP
LOCKED` while claiming, the committed status `publishing` after it, and a second row lock from just
before the call to the platform until the outcome commits. Between claim and send nothing is locked,
and each process works on copies it read earlier (`expire_on_commit=False`). A platform's answer may
be lost; a process may die anywhere; recovery after thirty minutes cannot tell a dead publisher from
a slow one. Agents' rows have no version and no lock: whoever commits last wins, column by column.
Settings are one JSON column, written back whole.

**What makes each part correct.** Publisher: one claimant per post, at most one send unless an
answer was lost, honest statuses, bounded retries, stops and limits, and no post left behind.
Approvals: every
send has a release of its own, nothing goes out that nobody approved, and what is declined stays
back. Fleet: a stop lets at most
the change under way through, resume restarts exactly what ran, daily cap, one run at a time, every
running agent runs again. Creative jobs: one run per job, one revision per decision, a bounded number
of revisions, no card without its picture, every job settles and every request for changes is
answered. Asset library: only a picture that somebody approved leaves the workspace. Quota: a month's designs, pictures and tokens stay within its limits, and what was used is
charged. Tokens: a connection breaks only by a real loss, and a run moves it forward only. Budget
split: sound plans, a daily limit on what is moved without a person, stored shares that are the ones
spent, and shares set by hand that stand.

## 2. Plan

Done, most important first:

1. `ScheduledPublishing`: the publisher with scheduling, cancelling and stops.
2. `ReviewedPublishing`: composes (1) with the people who approve, reject, edit and publish posts, and
   with the expiry of old cards.
3. `PostLifecycle`: what the publisher promises about each post, as an abstract specification that
   (1) implements. (1), (2) and this refinement are proved in `PublishingProofs`.
4. `AgentFleet`: scheduler, runner, switches and stops; proofs in `AgentFleetProofs`.
5. `DesignReview`: the approvals queue and the creative jobs around one design; proofs in
   `DesignReviewProofs`.
6. `CreativeQuota`, with `CreativeQuotaProofs`.
7. `SignInTokens`, with `SignInTokensProofs`.
8. `BudgetSplit`: spending limits, practice mode and the allocator; proofs in `BudgetSplitProofs`.
9. `DesignFiles`: which picture of a design leaves the workspace, with `edit_text`, restores,
   redraws and the library; proofs in `DesignFilesProofs`.
10. `Sums`, with `SumFacts`: adding up over a set, for (6) and (8), and what is proved about it.

Left:

11. Two spending agents that share the day's ledger.
12. Approval targets with appliers of their own (content pages, keywords, outreach).
13. What the quota promises (so much a month, charged once) as an abstract specification that
    `CreativeQuota` implements.

## 3. Modules and the code

### ScheduledPublishing

One workspace, any number of `Posts` and `Publishers`. Those in `Schedulers` run
`publish_scheduled_assets` (every due post); the others are `publish_now` tasks (`only_ids`).

| TLA+ | Code |
|---|---|
| `status`, `due`, `stale`, `recent` | `status`; `scheduled_for <= now`; `updated_at` older than `STALE_PUBLISHING_MINUTES`; `published_at` within 24 hours |
| `attempts`, `deferrals` | the two counters in `detail` |
| `stops` | what `agent_safety.halt_reason` reads |
| `pc`, `batch`, `current`, `posted`, `reloaded` | where a publisher is in `publish_due`, and its memory |
| `reached`, `unsure`, `afterStop` | not in the program: what the platform really got; answers that were lost; sends under a stop |
| `sentBy`, `revived` | not in the program: what each publisher published in the last 24 hours; rows put back on the schedule though they had been given up on |
| `Schedule`, `Cancel`, `Stop`, `Resume` | `schedule` (one item), `cancel`, `set_platform_switch` / `stop_workspace` and their opposites |
| `StartPass`, `Claim`, `CountPosted` | the check at the top, `_recover_interrupted` with `_claim_due` in one transaction, `_posted_last_day` |
| `HoldForStop`, `HoldForCap`, `PickNext`, `Relock` | the loop, `_hold_for_stop`, `_hold_for_cap`, `_relock_publishing` |
| `SendOk` … `RecordDatabaseError` | `_send_claimed`, one action per kind of outcome |
| `Crash` | the process dies, or an exception ends the pass |

A transaction that ends before the next call to a platform is one step. `sending` is the interval in
which the row lock is held: every other writer of that row waits (`~Locked`), every `SKIP LOCKED`
query passes over it. Time is reduced to what is compared: `BecomeDue`, `BecomeStale` and `DayPasses`
may happen whenever the code cannot exclude them; in particular a claim may become stale while its
publisher is alive. `_hold_for_stop` tests a copy of the row made at the claim; `Held` says when that
copy is read again (a rollback).

Abstracted: what a post says, pictures, links, time zones, brand checks; per-network differences
except the answers; the order of a batch (any order here, so also the one by date); the `publisher is
None` branch, which is a refusal without a call. `published_at` keeps its first date when a post goes
out a second time; the model takes the new one, so that a limit counts it again.

### ReviewedPublishing

EXTENDS the publisher. Every post is a draft with one pending item, and any number of requests are
about posts at the same time. A request opens (`Open`: reads the item and the post, checks them), works,
and writes from what it read, because nothing locks the item and only the claim locks the post. A
request that sends is a publisher too: `publish_due` runs inside it.

| TLA+ | Code |
|---|---|
| `item` | `approval_items.status` of the post's card |
| `phase`, `asked`, `about`, `seen` | how far a request is, what it does, its post, the post's status in its memory |
| `releases` | not in the program: how often somebody's request released a post |
| `OpenRelease` | the checks of `approve`; of the library's `publish_asset`, which goes through `approve` when the item is pending and calls `release` itself when it is not |
| `OpenRefusal` | `reject`; the library's `reject_asset`, with a pending item and without; `expire_stale` reaching the item |
| `OpenEdit`, `Edit` | `update_asset`: a post that failed is a draft again, others get a new date |
| `ReleaseDone`, `ReleaseLater`, `ReleaseNow`, `CallPlatform` | the branches of `release` |
| `ReviewerPass`, `FinishRelease` | `publish_due` inside the request, and what `_release_social_now` and `approve` do with its outcome |
| `DirectOk`, `DirectWait`, `DirectFail` | `publish` for other kinds |
| `Declined`, `Reject`, `Expire` | `reject` with `reject_asset` as rejecter, the library's own, `expire_stale` |
| `ReviewerCrash` | keeps what was committed, also when a database error ends a direct send |

`Written`: a column is written only when the request's copy has another value, as the ORM does; so a
request that read "scheduled" and writes "scheduled" leaves a claimed row alone. `expire_stale` goes
over many items in one transaction; here it is one request for each. Left out: approval scopes; kinds
that are only approved for download, with their statuses "approved" and "exported" (they are never sent);
a new date for a post that is not on the schedule (a release chooses it anew).

### AgentFleet

| TLA+ | Code |
|---|---|
| `status`, `next`, `failures`, `used`, `dated` | the columns of `AgentRecord` |
| `mem`, `left`, `pc` | the run's own copy of the row, the actions still to process |
| `waiting` | runs claimed by a tick (in its list or in Celery's queue) and background tasks of "Run now" |
| `fresh`, `orphan` | a `RUNNING` row younger than the lease, whose run is alive or dead |
| `stops`, `remembered` | platform switch, `settings["agent_safety"]["stopped"]` with its `resume` list |
| `req` | what an open request has read |

`Begin` … `Finish` are `run_agent`; `PassOver`, `Decide`, `Apply`, `ApplyFails` one turn of
`_process_actions`. What an agent does is reduced to `Outcomes`. A run writes only the columns its copy shows
changed, as the ORM does; so does a request. `CloseStop` reads the agents when it writes, but
the settings when it opens, because the request has loaded the organisation by then. Left out:
practice mode, spending limits, on-demand agents, per-tick limits, the row locks a
flush in mid-run takes (they delay a request, and release it before the run's next model call commits).

### PostLifecycle

The abstract specification: posts are planned, taken, delivered, put back, given up on or withdrawn,
and a post is delivered only while every earlier delivery is *excused* (its answer was lost).
`ScheduledPublishing` instantiates it with

| PostLifecycle | ScheduledPublishing |
|---|---|
| `life[p]` | `Life`: `none` and `draft` are *absent*, `scheduled` *waiting*, `publishing` *taken*, `rejected` *cancelled* |
| `delivered` | `reached` |
| `excused` | `unsure` |

One claim takes and gives up on several posts at once, hence the sets of `Take` and `PutBack`.

### DesignReview

One design, its cards in the approvals queue and the jobs that revise it.

| TLA+ | Code |
|---|---|
| `itemStatus`, `revision`, `replaces`, `shows` | a card's `status`, `payload["_revision"]`, `payload["_revises"]`, the version its payload shows |
| `assetStatus`, `assetText` | the design's row |
| `jobStatus`, `revises`, `late`, `removed` | `creative_jobs.status`, its envelope, older than the hard limit and the grace, `_discard_job_files` has run |
| `handing`, `tasks`, `sent` | jobs committed and not yet handed over; messages in the queue; messages ever sent |
| `at`, `on`, `saw` | a worker in `run_job`, `fail_job` or `sweep_tenant_stale_jobs`; its job; whether `find_open_proposal` found one |
| `verdict`, `opened` | an approve, reject or expiry under way, and the card it read |
| `RequestChanges` | `request_changes` with the job it admits: row lock, checks, new job |
| `OpenCard`, `Decide` | `approve`, `reject`, `expire_stale`: a read without a lock, a write |
| `Dispatch`, `DispatchFails`, `Redeliver` | `start_job`, its failure, `acks_late` |
| `Claim`, `Save`, `FinishLook`, `FinishWrite` | `_claim_statement`, `_persist` and `queue_revision`, `_reload_job_row` |
| `Stumble`, `FailLook`, `FailIgnored`, `SweepLook`, `Close` | `_finish` / `fail_job`, the sweep, `_after_failed_revision` |

Both deployments are modelled: with Celery a worker is killed at its time limit, so a job gets late
only when nobody runs it; with threads nothing kills a run, and a crash takes every thread and the
waiting tasks. Left out: a job's first version, the drawing itself, editing the text (`DesignFiles`), other
designs (they share nothing but the queue).

### DesignFiles

The same design seen from its row, `detail` above all, which everybody writes whole from an older copy.

| TLA+ | Code |
|---|---|
| `detail.picture`, `detail.record`, `detail.awaited` | `render_file_id` (with preview and `file_id`), `approved_render_file_id`, `preview_pending` |
| `card`, `cards` | the pending card, 0 for none; cards so far |
| `req` | per request: what it does, the card and the copy of the row it read |
| `redraws`, `drawing`, `run` | redraws submitted; a worker in `redraw` with its copy; a revision queued or under way |
| `approved` | not in the program: the pictures that were on the row as somebody's approval read it |
| `OpenEdit`, `OpenRestore`, `CloseText` | `edit_text` with `edit_creative_text`; `restore_creative_text`; both end in `_mark_pending` |
| `OpenDecision`, `CloseApprove`, `CloseReject` | `approve` / `reject` and the library's `publish_asset` / `reject_asset`, with `release` and `_record_approved_design` |
| `OpenExport`, `CloseExport`; `OpenChanges`, `CloseChanges` | `export_asset`; `request_changes` |
| `BeginRedraw`, `FinishRedraw`, `FailRedraw`, `LoseRedraw` | `rerender_asset`, `redraw`, `_redraw_failed`, a worker that dies |
| `BeginRun`, `SaveRun`, `FailRun` | `_revision_target`, `_persist`, `_after_failed_revision` |
| `Download`, `Postable` | `design_files` and `released_render_ids`; `_design_file` |

The `FOR UPDATE` of `_lock_pending` is `Locked`: a decision or the end of a redraw that writes the
card waits for it. `WriteStatus` and `WriteDetail` leave a column alone that its writer did not change
in its copy. Left out: the revision limit and the sweep (`DesignReview`), the text itself, failed
drawing of a first version, previews and digests (they travel with the picture).

### CreativeQuota

`Count` … `Admit` / `Reserve` / `Refuse` are one transaction of `admit_job`, `reserve_images` or
`reserve_tokens` under the advisory lock; settlements and releases take no lock, so they may come in
between, as may new limits and midnight. `inputs`, `outputs`, `images`, `unknown`, `created` are the
columns of `creative_jobs`. `ceiling` is the highest limit the month has had: a limit that is lowered
says nothing about what was used before. Limits and usage are read in one step. A call whose server
reports no use folds what was counted into `tokens_out` and makes `tokens_in` NULL; from then on reported
input is dropped, as in `settle_tokens`. `spent` is what calls may have used at most, whatever the row
says, and `blind` counts the calls whose prompt nobody counted. A reservation is charged to the job's
row, that is, to the month the job was created in; `lateImages` and `lateTokens` are what was reserved
after that month had ended. Pictures that were made but could not be normalised or stored are released
and not charged, which is what the code does. A failed call may be followed by others.

### SignInTokens

One connection to a vendor with single-use refresh tokens. A token is the sign-in it descends from
and its place in the chain. A run renews (`Renew`, `AnswerLost`, `Refused`), recovers the token
another worker stored (`Recover`), and saves if the record still has the token it used (`Save`). A
settings form checks with its own copy and stores that copy. A worker whose
token was renewed but not saved by another fails, because there is nothing to recover yet. Left out:
the redirect and its state row, pasted tokens, the connected flag, vendors that keep one refresh token.

### BudgetSplit

| TLA+ | Code |
|---|---|
| `share`, `locked`, `cac`, `history` | `budget_allocations` and the engine's shift history |
| `platform` | external: what the ad platform spends, set by `set_budget_share` |
| `card`, `stopped`, `charged` | the pending proposal, the stop, `today_ledger` |
| `run.gate` | how the policy routes a run's plan (`gate_for`, practice mode): any way, chosen for each run |
| `Outcomes`, `Answers` | what becomes of a push: taken, refused, taken with the answer lost, or not made because the connector is gone by then |
| `apart` | not in the program: channels whose row and platform may differ, and why is counted nowhere |
| `run`, `review`, `edit` | the engine's transaction, an approval's, `set_share`'s: what each has read, pushed and will write |
| `Baseline`, `Allocation`, `Repaired` | the allocator: `_baseline`, `allocate`, `_repair_total` |
| `Weighted`, `Weights`, `LeftBeside`, `Capped` | parts of `allocate`: who takes part, `inverse` over a common denominator, `available` and `pool`, the cap on a move |
| `Dearer` | the order `_repair_total` and the choice of the cheapest use |
| `Distributed`, `Settable` | `budgets._distribute`, `set_share`'s refusals |
| `BeginRun`, `Practise`, `Queue`, `Send`, `CommitRun`, `RunDies` | a run up to its commit |
| `Approve`, `SaveApproval`, `Reject`, `OpenEdit`, `SaveEdit`, `Unlock` | the people |

Abstracted: spend is constant, so money is counted in points of the budget; the gate "review" stands for
the guardrail, the autonomy switch and an unverified connector alike; the action allowance is
AgentFleet's; ratios are exact where the code rounds floats; every channel has spend or a share, so all have a
floor; `_repair_total`'s loop is written as what it ends with; one run at a time; an approval's reads
and pushes are one step. A channel whose platform is not connected takes its share without a push, as in
the code; one whose connector is there when the run reads and gone when the plan is applied is the
outcome "absent". Left out: scope, channels excluded by settings (held like a locked one, and not
written), moves that cannot be priced, edits of the limit.

## 4. Runs

`MC*.tla` give the constants their values. Model values stand for rows and processes. Bounds that
are not in the code are called *bound* where the modules declare them. Attempts, deferrals, caps,
revision limits, ceilings and quotas are constants of the code, made small.

| Run | Result | Instance | Shows |
|---|---|---|---|
| `publishing_safety` | pass | 2 social posts, scheduler + post-now task, 1 crash, answers ok / lost / database error, limit 1, 2 attempts, 1 deferral; 430,420 states | `ClaimedOnce`, `SentAtMostOnce`, `StatusHonest`, `StopHoldsTheRest`, `DailyLimitRespected`, `CancelAndPublishAreFinal`, and the refinement `ImplementsLifecycle` |
| `publishing_liveness` | pass | 2 social posts, limit 1, one scheduler, 1 crash, answers ok / wait / transient / refused / database error, 2 attempts, 1 deferral; 79,446 states | `TriesBounded`; under fairness `EveryPostSettles` |
| `reviewed_safety` | pass | 2 posts (one social, one not), 2 requests at once, scheduler, 1 crash, all answers but a plain transient one, limit 1, 2 attempts; 1.07 million states | `SentAsReleased`, `RejectedNeverSent` whatever dies; `NothingSentUndecided` while no process died |
| `fleet_safety` | pass | 1 agent, 1 worker, 1 person, workspace stop, 2 changes per run, cap 2, 1 dying run | `StopHoldsTheRest`, `ResumeRestarts`; `DailyCapHolds` while no run died |
| `fleet_liveness` | pass | 1 agent, 1 worker, 1 person, platform switch, 1 dying run, 1 midnight | `EveryAgentRuns` |
| `design_review` | pass | 7 cards, 2 requests for changes, 1 revision, 2 workers, 1 decision at a time (approve, reject, expire), 2 crashes, 2 second deliveries, both deployments; 72,256 states | `OneRunPerJob`, `OneRevisionPerDecision`, `RevisionsWithinLimit`, `CardHasItsPicture`, `DecidedStaysDecided`, `OutcomeStands`; under fairness `JobsSettle`, `ChangesAnswered` |
| `quota_safety` | pass | 2 jobs of 2 calls, ceiling 2, prompts up to 1, limits none, 1 and 3 changed once, 1 death, 1 new month; 5.3 million states | `JobsWithinLimit`, `UseBounded`, `NothingUncharged` |
| `tokens_safety` | pass | 2 runs and 1 form, 2 sign-ins of 4 tokens, 3 expiries, 1 fault; 2.5 million states | `BreaksOnlyByLoss`, `RecoversFromOthers`, `RunsOnlyRenew` |
| `budget_safety` | pass | 3 connected channels at 20/40/40 or 0/0/100, daily limit 16, 2 runs that choose who applies, 1 review, 1 edit, 1 fault (a push refused, lost or not made, or a death), 1 midnight; 2.3 million states | `PlanSound`, `MovedWithinLimit`, `StoredIsSpent`, `HandSetShareStands` |
| `fleet_lost_stop` | violation | 2 requests | saving limits undoes the stop (`StopStaysOn`) |
| `budget_total` | violation | as `budget_safety` | one refused push, and the shares add up to 84 (`SplitTotals`) |
| `design_files` | violation | 1 design, 2 requests, 1 redraw | an approval that overlaps a redraw is forgotten (`DownloadsStayApproved`) |

**Why the bounds are enough.** Every conflict between publishers is about one post and two
publishers; a second post gives the batch something left when a stop or the limit arrives. Two attempts
and one deferral have a first, a last and a one-too-many case. One crash lets recovery meet both a
dead and a live publisher, and what recovery does next depends on the row alone. `publishing_safety`
has the answers after which publishers may disagree about a post; those that only put it off or end it
are in `publishing_liveness`, and all are in the proofs. `reviewed_safety` has two requests: two decisions on one
item overlap, or a decision and an edit, beside a pass of the scheduler that holds the post; or the second
comes after the first and finds the post failed, declined, put off, in hand or out; with a post of
either kind.
In the fleet one worker is a restriction: with two workers a scheduled run and "Run now"
overlap, and with them the cap falls (section 7). Two changes a run and a cap of two give a change
before and after a stop, and a second run at the limit. In `design_review` two jobs and two workers
let a sweep, a second delivery and a late run meet on one job, and a second request meet the card a
failure put back; a limit of one revision has a card below it and one at it, and seven cards
are more than two jobs can queue there. (A limit of two was checked too.) Limits of 1
and 3 with a ceiling of 2 have a call that just fits and one that just does not, and a job that runs over the end of a month one
that reserves after it. Tokens of two
sign-ins, with two runs that renew and one form that stores, have each of the three races of section
7; the fault may fall at any point. Three channels are the fewest with which the repair has a choice;
a daily limit of 16 lets one full move through and stops the second, and from 0/0/100 a channel
loses more than the cap. One fault is one push that goes wrong, in any of the three ways, or one death. The proofs remove the bounds for
most of the safety properties (section 6).

`publishing_liveness` leaves out the answer "spacing": Reddit's own spacing is not counted, so a platform
that always gives it puts a post off for ever, which is the code's intention (spacing ends when the
earlier post is old enough). A lost answer looks like a transient one to the publisher.
`EveryPostSettles` also says that no post stays "publishing": a post is scheduled before anybody claims
it. `NothingSentUndecided` stops at a death, which leaves what the request had committed without the
decision; the other two properties of `reviewed_safety` do not. `OneActivePerKey` needs three rows to be
of interest (two of one key, and the batch they are held with); it is proved and has no run. `CardHasItsPicture` and half of `OutcomeStands` are about Celery: with threads a run
outlives the moment its job was given up on (section 7). Runs with `CHECK_DEADLOCK FALSE` are of
systems that come to rest when their bounded work is done.

Every property has at least one mutant: a definition with a plausible slip (`ClaimableAgain`, `PickNextBlindly`, …),
written beside the original, with which TLC finds the property violated.

## 5. Fairness

`FairSpec` of the publisher: the scheduler starts a pass again and again (`WF` of `StartPass` for
schedulers only, since its loop never ends), a pass that has begun moves on (`WF` of `pc # "idle" /\
Pass`: platform calls have time limits), and instants pass. Nothing makes people act, post-now tasks
start or processes die. Strong fairness is not needed: while a pass waits for a row, the lock's owner
is itself a pass that moves on.

`FairSpec` of the fleet: `tick` recurs (`WF`), a running run goes on (`WF`; soft time limit 600 s in
Celery), instants pass. Strong fairness is assumed of `Claim` and of the start of a waiting run:
both are interrupted again and again (a tick ends; the worker is busy), but the claim takes the
oldest `next_run_at` first and queues are first in, first out, so none is passed over for ever.

`Fairness` of `DesignReview`: a run that has begun ends (its calls have timeouts), the sweep is
scheduled and time passes (`WF` of `Run`, `GetLate`, `SweepLook`). A message need not be delivered and
a committed job need not be handed over: the sweep alone must settle what is lost. No fairness is
assumed of people.

The liveness properties of publisher and fleet assume that stops are over in the end (`<>[]~Halted`): a stop that stays is
meant to hold everything.

## 6. Proofs

**`PublishingProofs`: the publisher.** For every set of posts and publishers and every limit
(`ConstantsAssumption`: finite posts, batch, limit and attempts positive) `Spec` implies
`[]TypeOK`, `[]ClaimedOnce`, `[]SentAtMostOnce`, `[]StatusHonest`, `[]StopHoldsTheRest`,
`[]TriesBounded` and `CancelAndPublishAreFinal`.

The argument: *a publisher only writes rows it holds*. None of the properties is inductive alone.
That a post is not sent twice needs that a held row is still `publishing`, or was failed by somebody's
recovery (`HeldRows`), and has not been sent for certain yet (`HeldUnsent`); that holds because
claims are exclusive (`ClaimedOnce`), which needs that a held row is never `scheduled`, which is
`HeldRows` again, and that nothing but the labels `relock`, `sending`, `undo` has a current post
(`PassShape`). `TriesLeft` carries the attempt bound across the time a row is on the schedule.
`StopIsSeen` says that a publisher that finished one send under a stop is at a point where it looks at
the stop again before the next. `IInv` is the conjunction. There is one lemma for each group of
conjuncts (types, who holds what, what is unsent, rows, stops, final statuses), each with a step per
action, then `Init => IInv`, `IInv /\ [Next]_vars => IInv'`, and PTL.

`Spec => ImplementsLifecycle` follows from the same invariant: initial states map to the initial state,
and each action of the publisher maps to a step of `PostLifecycle` or leaves it alone. `HeldRows` and
`HeldUnsent` are what makes the two conditions of the abstract `Deliver` and `PutBack` (*taken*,
*undelivered*) true when the publisher sends or puts back.

From `IInv` two more things follow, for any number of publishers. *The daily limit*
(`DailyLimitRespected`, per publisher): `CountCovers` says that the number a pass counted at its
beginning, and raises, covers what its publisher published in the last 24 hours all along, and leaves
room for the post it is about to send; `SentIsListed` that what somebody published is listed as such,
so that the next count sees it. *The keys* (`OneActivePerKey`): a row that becomes active again was held
by somebody, and had been given up on meanwhile (`ActiveAgain`); it is in `revived` then, and every other way
to become active is `Schedule`, which looks at the key first. For all publishers
together, and without the exception, both fail (section 7).

**`PublishingProofs`: the requests.** All four properties of `reviewed_safety`, for any number of
requests, posts and publishers at once. `IInv` is not reused here, because `HeldUnsent` fails when a
person releases a failed post again. The chain is:

- `ShapeInv`: types, and what a request's and a publisher's memory look like at each label.
- `PassEffects`: from that, what a step of any pass does to one post: it takes it from the schedule, gives
  it up as interrupted, puts it back, sends it or ends it, and whose hands it is in then.
- `SendsAccounted`, for `SentAsReleased`: sends made, senders that may still send, and a place on the
  schedule add up to no more than releases and lost answers. A claim turns the place into a sender, a
  send a sender into a send; a release adds one on each side. A database error ends a sender before it is
  known whether the post went out (`InHand`). The finitely many publishers (`ReviewConstants`) are
  needed to count senders.
- `SendingRows`, for `RejectedNeverSent`: the row of a post that is being sent says "publishing", so no step
  but that of a request's direct call sends a declined one.
- `ApprovalsGuard`, for `NothingSentUndecided`: while an item is pending its post is not on the schedule
  nor out, and only approvals of it have it in hand (`InApproval`), or an approval has done its part and
  will close the item (`WillApprove`). A second approval keeps that true whatever the first does;
  the library's "Publish" cannot break it, because an item once decided is never pending again
  (`OnlyReleasesSend`). A death breaks it: the commit in mid-request survives and the decision does not.

`AgentFleetProofs`: types and `StopHoldsTheRest` for any number of agents, workers and people. The
strengthening is `BegunBefore`: while a stop is on, a worker that makes a change has made none since it came
on; the count starts where the stop does, and a stop that is on already resets nothing. Two properties
that fail with two actors (section 7) are proved for one: `DailyCapHolds` with one worker
until midnight, because the row, or the copy of the only run, counts what was done (`CountIsTrue`); and
`ResumeRestarts` with one person at a time, who finds the list as it was read (`StopRemembered`),
whatever workers, the scheduler and the platform's switch do in between.

`DesignReviewProofs`: types (`TypeCorrect`) and the six safety properties of `design_review`, for any number of cards,
jobs, workers and decisions and any limit of revisions. The core of `IInv` is `OneHolder`: a job whose
message was sent and that somebody runs is not queued, with Celery not late, with threads not in
the queue again, so nobody can claim it a second time. `RowsKept` follows the sweep and keeps a running job
`running` where time limits are enforced; `CardsRevised` says that the card a job revises has left the
queue with revisions to spare, which is what bounds the chain when the previous version is put back.

`Sums` and `SumFacts`: `Sum` and `Product` are folds of the community modules, that is, recursive
functions on the subsets of a finite set that take whatever element `CHOOSE` gives. The library's
induction theorems cannot be used (their parameter is an operator), so `SumFacts` looks at a *smallest
counterexample* instead: among the subsets for which a claim fails there is one with the fewest
elements (least number principle on the cardinalities, a fact about sets of numbers), and the step from
it to one element fewer refutes it. That the recursion has a solution, that it has one only, and that
a sum may be taken apart by any element, by sets and by summands, are each shown that way; bounds on
sums and what a sum does when one value changes are what the next two modules cite.

`CreativeQuotaProofs`: types, `JobsWithinLimit`, `UseBounded`, `NothingUncharged`. `CountsAlone` (who counted holds the
lock) gives `RoomIsLeft` (the room found is there until it is taken), also when midnight or a
changed limit comes in between; a call under way is covered by its reservation, so releasing it never
takes what another call used. `NothingUncharged` needs to know, besides, that a reservation kept covers
all a call may have used but its prompt, which `blind` counts (`Reserved`). `UseBounded` adds up the rows
of every month up to now, less what was reserved late: `UseRoom` says that what was found to be free is
so until it is taken, also while other calls settle, and `EndedMonth` that the end of a call
adds a prompt to its month at most, whichever month that is. A settlement may
charge more than was reserved, by its prompt; so the bound counts a prompt only for jobs without a
call under way (`Quiet`), and a job that settles, and gets its prompt, becomes one of them. `Fresh`
says that a job that is not a row yet brings nothing into the sum.

`SignInTokensProofs`: types, `BreaksOnlyByLoss`, `RunsOnlyRenew`, `RecoversFromOthers`, for any number of
runs, forms, sign-ins and renewals. The strengthening is `RenewedHeldByOne`: what a connector is about to
save is the vendor's newest token, it came of the token it compares with, and nobody else has it;
`RefusedIsSpent` keeps a refused token refused.

`BudgetSplitProofs`: types, `StoredIsSpent`, `HandSetShareStands`, `MovedWithinLimit` and `PlanSound`
for any number of channels, any split and any readings. There are three invariants and a property that
is inductive as it is.

- `IInv`: `WritesWhatLanded` says of both kinds of transaction that they push nothing that was locked
  when they read, write only what was pushed, and, while nobody else is at work, that every channel whose
  push was answered (`inStep`) will be stored as the platform has it; the others are on the list of those that
  may differ (`apart`) from the moment their answer is lost. It never asks what the allocator computes.
- `TypeInv`: what is about to be written is a percentage. This needs the allocator: `AllocationFacts`
  (a plan's percentages are within 0..100 although `_repair_total` adds all of a surplus to one
  channel) and `DistributedFacts` (so are hand-set ones, by largest remainder).
- `LedgerHolds`: accounting. What was sent is on the ledger, or will be when the run commits
  (`Pending`), or belongs to one of the sends that it cannot show, each a day's limit at most.
- `PlanSound`: `AllocationFacts` again; a plan is sound when it is made, and while it waits
  nothing it was made from changes in the run's memory. The repair is the hard part: what the dearest
  channels give up in turn adds up to the excess exactly when they have that much above their floors
  (`TakenFacts`). Gains: only the cheapest channel is ever raised by the repair. Losses: a channel gives
  up more than the cap only when all dearer ones are at the floor, and no more than the others may
  gain together, because that is all the repair has to take back.

`PlansAreSound` is stated for `N <= 15`. The code has six channels (`AdChannel`, and `_INITIAL_SHARE` in
`services/provisioning.py`). The reason for a bound: rounding each share of a rescaled baseline may
add half a point per channel, which `_baseline` takes back from the largest share; with many channels
the largest may be smaller than that, `max(0, …)` cuts it off, and the baseline is not 100. Up to
fifteen the proof shows that it never is.

`DesignFilesProofs`: types, and `PostedWasApproved`, for any number of requests, workers and pictures: a
picture that can be posted was approved, whoever overwrites whom. The strengthening,
`RecordsApproved`, speaks of every copy of the row in anybody's memory: one that is written back later can
bring back an older record, or none, but never the record of a picture nobody approved. The same
argument fails for downloads, which fall back to the current picture when there is no record (section 7).

Proved and not run: the type invariants of `DesignReview`, `CreativeQuota`, `SignInTokens` and
`DesignFiles`, and `PostedWasApproved` (TLC went through it once with two pictures and one card, 9.5 million states).

Model-checked only: liveness and everything with fairness (`EveryPostSettles`, `EveryAgentRuns`,
`JobsSettle`, `ChangesAnswered`), which the prover does not reach. Every invariant and every action
property of the passing runs is a theorem, with the hypotheses named above: one worker, one person at a
time at the fleet's stop, up to fifteen channels. Where a hypothesis limits the number of actors,
section 7 has the run of events that breaks the property with two.

## 7. Where the code and its documents part

Three runs are expected to find a violation; each is a finding in `PROJECT.json`:

- `fleet_lost_stop`: a whole-settings write from an old copy removes a stop.
- `budget_total`: after an approved plan one of whose pushes was refused the shares add up to, say,
  20 + 32 + 32. `services/budgets.py` says they add up to 100 after every write; `repair_split`, which
  would see to it, is called by nothing.
- `design_files`: a reviewer edits a text, its redraw begins, a reviewer approves the design as it is
  still shown, the redraw ends. It writes `detail` from the copy it read before the approval, so
  `approved_render_file_id` is gone, and what the library and `api/v1/files.py` then serve as the approved
  design is the redrawn picture. Posting to a network refuses such a design instead.

What follows was seen with TLC while modelling, and is the reason for bounds and conditions above. No
run is kept for it. Publishing and fleet:

- *One count per pass.* The daily limit is counted at the beginning of a pass: two passes at once
  send one post each under a limit of one, so `DailyLimitRespected` speaks of each publisher. Nor does the
  count see a post that its platform took and that is listed as failed (a database error or a death
  after the send, `assets.py:866`): such posts come on top of the limit.
- *Decided twice.* `approvals.py:351` says "That item has already been decided", and nothing locks the item
  between that check and the write. Two requests that both read it as pending decide it one after the
  other; the later decision replaces the earlier (also one by `expire_stale`, which decides what it has
  selected without looking again), and two approvals release the post twice. `SentAsReleased` counts
  both releases.
- *Published from the library beside a pass.* "Publish" for a post without a pending card calls
  `release`, whatever the row says but "published" or "exported". A request that read the post before it was
  sent puts it on the schedule again and sends it a second time, and for a post that is just being sent
  the second copy is claimed as soon as the first is recorded; `assets.py:746` says "Together, no post can
  be claimed twice". `ClaimedOnce` and `SentAtMostOnce` are properties of publishers without requests.
- *A declined post, published.* The library's "Publish" also releases a post whose card was rejected or
  expired; `RejectedNeverSent` counts that as a new release.
- *Declined and put back.* Both ways to decline write "rejected" over a row a publisher has claimed. The
  relock sees it and sends nothing, but a stop or the daily limit met first puts the row back on the
  schedule from memory, and it is sent later although it was declined.
- *Edited after approval.* `update_asset` makes a failed post a draft again while its item stays approved;
  no card asks for it any more.
- *Died after sending.* A request that dies after its send leaves the item pending; approving it again
  sends again.
- *Scheduled and by hand.* The scheduler never looks whether "Run now" is executing the agent, nor for
  a run that waits; both run, and each may queue a card for one target (`approvals.py:145`).
- *Midnight.* After midnight a run's allowance reads as untouched whatever it has used.
- *Held over a failed row.* `_hold_for_stop` and `_hold_for_cap` decide on the copy made at the claim. With
  two publishers and a slow one whose row was failed as interrupted, the row is put back on the
  schedule; if the post was scheduled again meanwhile, two active rows have one key. That is the exception
  in `OneActivePerKey`.
- *Two stops.* The check for an earlier stop reads the request's copy of the settings; of two stops
  at once the second stores an empty list and Resume restarts nothing (`ResumeRestarts` with two users).
- *A reset undone.* Resume during a run sets the failure count to 0; the run then fails, raises its
  old copy of the count and parks the agent after one failure.

Designs and quota:

- *Files under a card.* With threads nothing ends a slow run. The sweep fails its job and puts the
  previous version back, the run then saves its own card over it and, finding its job failed, discards
  the files that card shows; or it saves and finishes, and a failed job is finished after all.
- *Late text.* A design approved while its revision runs has its text overwritten by the revision.
- *Exported after all.* A download of an approved design that overlaps its rejection writes "exported"
  over "rejected", and the rejected design counts as released.
- *Counted per chain.* `creative_max_revisions` bounds a chain of cards; a design whose card was
  decided and proposed again starts at 0.
- *Input not reserved.* `quotas.py` says that settling "never raises usage above the reservation"; input tokens
  are not part of the reservation, hence the extra prompt in `UseBounded`.
- *Input dropped.* `quotas.py:209` says "so a NULL never hides usage". After a call that was not reported
  `tokens_in` stays NULL, and the input of every later call of the job is dropped although the server did
  report it; `NothingUncharged` allows a prompt for each.
- *Over the end of a month.* A job created before midnight that reserves after it is checked against the new
  month's use, which does not contain it, and charged to its own row, that is, to the old month, which
  nobody checks any more. It can spend without a limit of either month seeing it; `UseBounded` sets
  aside what was reserved so.

Connections:

- *A spent token put back.* `store_verified` writes the form's credentials as it read them before its
  own check renewed them. `BreaksOnlyByLoss` counts it (`putBack`) beside answers and saves that are lost.

Budget:

- *More than the cap.* `allocator.py:23` says "No channel moves more than this many points in one pass"
  of `MAX_SHIFT_POINTS`, the engine's docstring "no channel can move more than a few points per pass"
  (`agent.py:10`), and `agents/base/safety.py:70` sets its default by "at most 8 points per channel per pass". The
  cap is applied before the floor and the repair of the total. A surplus goes to the cheapest channel
  alone: with three channels or more it may gain more than 8. An excess comes from the dearest, down to
  its floor: from 0/0/0/100 with CACs 1/1/1/4 the cap makes 8/8/8/92, which is 116, and the last
  channel ends at 76, a loss of 24. `PlanSound` states both exceptions and how far they go.
- *No room for floors.* `_repair_total` says "Force the split to exactly 100". When the channels that
  take part have less between them than their floors, it cannot: with 96/2/2 and the first locked, both
  others are raised to 5, the dearest is then lowered to 0, and the plan is 96 + 5 + 0 = 101. `PlanSound`
  asks for floors and total only where there is room.
- *Refused in part, not charged.* An automatic plan one of whose pushes was refused moved money that
  the day's ledger does not show; so does a run that dies. `MovedWithinLimit` counts them (`unlogged`).
- *A total other than 100.* The next run's baseline rescales held and locked channels too.
- *Answer lost.* The applier takes every exception of a push as a refusal: "The platform still has the old
  budget, so the stored share stays what the platform is actually spending" (`agent.py:421`). After a
  timeout the platform may have the new one. Nor does it push to a platform whose connector is gone when
  the plan is applied, but it stores the share. In both cases row and platform part, until a later push
  goes well; `StoredIsSpent` keeps them apart (`apart`).
- *Locked too late.* A run that read the rows before a person locked one overwrites it.
- *Replaced under the reader.* `queue_action` replaces the payload of the card a reviewer has open.
- *Never proposed again.* A draft that was blocked, or only practised, counts as handled.

## 8. Not modelled

Sessions and codes (`services/auth.py`, `services/mfa.py`) are about who may act, not about what is
sent, spent or decided, and are left out deliberately; so are version numbers, retention, the free
website analysis (the quota's shape again) and approval chains, which `approve` never reads. Bodies of
agents, vendor clients, encryption, row-level security, reports, schemas and the web console keep no
state that several actors race for: they are most of the repository's lines, and the reason the
map covers a small share of it. See the components with status `not_modelled` or `partly` in
`PROJECT.json`; two of the hazards listed there have no property, and carry a note that says why.
