----------------------------- MODULE AgentFleet -----------------------------
(***************************************************************************)
(* The agents of one workspace: the scheduler that claims those that are   *)
(* due, the workers that run them (the scheduler's thread, Celery workers, *)
(* "Run now" background tasks), and the people who pause, resume and stop. *)
(*                                                                         *)
(* A run reads the agent's row when it begins, keeps that copy, and writes *)
(* the columns it changed when it ends: rows are not locked and carry no   *)
(* version.  A person's request does the same on a smaller scale.          *)
(* What an agent does inside a run is reduced to how it comes out and to   *)
(* the changes it wants to make one after the other.                       *)
(***************************************************************************)
EXTENDS Naturals, FiniteSets

CONSTANTS
    Agents,         \* configured agents that run on a schedule
    Workers,        \* what may execute a run
    Users,          \* requests of people that may be open at the same time
    Savers,         \* those of them that may also save the workspace's settings
    Outcomes,       \* how a run may come out, a subset of AllOutcomes
    StopKinds,      \* emergency stops in play: "platform", "workspace"
    ActionCap,      \* max_actions_per_day
    MaxFailures,    \* agent_max_consecutive_failures
    MaxActions,     \* bound: changes one run wants to make
    MaxTasks,       \* bound: runs of one agent waiting to begin
    MaxEscapes,     \* bound: runs that die or raise in one behaviour
    MaxDays,        \* bound: midnights in one behaviour
    NoAgent

AllOutcomes == {"no_model", "unready", "failed", "skipped", "actions"}

ASSUME FleetConstants ==
    /\ Outcomes \subseteq AllOutcomes
    /\ StopKinds \subseteq {"platform", "workspace"}
    /\ Savers \subseteq Users
    /\ NoAgent \notin Agents
    /\ {ActionCap, MaxFailures} \subseteq Nat \ {0}
    /\ {MaxActions, MaxTasks, MaxEscapes, MaxDays} \subseteq Nat

VARIABLES
    status,     \* agent |-> AgentStatus
    next,       \* agent |-> next_run_at: none, due, or ahead of now
    failures,   \* agent |-> consecutive_failures
    used,       \* agent |-> actions_today
    dated,      \* agent |-> actions_today_date is today
    stops,      \* emergency stops that are on
    remembered, \* settings["agent_safety"]["stopped"]["resume"]
    ticking,    \* the scheduler is past the emergency stop check of its tick
    waiting,    \* agent |-> runs claimed or asked for that have not begun
    pc,         \* worker |-> idle, working, acting or applying
    job,        \* worker |-> the agent it runs
    mem,        \* worker |-> its copy of that agent's row
    left,       \* worker |-> changes the run still has to deal with
    fresh,      \* worker |-> its RUNNING run row is younger than the lease
    orphan,     \* agent |-> a dead run's RUNNING row is younger than the lease
    req,        \* user |-> the request being served
    escapes, days,
    applied,    \* ghost: agent |-> changes made since midnight
    afterStop,  \* ghost: worker |-> changes it made since the stop came on
    pressed     \* ghost: agents that ran when the stop was pressed

rowVars   == <<status, next, failures, used, dated>>
stopVars  == <<stops, remembered, pressed>>
runVars   == <<pc, job, mem, left, fresh, orphan>>
boundVars == <<escapes, days>>
vars == <<rowVars, stopVars, ticking, waiting, runVars, req, boundVars,
          applied, afterStop>>

Kinds == {"schedule", "manual"}
NoRow == [status |-> "paused", failures |-> 0, used |-> 0, began |-> 0,
          dated |-> FALSE, forced |-> FALSE]
NoRequest == [kind |-> "none", agent |-> NoAgent, status |-> "paused",
              next |-> "none", failures |-> 0, stopped |-> FALSE, list |-> {}]

Init ==
    /\ status = [a \in Agents |-> "running"]
    /\ next = [a \in Agents |-> "due"]
    /\ failures = [a \in Agents |-> 0]
    /\ used = [a \in Agents |-> 0]
    /\ dated = [a \in Agents |-> FALSE]
    /\ stops = {} /\ remembered = {} /\ pressed = {}
    /\ ticking = FALSE
    /\ waiting = [a \in Agents |-> [k \in Kinds |-> 0]]
    /\ pc = [w \in Workers |-> "idle"]
    /\ job = [w \in Workers |-> NoAgent]
    /\ mem = [w \in Workers |-> NoRow]
    /\ left = [w \in Workers |-> 0]
    /\ fresh = [w \in Workers |-> FALSE]
    /\ orphan = [a \in Agents |-> FALSE]
    /\ req = [u \in Users |-> NoRequest]
    /\ escapes = 0 /\ days = 0
    /\ applied = [a \in Agents |-> 0]
    /\ afterStop = [w \in Workers |-> 0]

\* halt_reason, read fresh each time.
Halted == stops # {}

-----------------------------------------------------------------------------
(* The scheduler.                                                           *)

\* tick(): past this check, one tick claims even if the stop is pressed.
Tick ==
    /\ ~ticking /\ "platform" \notin stops
    /\ ticking' = TRUE
    /\ UNCHANGED <<rowVars, stopVars, waiting, runVars, req, boundVars, applied, afterStop>>

EndTick ==
    /\ ticking /\ ticking' = FALSE
    /\ UNCHANGED <<rowVars, stopVars, waiting, runVars, req, boundVars, applied, afterStop>>

Due(a) == status[a] = "running" /\ next[a] = "due"

\* _claim_due for one agent: next_run_at moves ahead by the lease, a run waits.
Claim(a) ==
    /\ ticking /\ "workspace" \notin stops
    /\ Due(a) /\ waiting[a]["schedule"] < MaxTasks
    /\ next' = [next EXCEPT ![a] = "ahead"]
    /\ waiting' = [waiting EXCEPT ![a]["schedule"] = @ + 1]
    /\ UNCHANGED <<status, failures, used, dated, stopVars, ticking, runVars, req, boundVars,
                   applied, afterStop>>

-----------------------------------------------------------------------------
(* One run: run_agent by worker w.                                          *)

\* _schedule_next.
ScheduleNext(a) == next' = [next EXCEPT ![a] = "ahead"]

\* A run that waits begins.  "Run now" (force) does not mind a paused agent.
Taken(w, a, k) ==
    /\ pc[w] = "idle" /\ waiting[a][k] > 0
    /\ waiting' = [waiting EXCEPT ![a][k] = @ - 1]

Runs(a, k) == (k = "manual" \/ status[a] = "running") /\ ~Halted

\* Paused or stopped: the run is recorded as skipped, the schedule left alone.
SkipRun(w, a, k) ==
    /\ Taken(w, a, k) /\ ~Runs(a, k)
    /\ UNCHANGED <<rowVars, stopVars, ticking, runVars, req, boundVars, applied, afterStop>>

\* _reset_daily_counter.
ResetCounter(a) ==
    /\ used' = [used EXCEPT ![a] = IF dated[a] THEN @ ELSE 0]
    /\ dated' = [dated EXCEPT ![a] = TRUE]

\* No AI model to write with: skipped until the next interval.
NoModel(w, a, k) ==
    /\ Taken(w, a, k) /\ Runs(a, k) /\ "no_model" \in Outcomes
    /\ ResetCounter(a) /\ ScheduleNext(a)
    /\ UNCHANGED <<status, failures, stopVars, ticking, runVars, req, boundVars,
                   applied, afterStop>>

\* The run row is committed as RUNNING; the agent's row stays in memory.
Begin(w, a, k) ==
    /\ Taken(w, a, k) /\ Runs(a, k)
    /\ ResetCounter(a)
    /\ pc' = [pc EXCEPT ![w] = "working"]
    /\ job' = [job EXCEPT ![w] = a]
    /\ mem' = [mem EXCEPT ![w] =
          [status |-> status[a], failures |-> failures[a],
           used |-> used'[a], began |-> used'[a], dated |-> TRUE, forced |-> k = "manual"]]
    /\ fresh' = [fresh EXCEPT ![w] = TRUE]
    /\ UNCHANGED <<status, next, failures, stopVars, ticking, left, orphan, req, boundVars,
                   applied, afterStop>>

\* The run is over: its row is no longer RUNNING, nothing stays in memory.
EndRun(w) ==
    /\ pc' = [pc EXCEPT ![w] = "idle"]
    /\ job' = [job EXCEPT ![w] = NoAgent]
    /\ mem' = [mem EXCEPT ![w] = NoRow]
    /\ left' = [left EXCEPT ![w] = 0]
    /\ fresh' = [fresh EXCEPT ![w] = FALSE]

Works(w, a, outcome) == pc[w] = "working" /\ job[w] = a /\ outcome \in Outcomes

\* preflight said no, or raised.
Unready(w, a) ==
    /\ Works(w, a, "unready")
    /\ ScheduleNext(a) /\ EndRun(w)
    /\ UNCHANGED <<status, failures, used, dated, stopVars, ticking, waiting, orphan, req,
                   boundVars, applied, afterStop>>

\* agent.run raised.  The count and the status come from the copy: "error" is
\* written only by a run that began with another status.  Counts beyond
\* MaxFailures are not told apart.
Fail(w, a) ==
    LET count == IF mem[w].failures < MaxFailures THEN mem[w].failures + 1 ELSE MaxFailures IN
    /\ Works(w, a, "failed")
    /\ failures' = [failures EXCEPT ![a] = count]
    /\ status' = [status EXCEPT ![a] =
          IF count >= MaxFailures /\ mem[w].status # "error" THEN "error" ELSE @]
    /\ ScheduleNext(a) /\ EndRun(w)
    /\ UNCHANGED <<used, dated, stopVars, ticking, waiting, orphan, req, boundVars,
                   applied, afterStop>>

\* What a run that did not raise writes: only columns its copy shows changed.
Succeed(w, a) ==
    /\ failures' = [failures EXCEPT ![a] = IF mem[w].failures # 0 THEN 0 ELSE @]
    /\ used' = [used EXCEPT ![a] = IF mem[w].used # mem[w].began THEN mem[w].used ELSE @]
    /\ ScheduleNext(a) /\ EndRun(w)
    /\ UNCHANGED <<status, dated, stopVars, ticking, waiting, orphan, req, boundVars,
                   applied, afterStop>>

Skipped(w, a) == Works(w, a, "skipped") /\ Succeed(w, a)

\* The run found n changes to make.
Found(w, a) ==
    /\ Works(w, a, "actions")
    /\ pc' = [pc EXCEPT ![w] = "acting"]
    /\ \E n \in 0..MaxActions : left' = [left EXCEPT ![w] = n]
    /\ UNCHANGED <<rowVars, stopVars, ticking, waiting, job, mem, fresh, orphan, req, boundVars,
                   applied, afterStop>>

\* Mutant: one change more than the cap.
AllowedOnceMore(w) == mem[w].dated => mem[w].used <= ActionCap

\* remaining_actions > 0: the whole allowance when the copy's date is not today.
Allowed(w) == mem[w].dated => mem[w].used < ActionCap

\* Mutant: the loop does not end with the last change.
PassOverPastEnd(w) ==
    /\ pc[w] = "acting"
    /\ left' = [left EXCEPT ![w] = @ - 1]
    /\ UNCHANGED <<rowVars, stopVars, ticking, waiting, pc, job, mem, fresh, orphan, req,
                   boundVars, applied, afterStop>>

\* The next change is not made: it is queued for a person (by policy, or
\* because a stop is on), or blocked by the daily cap.
PassOver(w) ==
    /\ pc[w] = "acting" /\ left[w] > 0
    /\ left' = [left EXCEPT ![w] = @ - 1]
    /\ UNCHANGED <<rowVars, stopVars, ticking, waiting, pc, job, mem, fresh, orphan, req,
                   boundVars, applied, afterStop>>

\* Mutant: the stop is not read again before each change.
DecideBlindly(w) ==
    /\ pc[w] = "acting" /\ left[w] > 0 /\ Allowed(w)
    /\ pc' = [pc EXCEPT ![w] = "applying"]
    /\ UNCHANGED <<rowVars, stopVars, ticking, waiting, job, mem, left, fresh, orphan, req,
                   boundVars, applied, afterStop>>

\* The policy says apply and, read again, no stop is on.
Decide(w) ==
    /\ pc[w] = "acting" /\ left[w] > 0
    /\ Allowed(w) /\ ~Halted
    /\ pc' = [pc EXCEPT ![w] = "applying"]
    /\ UNCHANGED <<rowVars, stopVars, ticking, waiting, job, mem, left, fresh, orphan, req,
                   boundVars, applied, afterStop>>

Applied(w) ==
    /\ left' = [left EXCEPT ![w] = @ - 1]
    /\ pc' = [pc EXCEPT ![w] = "acting"]
    /\ UNCHANGED <<rowVars, stopVars, ticking, waiting, job, fresh, orphan, req, boundVars>>

Apply(w, a) ==
    /\ pc[w] = "applying" /\ job[w] = a
    /\ mem' = [mem EXCEPT ![w].used = @ + 1]
    /\ applied' = [applied EXCEPT ![a] = @ + 1]
    /\ afterStop' = [afterStop EXCEPT ![w] = IF Halted THEN @ + 1 ELSE @]
    /\ Applied(w)

\* The change could not be made; the run goes on with the rest.
ApplyFails(w) ==
    /\ pc[w] = "applying"
    /\ Applied(w)
    /\ UNCHANGED <<mem, applied, afterStop>>

Finish(w, a) ==
    /\ pc[w] = "acting" /\ job[w] = a /\ left[w] = 0
    /\ Succeed(w, a)

\* The worker dies, or an exception leaves run_agent: what the run had not
\* committed is gone, its RUNNING row stays.  A scheduled run in Celery is
\* tried again, from the start.
Escape(w, a) ==
    /\ pc[w] # "idle" /\ job[w] = a /\ escapes < MaxEscapes
    /\ escapes' = escapes + 1
    /\ orphan' = [orphan EXCEPT ![a] = @ \/ fresh[w]]
    /\ EndRun(w)
    /\ \/ UNCHANGED waiting
       \/ /\ ~mem[w].forced /\ waiting[a]["schedule"] < MaxTasks
          /\ waiting' = [waiting EXCEPT ![a]["schedule"] = @ + 1]
    /\ UNCHANGED <<rowVars, stopVars, ticking, req, days, applied, afterStop>>

\* The process that was to run it dies first.
Drop(a, k) ==
    /\ waiting[a][k] > 0 /\ escapes < MaxEscapes
    /\ escapes' = escapes + 1
    /\ waiting' = [waiting EXCEPT ![a][k] = @ - 1]
    /\ UNCHANGED <<rowVars, stopVars, ticking, runVars, req, days, applied, afterStop>>

-----------------------------------------------------------------------------
(* Time.                                                                    *)

BecomeDue(a) ==
    /\ next[a] = "ahead"
    /\ next' = [next EXCEPT ![a] = "due"]
    /\ UNCHANGED <<status, failures, used, dated, stopVars, ticking, waiting, runVars, req,
                   boundVars, applied, afterStop>>

\* A RUNNING row gets older than the lease.
AgeRun(w) ==
    /\ fresh[w] /\ fresh' = [fresh EXCEPT ![w] = FALSE]
    /\ UNCHANGED <<rowVars, stopVars, ticking, waiting, pc, job, mem, left, orphan, req,
                   boundVars, applied, afterStop>>

AgeOrphan(a) ==
    /\ orphan[a] /\ orphan' = [orphan EXCEPT ![a] = FALSE]
    /\ UNCHANGED <<rowVars, stopVars, ticking, waiting, pc, job, mem, left, fresh, req,
                   boundVars, applied, afterStop>>

\* Midnight: "today" changes for every row and every copy of one.
Midnight ==
    /\ days < MaxDays /\ days' = days + 1
    /\ dated' = [a \in Agents |-> FALSE]
    /\ mem' = [w \in Workers |-> [mem[w] EXCEPT !.dated = FALSE]]
    /\ applied' = [a \in Agents |-> 0]
    /\ UNCHANGED <<status, next, failures, used, stopVars, ticking, waiting, pc, job, left,
                   fresh, orphan, req, escapes, afterStop>>

-----------------------------------------------------------------------------
(* People.  A request reads and checks when it opens, writes when it closes. *)

Open(u, request) ==
    /\ req[u].kind = "none"
    /\ req' = [req EXCEPT ![u] = request]
    /\ UNCHANGED <<rowVars, stopVars, ticking, waiting, runVars, boundVars,
                   applied, afterStop>>

AboutAgent(a, kind) ==
    [NoRequest EXCEPT !.kind = kind, !.agent = a, !.status = status[a],
                      !.next = next[a], !.failures = failures[a]]

AboutStop(kind) ==
    [NoRequest EXCEPT !.kind = kind, !.stopped = "workspace" \in stops, !.list = remembered]

OpenPause(u, a)  == Open(u, AboutAgent(a, "pause"))
OpenResume(u, a) == ~Halted /\ Open(u, AboutAgent(a, "resume"))
OpenStop(u) == "workspace" \in StopKinds \ stops /\ Open(u, AboutStop("stop"))
OpenLift(u) == "workspace" \in stops /\ Open(u, AboutStop("lift"))
OpenSave(u) == u \in Savers /\ Open(u, AboutStop("save"))

Close(u, kind) == req[u].kind = kind /\ req' = [req EXCEPT ![u] = NoRequest]

\* The row gets value only in columns where the request saw another one.
Written(column, a, saw, value) ==
    [column EXCEPT ![a] = IF saw # value THEN value ELSE @]

ClosePause(u, a) ==
    /\ Close(u, "pause") /\ req[u].agent = a
    /\ status' = Written(status, a, req[u].status, "paused")
    /\ next' = Written(next, a, req[u].next, "none")
    /\ pressed' = pressed \ {a}
    /\ UNCHANGED <<failures, used, dated, stops, remembered, ticking, waiting, runVars,
                   boundVars, applied, afterStop>>

\* Mutant: a resumed agent keeps the next_run_at it had.
CloseResumeUnscheduled(u, a) ==
    /\ Close(u, "resume") /\ req[u].agent = a
    /\ status' = Written(status, a, req[u].status, "running")
    /\ failures' = Written(failures, a, req[u].failures, 0)
    /\ UNCHANGED <<next, used, dated, stopVars, ticking, waiting, runVars, boundVars,
                   applied, afterStop>>

CloseResume(u, a) ==
    /\ Close(u, "resume") /\ req[u].agent = a
    /\ status' = Written(status, a, req[u].status, "running")
    /\ failures' = Written(failures, a, req[u].failures, 0)
    /\ next' = [next EXCEPT ![a] = "due"]
    /\ UNCHANGED <<used, dated, stopVars, ticking, waiting, runVars, boundVars,
                   applied, afterStop>>

\* Changes made under a stop are counted from when it comes on.
CountFromHere == afterStop' = IF Halted THEN afterStop ELSE [w \in Workers |-> 0]

\* Mutant: the agents to restart are listed after they were paused.
CloseStopForgetful(u) ==
    LET running == {a \in Agents : status[a] = "running"} IN
    /\ Close(u, "stop")
    /\ status' = [a \in Agents |-> IF a \in running THEN "paused" ELSE status[a]]
    /\ next' = [a \in Agents |-> "none"]
    /\ stops' = stops \cup {"workspace"}
    /\ remembered' = {}
    /\ pressed' = IF "workspace" \in stops THEN pressed ELSE running
    /\ CountFromHere
    /\ UNCHANGED <<failures, used, dated, ticking, waiting, runVars, boundVars, applied>>

\* stop_workspace.
CloseStop(u) ==
    LET running == {a \in Agents : status[a] = "running"} IN
    /\ Close(u, "stop")
    /\ status' = [a \in Agents |-> IF a \in running THEN "paused" ELSE status[a]]
    /\ next' = [a \in Agents |-> "none"]
    /\ stops' = stops \cup {"workspace"}
    /\ remembered' = running
    /\ pressed' = IF "workspace" \in stops THEN pressed ELSE running
    /\ CountFromHere
    /\ UNCHANGED <<failures, used, dated, ticking, waiting, runVars, boundVars, applied>>

\* resume_workspace restarts the agents in the list it read.
CloseLift(u) ==
    LET again == {a \in req[u].list : status[a] = "paused"} IN
    /\ Close(u, "lift")
    /\ status' = [a \in Agents |-> IF a \in again THEN "running" ELSE status[a]]
    /\ next' = [a \in Agents |-> IF a \in again THEN "due" ELSE next[a]]
    /\ stops' = stops \ {"workspace"}
    /\ remembered' = {} /\ pressed' = {}
    /\ UNCHANGED <<failures, used, dated, ticking, waiting, runVars, boundVars,
                   applied, afterStop>>

\* save_caps and set_workspace_practice write the whole settings back, with
\* the stop as the request read it.
CloseSave(u) ==
    /\ Close(u, "save")
    /\ stops' = (stops \ {"workspace"}) \cup (IF req[u].stopped THEN {"workspace"} ELSE {})
    /\ remembered' = req[u].list
    /\ CountFromHere
    /\ UNCHANGED <<rowVars, pressed, ticking, waiting, runVars, boundVars, applied>>

\* set_platform_switch.
PlatformSwitch ==
    /\ "platform" \in StopKinds
    /\ \/ "platform" \in stops /\ stops' = stops \ {"platform"} /\ UNCHANGED afterStop
       \/ "platform" \notin stops /\ stops' = stops \cup {"platform"} /\ CountFromHere
    /\ UNCHANGED <<rowVars, remembered, pressed, ticking, waiting, runVars, req, boundVars,
                   applied>>

\* _already_running.
AlreadyRunning(a) == orphan[a] \/ \E w \in Workers : job[w] = a /\ fresh[w]

\* run_now: the run is started in the background.
RunNow(a) ==
    /\ ~Halted /\ ~AlreadyRunning(a) /\ waiting[a]["manual"] < MaxTasks
    /\ waiting' = [waiting EXCEPT ![a]["manual"] = @ + 1]
    /\ UNCHANGED <<rowVars, stopVars, ticking, runVars, req, boundVars,
                   applied, afterStop>>

-----------------------------------------------------------------------------
Start(w, a, k) == SkipRun(w, a, k) \/ NoModel(w, a, k) \/ Begin(w, a, k)

Step(w) ==
    \/ \E a \in Agents : \/ Unready(w, a) \/ Fail(w, a) \/ Skipped(w, a) \/ Found(w, a)
                         \/ Apply(w, a) \/ Finish(w, a)
    \/ PassOver(w) \/ Decide(w) \/ ApplyFails(w)

Request(u) ==
    \/ \E a \in Agents : \/ OpenPause(u, a) \/ OpenResume(u, a)
                         \/ ClosePause(u, a) \/ CloseResume(u, a)
    \/ OpenStop(u) \/ OpenLift(u) \/ OpenSave(u)
    \/ CloseStop(u) \/ CloseLift(u) \/ CloseSave(u)

Time ==
    \/ Midnight
    \/ \E a \in Agents : BecomeDue(a) \/ AgeOrphan(a)
    \/ \E w \in Workers : AgeRun(w)

Next ==
    \/ Tick \/ EndTick \/ Time \/ PlatformSwitch
    \/ \E a \in Agents : Claim(a) \/ RunNow(a)
    \/ \E a \in Agents, k \in Kinds : Drop(a, k) \/ \E w \in Workers : Start(w, a, k)
    \/ \E w \in Workers : Step(w) \/ \E a \in Agents : Escape(w, a)
    \/ \E u \in Users : Request(u)

Spec == Init /\ [][Next]_vars

\* The scheduler's loop never ends and every tick claims the oldest due agents;
\* waiting runs are begun first come, first served; a run that has begun goes on.
Fairness ==
    /\ WF_vars(Tick) /\ WF_vars(EndTick)
    /\ \A a \in Agents : WF_vars(BecomeDue(a)) /\ SF_vars(Claim(a))
    /\ \A a \in Agents, k \in Kinds : SF_vars(\E w \in Workers : Start(w, a, k))
    /\ \A w \in Workers : WF_vars(Step(w))

FairSpec == Spec /\ Fairness

-----------------------------------------------------------------------------
(* Properties.                                                              *)

TypeOK ==
    /\ status \in [Agents -> {"running", "paused", "error"}]
    /\ next \in [Agents -> {"none", "due", "ahead"}]
    /\ failures \in [Agents -> Nat]
    /\ used \in [Agents -> Nat]
    /\ dated \in [Agents -> BOOLEAN]
    /\ stops \subseteq StopKinds
    /\ remembered \subseteq Agents /\ pressed \subseteq Agents
    /\ ticking \in BOOLEAN
    /\ waiting \in [Agents -> [Kinds -> 0..MaxTasks]]
    /\ pc \in [Workers -> {"idle", "working", "acting", "applying"}]
    /\ job \in [Workers -> Agents \cup {NoAgent}]
    /\ left \in [Workers -> 0..MaxActions]
    /\ fresh \in [Workers -> BOOLEAN]
    /\ orphan \in [Agents -> BOOLEAN]
    /\ applied \in [Agents -> Nat]
    /\ afterStop \in [Workers -> Nat]

\* A stop pressed during a run lets at most the one change already being made
\* go through; the rest of that run's changes, and later runs, send nothing.
StopHoldsTheRest == \A w \in Workers : afterStop[w] <= 1

\* Nobody's agent makes more changes in a day than its daily cap, however many
\* runs it takes, as long as no run died with its count.
DailyCapHolds == escapes = 0 => \A a \in Agents : applied[a] <= ActionCap

\* Resume after a workspace stop restarts exactly the agents that were running:
\* none of them stays paused unless somebody paused it.
ResumeRestarts ==
    [][ "workspace" \in stops /\ "workspace" \notin stops'
            => \A a \in pressed : status'[a] # "paused" ]_vars

\* A workspace stop stays on until somebody lifts it.
StopStaysOn ==
    [][ "workspace" \in stops /\ "workspace" \notin stops'
            => \E u \in Users : req[u].kind = "lift" /\ req'[u].kind = "none" ]_vars

\* Once stops are over, a running agent is run again and again: a crash, a lost
\* task, a pause and a resume never leave it unscheduled.
EveryAgentRuns ==
    <>[]~Halted =>
        \A a \in Agents :
            []<>(status[a] # "running" \/ \E w \in Workers : job[w] = a)

-----------------------------------------------------------------------------
(* What makes the safety properties inductive.                              *)

RunStatuses == {"running", "paused", "error"}
NextRuns    == {"none", "due", "ahead"}
Copies == [status : RunStatuses, failures : Nat, used : Nat, began : Nat,
           dated : BOOLEAN, forced : BOOLEAN]
OpenRequests == [kind : {"none", "pause", "resume", "stop", "lift", "save"},
                 agent : Agents \cup {NoAgent}, status : RunStatuses, next : NextRuns,
                 failures : Nat, stopped : BOOLEAN, list : SUBSET Agents]

\* A worker with something to do has an agent, one that makes a change has one left.
RunShape ==
    /\ mem \in [Workers -> Copies]
    /\ \A w \in Workers : /\ pc[w] = "idle" <=> job[w] = NoAgent
                          /\ pc[w] = "applying" => left[w] > 0

\* Only a workspace stop that may be pressed is asked for, or seen on.
RequestShape ==
    /\ req \in [Users -> OpenRequests]
    /\ \A u \in Users : req[u].kind = "stop" \/ req[u].stopped => "workspace" \in StopKinds

\* A change under way while a stop is on was begun before it came on.
BegunBefore == Halted => \A w \in Workers : pc[w] = "applying" => afterStop[w] = 0

IInv == TypeOK /\ RunShape /\ RequestShape /\ StopHoldsTheRest /\ BegunBefore

\* With one worker, no midnight and no run that died, the row or the copy of the
\* run under way counts what was done.
CountIsTrue ==
    /\ escapes \in Nat /\ days \in Nat
    /\ escapes = 0 /\ days = 0 =>
        /\ \A a \in Agents :
              /\ ~dated[a] => applied[a] = 0
              /\ (\A w \in Workers : job[w] # a) => used[a] = applied[a]
              /\ applied[a] <= ActionCap
        /\ \A w \in Workers : \A a \in Agents :
              job[w] = a => /\ mem[w].used = applied[a] /\ mem[w].began = used[a]
                            /\ mem[w].dated /\ dated[a]
                            /\ pc[w] = "working" => applied[a] = used[a]
                            /\ pc[w] = "applying" => applied[a] < ActionCap

\* With one person, what an open request has read of the stop is still so, and
\* a stop remembers everybody it paused.
StopRemembered ==
    /\ "workspace" \in stops => pressed \subseteq remembered
    /\ \A u \in Users :
          /\ req[u].kind = "stop" => "workspace" \notin stops
          /\ req[u].kind \in {"lift", "save"} => req[u].list = remembered
          /\ req[u].kind = "save" => (req[u].stopped <=> "workspace" \in stops)

=============================================================================
