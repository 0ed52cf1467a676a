---------------------------- MODULE BudgetSplit ----------------------------
(***************************************************************************)
(* The split of a workspace's ad budget over its channels and everybody    *)
(* who writes it: the Predictive Budget Engine's hourly runs               *)
(* (agents/predictive_budget_engine), a reviewer who approves a plan it    *)
(* left on a card, and a person who sets a share by hand                   *)
(* (services/budgets.py).  The engine and the reviewer push shares to the  *)
(* ad platforms before their transaction commits; pushes are refused, or   *)
(* their answers lost, one by one, and either of them may die in between.  *)
(*                                                                         *)
(* Money is counted in points of the budget: the spend the engine prices   *)
(* a move with is constant here.                                           *)
(***************************************************************************)
EXTENDS Integers, FiniteSets, Sums

CONSTANTS
    N,            \* number of channels, in the order of their names
    Connected,    \* channels whose ad platform is connected
    Splits,       \* bound: splits the model begins with
    HandShares,   \* bound: shares a person sets
    Readings,     \* bound: what one pass reads, channel |-> CAC of those that answer
    DayLimit,     \* max_budget_moved_per_day
    MaxRuns,      \* bound: runs of the engine
    MaxReviews,   \* bound: decisions on cards
    MaxEdits,     \* bound: shares set by hand
    MaxFaults,    \* bound: pushes that go wrong, and processes that die
    MaxDays       \* bound: midnights

Channels == 1..N
Total    == 100
MaxShift == 8     \* MAX_SHIFT_POINTS
Floor    == 5     \* MIN_ACTIVE_SHARE
ChangeLimit == 20 \* max_budget_change_pct
Shares   == 0..Total

\* A CAC of 0 stands for one with too few conversions to be believed.
CACs == Nat

ASSUME BudgetAssumption ==
    /\ N \in Nat \ {0}
    /\ Connected \subseteq Channels
    /\ Splits \subseteq [Channels -> Shares]
    /\ HandShares \subseteq Shares
    /\ \A r \in Readings : DOMAIN r \subseteq Connected /\ \A c \in DOMAIN r : r[c] \in CACs
    /\ {DayLimit, MaxRuns, MaxReviews, MaxEdits, MaxFaults, MaxDays} \subseteq Nat

VARIABLES
    share,     \* channel |-> percent, as committed
    locked,    \* channel |-> set by hand
    cac,       \* channel |-> the CAC last read
    history,   \* channel |-> the CAC and the day of its last move, or None
    platform,  \* connected channel |-> the share its platform spends
    card,      \* the pending plan, or None
    stopped,   \* agents are stopped
    day,
    charged,   \* points today's ledger shows
    run,       \* the engine's transaction, or None
    review,    \* the reviewer's, or None
    edit,      \* the person's, or None
    bounds,    \* runs, reviews, edits and faults so far
    sent,      \* ghost: points the engine sent today without a person
    unlogged,  \* ghost: sends of today the ledger does not show
    apart      \* ghost: channels that may differ from what the platform spends

rows     == <<share, locked, cac>>
time     == <<day, charged, sent, unlogged>>
vars     == <<rows, history, platform, card, stopped, time, run, review, edit, bounds, apart>>

None  == [none |-> TRUE]

\* Who applies a plan: a reviewer, the engine itself, nobody (practice mode).
Modes == {"review", "auto", "practice"}

Larger(m, n)  == IF m > n THEN m ELSE n
Smaller(m, n) == IF m < n THEN m ELSE n
Size(n) == IF n < 0 THEN -n ELSE n
Write(f, g) == [c \in DOMAIN f |-> IF c \in DOMAIN g THEN g[c] ELSE f[c]]

\* round(m / n) of Python: a half goes to the even side.
Rounded(m, n) ==
    LET q == m \div n
        r == 2 * (m % n)
    IN  IF r < n \/ (r = n /\ q % 2 = 0) THEN q ELSE q + 1

-----------------------------------------------------------------------------
(* The allocator.  Ties that floating point may round either way are exact. *)

\* _baseline: the split brought to 100, the rest going to its largest share.
Baseline(s) ==
    LET sum   == Sum(s, Channels)
        even  == [c \in Channels |-> IF sum = 0 THEN Total \div N ELSE Rounded(s[c] * Total, sum)]
        first == CHOOSE c \in Channels :
                    \A d \in Channels : even[c] > even[d] \/ (even[c] = even[d] /\ c <= d)
    IN  IF sum = Total THEN s
        ELSE [even EXCEPT ![first] = Larger(0, @ + Total - Sum(even, Channels))]

\* 1 / a[c] over the common denominator of S.
Weights(a, S) == [c \in S |-> Product(a, S \ {c})]

\* d comes after c in the order of CACs, which is that of the names where they
\* are equal.
Dearer(a, d, c) == a[d] > a[c] \/ (a[d] = a[c] /\ d > c)

\* _repair_total: a surplus goes to the cheapest channel, an excess comes from
\* the dearest ones above the floor, and from the dearest of all after that.
Repaired(p, a, W) ==
    LET drift    == Total - Sum(p, Channels)
        spare    == [c \in W |-> Larger(0, p[c] - Floor)]
        before   == [c \in W |-> {d \in W : Dearer(a, d, c)}]
        taken    == [c \in W |-> Smaller(spare[c], Larger(0, -drift - Sum(spare, before[c])))]
        still    == Larger(0, -drift - Sum(spare, W))
        cheapest == CHOOSE c \in W : \A d \in W : d = c \/ Dearer(a, d, c)
        dearest  == CHOOSE c \in W : \A d \in W : d = c \/ Dearer(a, c, d)
        lowered  == [c \in Channels |-> IF c \in W THEN p[c] - taken[c] ELSE p[c]]
    IN  IF drift >= 0 THEN [p EXCEPT ![cheapest] = @ + drift]
        ELSE [lowered EXCEPT ![dearest] = Larger(0, @ - still)]

\* Mutant: a channel that is locked or cooling down takes part.
WeightedHeld(a, held) == {c \in Channels : a[c] > 0}

\* The channels that take part: not held, and with a CAC to believe.
Weighted(a, held) == {c \in Channels : ~held[c] /\ a[c] > 0}

\* A target of target / all points, no more than MaxShift from share.
Capped(now, target, all) ==
    IF target >= (now + MaxShift) * all THEN now + MaxShift
    ELSE IF target <= (now - MaxShift) * all THEN now - MaxShift
    ELSE Rounded(target, all)

\* What is left of the total beside the baseline shares of S.
LeftBeside(base, S) == Larger(0, Total - Sum(base, S))

\* allocate: the weighted channels' share of the baseline by inverse CAC, capped,
\* floored and repaired.
Allocation(s, a, held) ==
    LET base   == Baseline(s)
        W      == Weighted(a, held)
        pool   == LeftBeside(base, Channels \ W)
        weight == Weights(a, W)
        all    == Sum(weight, W)
        capped == [c \in Channels |->
                      IF c \in W THEN Larger(Floor, Capped(base[c], pool * weight[c], all)) ELSE base[c]]
    IN  IF W = {} \/ LeftBeside(base, {c \in Channels : held[c]}) = 0 THEN base
        ELSE Repaired(capped, a, W)

\* moved_points of a plan with these shifts.
Points(shifts) == Sum([c \in Channels |-> Size(shifts[c])], Channels) \div 2

\* The modelled blended CAC of q is at least 2% below that of p, or one of the
\* two cannot be told.
Improves(p, q, a) ==
    LET K     == {c \in Channels : a[c] > 0}
        weight == Weights(a, K)
        Buys(s) == Sum([c \in K |-> s[c] * weight[c]], K)
    IN  \/ Sum(p, K) = 0 \/ Sum(q, K) = 0
        \/ 100 * Sum(q, K) * Buys(p) <= 98 * Sum(p, K) * Buys(q)

-----------------------------------------------------------------------------
(* Setting a share by hand.                                                 *)

\* _distribute: target in proportion to the shares of S, the remainder by
\* largest fraction; evenly when they are all 0.
Distributed(s, S, target) ==
    LET pool == Sum(s, S)
        whole == [c \in S |-> IF pool = 0 THEN target \div Cardinality(S) ELSE (s[c] * target) \div pool]
        part  == [c \in S |-> IF pool = 0 THEN 0 ELSE (s[c] * target) % pool]
        left  == target - Sum(whole, S)
        ahead == [c \in S |-> {d \in S : part[d] > part[c] \/ (part[d] = part[c] /\ d < c)}]
    IN  [c \in S |-> whole[c] + (IF Cardinality(ahead[c]) < left THEN 1 ELSE 0)]

\* Channels other than c that are (not) locked.
Fixed(c)   == {d \in Channels \ {c} : locked[d]}
Movable(c) == {d \in Channels \ {c} : ~locked[d]}

\* set_share's refusals.
Settable(c, p) ==
    LET rest == Total - p - Sum(share, Fixed(c))
    IN  rest >= 0 /\ (Movable(c) = {} => rest = 0)

-----------------------------------------------------------------------------
Init ==
    /\ share \in Splits
    /\ locked = [c \in Channels |-> FALSE]
    /\ cac = [c \in Channels |-> 0]
    /\ history = [c \in Channels |-> None]
    /\ platform = [c \in Connected |-> share[c]]
    /\ card = None
    /\ stopped = FALSE
    /\ day = 0
    /\ charged = 0
    /\ run = None
    /\ review = None
    /\ edit = None
    /\ bounds = [runs |-> 0, reviews |-> 0, edits |-> 0, faults |-> 0]
    /\ sent = 0
    /\ unlogged = 0
    /\ apart = {}

Counted(what, n) == bounds' = [bounds EXCEPT ![what] = @ + n]

-----------------------------------------------------------------------------
(* Writing rows.  SQLAlchemy sends only what differs from what was loaded.  *)

Changed(before, after) ==
    [c \in {d \in DOMAIN after : after[d] # before[d]} |-> after[c]]

\* Mutant: the lock is not looked at again when a plan is applied.
AttemptedAll(lockedThen) == Channels

\* The applier's loop over the plan passes over rows it reads as locked; a
\* channel without a platform is only recorded.
Attempted(lockedThen) == {c \in Channels : ~lockedThen[c]}

\* What becomes of a push: taken, refused, taken with the answer lost, or not
\* made because the platform's connector is not there any more.
Outcomes == {"taken", "refused", "lost", "absent"}
Met(answer, S) == {c \in Connected : answer[c] \in S}
Troubled(answer) == Met(answer, Outcomes \ {"taken"})

\* The platforms' answers, only to what is attempted.
Answers(lockedThen) ==
    {f \in [Connected -> Outcomes] :
        /\ Troubled(f) \subseteq Attempted(lockedThen)
        /\ bounds.faults + Cardinality(Troubled(f)) <= MaxFaults}

\* Every exception of a push counts as "not changed": the row is not written.
Failures(answer) == Met(answer, {"refused", "lost"})
Landed(lockedThen, answer) == Attempted(lockedThen) \ Failures(answer)

\* Channels whose platform has the share and whose row gets it.
InStep(lockedThen, answer) == Attempted(lockedThen) \cap Met(answer, {"taken"})

\* Its shift history: every channel that landed and moved.
Logged(h, plan, landed, a) ==
    [c \in Channels |->
        IF c \in landed /\ plan.shifts[c] # 0 THEN [cac |-> a[c], day |-> day] ELSE h[c]]

\* Mutant: the platform is sent the movement instead of the share.
PushedShift(plan, lockedThen, answer) ==
    platform' = [c \in Connected |->
        IF c \in Attempted(lockedThen) \cap Met(answer, {"taken", "lost"})
        THEN plan.shifts[c] ELSE platform[c]]

\* The platforms that took their share, whether they could say so or not.
Pushed(plan, lockedThen, answer) ==
    platform' = [c \in Connected |->
        IF c \in Attempted(lockedThen) \cap Met(answer, {"taken", "lost"})
        THEN plan.percents[c] ELSE platform[c]]

\* Others wait to write the rows, the card or the agent's settings that the
\* engine's transaction has written and not committed.
Free(channels) == IF run = None THEN TRUE ELSE channels \cap run.holds = {}

\* Another transaction pushed, or wrote, after t pushed.
Disturbed(t) == IF t = None THEN t ELSE [t EXCEPT !.alone = FALSE]

\* A row and its platform part where the answer was lost or the platform not asked.
Parts(answer) == apart' = apart \cup Met(answer, {"lost", "absent"})

\* The transaction t, which pushed, commits.
Saved(t) == apart' = IF t.alone THEN apart \ t.inStep ELSE apart \cup (t.landed \cap Connected)

-----------------------------------------------------------------------------
(* A run of the engine.                                                     *)

\* _cooling_down: moved within the day, and the CAC has not changed by 10%.
Cooling(move, reading) ==
    /\ move # None
    /\ ~(move.cac > 0 /\ 10 * Size(reading - move.cac) >= move.cac)

\* Channels held back: set by hand, or cooling down.
HeldBack(byHand, moves, a) == [c \in Channels |-> byHand[c] \/ Cooling(moves[c], a[c])]

\* The plan of a run that reads a.
PlanFor(a) ==
    LET p == Allocation(share, a, HeldBack(locked, history, a))
        b == Baseline(share)
    IN  [percents |-> p, shifts |-> [c \in Channels |-> p[c] - b[c]]]

\* is_meaningful, and the gain is worth the churn.
Worthwhile(plan, a) ==
    /\ Points(plan.shifts) >= 2
    /\ Improves(Baseline(share), plan.percents, a)

\* The run reads its channels' results, its rows and who applies its plan: practice
\* mode, the agent's autonomy and its guardrail decide that.  With nothing worth
\* doing only the readings are kept.
BeginRun(r, gate) ==
    LET a    == Write(cac, r)
        plan == PlanFor(a)
    IN  /\ run = None /\ ~stopped /\ bounds.runs < MaxRuns
        /\ Counted("runs", 1)
        /\ IF Worthwhile(plan, a)
           THEN /\ run' = [at |-> "planned", plan |-> plan, read |-> r, base |-> share,
                           lockedThen |-> locked, log |-> history, gate |-> gate, ledger |-> charged,
                           holds |-> DOMAIN r, landed |-> {}, inStep |-> {}, writes |-> << >>,
                           charge |-> [day |-> day, points |-> 0], alone |-> TRUE]
                /\ UNCHANGED cac
           ELSE cac' = a /\ UNCHANGED run
        /\ UNCHANGED <<share, locked, history, platform, card, stopped, time, review, edit, apart>>

\* Mutant: each change is held against the day's limit by itself.
OverEachLimit(points, ledger) == points > ChangeLimit \/ points > DayLimit

\* cap_reason.
OverLimit(points, ledger) == points > ChangeLimit \/ ledger + points > DayLimit

Planned(gate) == run # None /\ run.at = "planned" /\ run.gate = gate

\* record_practice keeps the plan where nothing can approve it.
Practise ==
    /\ Planned("practice")
    /\ run' = [run EXCEPT !.at = "done"]
    /\ UNCHANGED <<rows, history, platform, card, stopped, time, review, edit, bounds, apart>>

\* The plan goes on the agent's one card; the same plan leaves it alone.
Queue ==
    /\ \/ Planned("review")
       \/ Planned("auto") /\ (stopped \/ OverLimit(Points(run.plan.shifts), run.ledger))
    /\ run' = [run EXCEPT !.at = IF card = run.plan THEN "done" ELSE "queued"]
    /\ UNCHANGED <<rows, history, platform, card, stopped, time, review, edit, bounds, apart>>

\* The plan is sent, to the rows as they are now; with a failure it is an error,
\* and nothing is charged.
Send(answer) ==
    LET landed == Landed(locked, answer)
        points == Points(run.plan.shifts)
        failed == Failures(answer) # {}
    IN  /\ Planned("auto") /\ ~stopped /\ ~OverLimit(points, run.ledger)
        /\ answer \in Answers(locked)
        /\ Pushed(run.plan, locked, answer)
        /\ run' = [run EXCEPT !.at = "sent", !.lockedThen = locked,
                              !.log = Logged(run.log, run.plan, landed, Write(cac, run.read)),
                              !.writes = Changed(share, [c \in landed |-> run.plan.percents[c]]),
                              !.landed = landed, !.inStep = InStep(locked, answer),
                              !.charge = [day |-> day, points |-> IF failed THEN 0 ELSE points],
                              !.alone = TRUE]
        /\ Parts(answer)
        /\ sent' = sent + points
        /\ unlogged' = IF failed THEN unlogged + 1 ELSE unlogged
        /\ Counted("faults", Cardinality(Troubled(answer)))
        /\ review' = Disturbed(review)
        /\ UNCHANGED <<rows, history, card, stopped, day, charged, edit>>

\* The run's transaction writes what it sent, and commits.
CommitRun ==
    /\ run # None /\ run.at # "planned"
    /\ run' = None
    /\ cac' = Write(cac, run.read)
    /\ share' = Write(share, run.writes)
    /\ history' = IF run.at = "sent" THEN run.log ELSE history
    /\ card' = IF run.at = "queued" THEN run.plan ELSE card
    /\ charged' = IF run.charge.day = day THEN charged + run.charge.points ELSE charged
    /\ IF run.at = "sent" THEN Saved(run) /\ review' = Disturbed(review) ELSE UNCHANGED <<apart, review>>
    /\ UNCHANGED <<locked, platform, stopped, day, sent, unlogged, edit, bounds>>

\* The worker dies; what it wrote is rolled back, what it pushed is not.
RunDies ==
    /\ run # None /\ bounds.faults < MaxFaults
    /\ Counted("faults", 1)
    /\ run' = None
    /\ IF run.at = "sent"
       THEN /\ apart' = apart \cup run.inStep
            /\ unlogged' = IF run.charge.day = day /\ run.charge.points > 0 THEN unlogged + 1 ELSE unlogged
       ELSE UNCHANGED <<apart, unlogged>>
    /\ UNCHANGED <<rows, history, platform, card, stopped, day, charged, sent, review, edit>>

-----------------------------------------------------------------------------
(* The reviewer.                                                            *)

\* approve up to the applier's flush: the card's plan is pushed to channels that
\* are not locked now.
Approve(answer) ==
    LET landed == Landed(locked, answer)
    IN  /\ review = None /\ card # None /\ ~stopped /\ bounds.reviews < MaxReviews
        /\ answer \in Answers(locked)
        /\ Pushed(card, locked, answer)
        /\ review' = [log |-> Logged(history, card, landed, cac), landed |-> landed,
                      inStep |-> InStep(locked, answer),
                      writes |-> Changed(share, [c \in landed |-> card.percents[c]]),
                      done |-> Failures(answer) = {}, lockedThen |-> locked, alone |-> TRUE]
        /\ Parts(answer)
        /\ bounds' = [bounds EXCEPT !.reviews = @ + 1, !.faults = @ + Cardinality(Troubled(answer))]
        /\ run' = Disturbed(run)
        /\ UNCHANGED <<rows, history, card, stopped, time, edit>>

\* Mutant: a refusal undoes the whole approval.
SaveApprovalOrNothing ==
    /\ review # None
    /\ Free(DOMAIN review.writes)
    /\ run # None => run.at # "queued"
    /\ share' = IF review.done THEN Write(share, review.writes) ELSE share
    /\ history' = IF review.done THEN review.log ELSE history
    /\ card' = IF review.done THEN None ELSE card
    /\ Saved(review)
    /\ review' = None
    /\ run' = Disturbed(run)
    /\ UNCHANGED <<locked, cac, platform, stopped, time, edit, bounds>>

\* It waits for rows the engine holds, then writes what it computed.  A failure
\* keeps the item pending and what did land.
SaveApproval ==
    /\ review # None
    /\ Free(DOMAIN review.writes)
    /\ run # None => run.at # "queued"
    /\ share' = Write(share, review.writes)
    /\ history' = review.log
    /\ card' = IF review.done THEN None ELSE card
    /\ Saved(review)
    /\ review' = None
    /\ run' = Disturbed(run)
    /\ UNCHANGED <<locked, cac, platform, stopped, time, edit, bounds>>

RequestDies ==
    /\ review # None /\ bounds.faults < MaxFaults
    /\ Counted("faults", 1)
    /\ review' = None
    /\ apart' = apart \cup review.inStep
    /\ UNCHANGED <<rows, history, platform, card, stopped, time, run, edit>>

\* reject; nothing is registered for budget plans.
Reject ==
    /\ card # None /\ review = None /\ bounds.reviews < MaxReviews
    /\ run # None => run.at # "queued"
    /\ Counted("reviews", 1)
    /\ card' = None
    /\ UNCHANGED <<rows, history, platform, stopped, time, run, review, edit, apart>>

-----------------------------------------------------------------------------
(* A person sets shares.                                                    *)

\* set_share computes from the rows as it reads them.
OpenEdit(c, p) ==
    /\ edit = None /\ bounds.edits < MaxEdits /\ Settable(c, p)
    /\ Counted("edits", 1)
    /\ edit' = [channel |-> c,
                writes |-> LET rest == Distributed(share, Movable(c), Total - p - Sum(share, Fixed(c)))
                           IN  Changed(share, [d \in Movable(c) \cup {c} |-> IF d = c THEN p ELSE rest[d]])]
    /\ UNCHANGED <<rows, history, platform, card, stopped, time, run, review, apart>>

SaveEdit ==
    /\ edit # None
    /\ Free(DOMAIN edit.writes \cup {edit.channel})
    /\ share' = Write(share, edit.writes)
    /\ locked' = [locked EXCEPT ![edit.channel] = TRUE]
    /\ edit' = None
    /\ apart' = apart \cup (DOMAIN edit.writes \cap Connected)
    /\ run' = Disturbed(run) /\ review' = Disturbed(review)
    /\ UNCHANGED <<cac, history, platform, card, stopped, time, bounds>>

\* unlock_channel.
Unlock(c) ==
    /\ locked[c] /\ Free({c})
    /\ locked' = [locked EXCEPT ![c] = FALSE]
    /\ UNCHANGED <<share, cac, history, platform, card, stopped, time, run, review, edit, bounds, apart>>

-----------------------------------------------------------------------------
(* Stops and time.                                                          *)

Stop ==
    /\ ~stopped /\ stopped' = TRUE
    /\ UNCHANGED <<rows, history, platform, card, time, run, review, edit, bounds, apart>>

Resume ==
    /\ stopped /\ stopped' = FALSE
    /\ UNCHANGED <<rows, history, platform, card, time, run, review, edit, bounds, apart>>

\* Midnight, UTC: today's ledger is empty.
Midnight ==
    /\ day < MaxDays
    /\ day' = day + 1
    /\ charged' = 0 /\ sent' = 0 /\ unlogged' = 0
    /\ UNCHANGED <<rows, history, platform, card, stopped, run, review, edit, bounds, apart>>

\* A channel's last move is SHIFT_COOLDOWN ago: at least a midnight has passed.
CoolsDown(c) ==
    /\ history[c] # None /\ history[c].day < day
    /\ history' = [history EXCEPT ![c] = None]
    /\ UNCHANGED <<rows, platform, card, stopped, time, run, review, edit, bounds, apart>>

-----------------------------------------------------------------------------
Engine ==
    \/ \E r \in Readings, gate \in Modes : BeginRun(r, gate)
    \/ Practise \/ Queue \/ CommitRun \/ RunDies
    \/ \E answer \in [Connected -> Outcomes] : Send(answer)

Reviewer ==
    \/ \E answer \in [Connected -> Outcomes] : Approve(answer)
    \/ SaveApproval \/ RequestDies \/ Reject

Person ==
    \/ \E c \in Channels : \E p \in HandShares : OpenEdit(c, p)
    \/ SaveEdit
    \/ \E c \in Channels : Unlock(c)

World ==
    \/ Stop \/ Resume \/ Midnight
    \/ \E c \in Channels : CoolsDown(c)

Next == Engine \/ Reviewer \/ Person \/ World

Spec == Init /\ [][Next]_vars

-----------------------------------------------------------------------------
(* Properties.                                                              *)

Plans == [percents : [Channels -> Shares], shifts : [Channels -> Int]]
Moves == [cac : CACs, day : Nat] \cup {None}

TypeOK ==
    /\ share \in [Channels -> Shares]
    /\ locked \in [Channels -> BOOLEAN]
    /\ cac \in [Channels -> CACs]
    /\ history \in [Channels -> Moves]
    /\ platform \in [Connected -> Shares]
    /\ card \in Plans \cup {None}
    /\ stopped \in BOOLEAN
    /\ day \in Nat
    /\ charged \in Nat
    /\ run # None => run.plan \in Plans /\ run.log \in [Channels -> Moves]
    /\ review # None => review.log \in [Channels -> Moves]
    /\ sent \in Nat
    /\ unlogged \in Nat
    /\ apart \subseteq Connected

\* What a plan p of the split s keeps to: the channels that take part, W, are
\* those not held back and with a CAC to believe.  Beyond MaxShift a channel moves
\* only as the repair of the total asks: up when it is the cheapest and takes up
\* what the others lose, down when all dearer ones are at the floor.
SoundPlan(p, s, held, a) ==
    LET base == Baseline(s)
        W    == {c \in Channels : ~held[c] /\ a[c] > 0}
    IN  /\ \A c \in Channels \ W : p[c] = base[c]
        /\ \A c, d \in W : p[c] > base[c] + MaxShift => a[c] <= a[d] /\ p[d] >= base[d] - MaxShift
        /\ \A c, d \in W : p[c] < base[c] - MaxShift /\ Dearer(a, d, c) => p[d] <= Floor
        /\ Floor * Cardinality(W) <= Sum(base, W) =>
               /\ Sum(p, Channels) = Total
               /\ \A c \in W : p[c] >= Floor /\ p[c] >= base[c] - MaxShift * (Cardinality(W) - 1)

\* "Locked channels are untouchable", "channels without [a credible CAC] hold
\* their current share", one just moved is left alone, "an active channel keeps a
\* floor", and the plan adds up to 100: for every split, reading, lock and
\* cooldown a run may meet.  Floors, total and the most a channel may lose need the
\* channels that take part to have room for their floors.
PlanSound ==
    run # None /\ run.at = "planned" =>
        LET a == Write(cac, run.read)
        IN  SoundPlan(run.plan.percents, run.base, HeldBack(run.lockedThen, run.log, a), a)

\* Today's limit: what the engine sends in a day without a person stays within
\* it, but for sends a platform refused in part and runs that died, each of
\* which is within it by itself; over midnight, changes of mode and stops.
MovedWithinLimit == sent <= DayLimit * (1 + unlogged)

\* "The stored share stays what the platform is actually spending": after pushes
\* refused one by one, wherever no answer to a push was lost, no platform was out
\* of reach, and nobody set the share by hand, died after a push or wrote beside
\* another; and a later push that all goes well for puts them in step again.
StoredIsSpent ==
    \A c \in Connected \ apart :
        \/ share[c] = platform[c]
        \/ run # None /\ c \in run.inStep
        \/ review # None /\ c \in review.inStep

\* "A manual change also locks the channel, so the predictive engine will not
\* quietly undo it": while a channel is locked its share changes only by hand,
\* or by a plan whose applier had read the row before the lock.
HandSetShareStands ==
    [][\A c \in Channels :
          locked[c] /\ share'[c] # share[c] =>
              \/ edit # None /\ edit' = None
              \/ run # None /\ run' = None /\ ~run.lockedThen[c]
              \/ review # None /\ review' = None /\ ~review.lockedThen[c]]_vars

\* "The channel shares always sum to 100 ... exactly 100, after every write"
\* (services/budgets.py).
SplitTotals == Sum(share, Channels) = Total

-----------------------------------------------------------------------------
(* The inductive invariant behind StoredIsSpent and HandSetShareStands.     *)

RunFields    == {"at", "plan", "read", "base", "lockedThen", "log", "gate", "ledger", "holds",
                 "landed", "inStep", "writes", "charge", "alone"}
ReviewFields == {"log", "landed", "inStep", "writes", "done", "lockedThen", "alone"}

\* Nothing that was locked when t read its rows is pushed, only what was pushed
\* is written, and a transaction alone at work writes what the platforms took.
WritesWhatLanded(t) ==
    /\ t.landed \subseteq Channels
    /\ \A c \in t.landed : ~t.lockedThen[c]
    /\ DOMAIN t.writes \subseteq t.landed
    /\ t.inStep \subseteq t.landed \cap Connected
    /\ t.alone =>
           /\ (t.landed \cap Connected) \ t.inStep \subseteq apart
           /\ \A c \in t.inStep :
                 platform[c] = IF c \in DOMAIN t.writes THEN t.writes[c] ELSE share[c]

RunSound ==
    run # None =>
        /\ DOMAIN run = RunFields
        /\ WritesWhatLanded(run)
        /\ run.at # "sent" => run.landed = {}

ReviewSound ==
    review # None => DOMAIN review = ReviewFields /\ WritesWhatLanded(review)

IInv ==
    /\ DOMAIN share = Channels
    /\ DOMAIN platform = Connected
    /\ RunSound
    /\ ReviewSound
    /\ StoredIsSpent

-----------------------------------------------------------------------------
(* The inductive invariant behind TypeOK: what a transaction will write has *)
(* its type.                                                                *)

RunTyped ==
    run # None =>
        /\ DOMAIN run = RunFields
        /\ run.plan \in Plans
        /\ run.log \in [Channels -> Moves]
        /\ run.inStep \subseteq Connected
        /\ \A c \in DOMAIN run.read : run.read[c] \in CACs
        /\ \A c \in DOMAIN run.writes : run.writes[c] \in Shares
        /\ run.charge \in [day : Nat, points : Nat]
        /\ run.ledger \in Nat

ReviewTyped ==
    review # None =>
        /\ DOMAIN review = ReviewFields
        /\ review.log \in [Channels -> Moves]
        /\ review.inStep \subseteq Connected
        /\ \A c \in DOMAIN review.writes : review.writes[c] \in Shares

EditTyped ==
    edit # None => \A c \in DOMAIN edit.writes : edit.writes[c] \in Shares

TypeInv == TypeOK /\ RunTyped /\ ReviewTyped /\ EditTyped

-----------------------------------------------------------------------------
(* The inductive invariant behind MovedWithinLimit.                         *)

\* What the open run will add to today's ledger.
Pending == IF run # None /\ run.charge.day = day THEN run.charge.points ELSE 0

\* The ledger stays within the limit with what is about to be added to it; what
\* was sent and is not in it was a day's limit at most, each time; and a run
\* that has not sent read no less than the ledger shows.
LedgerHolds ==
    /\ charged + Pending <= DayLimit
    /\ sent <= charged + Pending + DayLimit * unlogged
    /\ run # None =>
           /\ run.charge.day <= day
           /\ run.at # "sent" => run.charge.points = 0
           /\ run.at = "planned" => charged <= run.ledger

=============================================================================
