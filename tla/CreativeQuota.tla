---------------------------- MODULE CreativeQuota ----------------------------
(***************************************************************************)
(* The monthly allowance of one workspace for designs, AI pictures and     *)
(* model tokens (services/creative/quotas.py): requests and running jobs   *)
(* count what the month has used, under one advisory lock, and add their   *)
(* own; calls are settled afterwards, without that lock; an administrator  *)
(* changes the limits, workers die, and months pass.                       *)
(*                                                                         *)
(* A transaction is one step unless it holds the quota lock between what   *)
(* it counts and what it writes: settlements, new limits and midnight may  *)
(* come in between.                                                        *)
(***************************************************************************)
EXTENDS Naturals, FiniteSets, Sums

CONSTANTS
    Jobs,         \* design jobs that may be asked for
    NoJob,
    CallCeiling,  \* creative_max_tokens_per_call
    MaxPrompt,    \* bound: tokens a prompt may have
    MaxCalls,     \* bound: calls a job makes
    LimitValues,  \* limits an administrator may set; 0 is no limit
    FirstLimits,  \* bound: limits in force when the model begins
    MaxChanges,   \* bound: times the limits are changed
    MaxDeaths,    \* bound: requests and workers that die
    MaxMonth      \* bound: months that pass

ASSUME QuotaAssumption ==
    /\ NoJob \notin Jobs
    /\ IsFiniteSet(Jobs)
    /\ CallCeiling \in Nat \ {0}
    /\ MaxPrompt \in Nat
    /\ MaxCalls \in Nat
    /\ LimitValues \subseteq Nat
    /\ FirstLimits \subseteq LimitValues
    /\ MaxChanges \in Nat
    /\ MaxDeaths \in Nat
    /\ MaxMonth \in Nat

VARIABLES
    month,
    limits,    \* kind |-> the limit in force
    lock,      \* the job whose transaction holds the quota lock
    at,        \* job |-> where its request or its run is
    kind,      \* job |-> what it is counting or calling for
    room,      \* job |-> its count found room
    created,   \* job |-> the month of created_at
    images,    \* job |-> images_generated
    inputs,    \* job |-> tokens_in, 0 when it is not known
    unknown,   \* job |-> tokens_in is NULL
    outputs,   \* job |-> tokens_out, with what is reserved
    calls,     \* job |-> calls begun
    changes,
    deaths,
    ceiling,     \* ghost: month |-> kind |-> the highest limit in force in it
    lateImages,  \* ghost: job |-> pictures reserved after its month had ended
    lateTokens,  \* ghost: job |-> what calls reserved after its month may use
    spent,       \* ghost: job |-> the most tokens its calls may have used
    blind        \* ghost: job |-> calls whose prompts nobody counted

rows  == <<created, images, inputs, unknown, outputs>>
runs  == <<lock, at, kind, room>>
admin == <<limits, changes, ceiling>>
lates == <<lateImages, lateTokens>>
truth == <<spent, blind>>
vars  == <<month, rows, runs, admin, calls, deaths, lates, truth>>

Kinds  == {"jobs", "images", "tokens"}
Labels == {"new", "counted", "idle", "calling", "gone"}
Months == 0..MaxMonth

Init ==
    /\ month = 0
    /\ limits \in [Kinds -> FirstLimits]
    /\ lock = NoJob
    /\ at = [j \in Jobs |-> "new"]
    /\ kind = [j \in Jobs |-> "jobs"]
    /\ room = [j \in Jobs |-> FALSE]
    /\ created = [j \in Jobs |-> 0]
    /\ images = [j \in Jobs |-> 0]
    /\ inputs = [j \in Jobs |-> 0]
    /\ unknown = [j \in Jobs |-> FALSE]
    /\ outputs = [j \in Jobs |-> 0]
    /\ calls = [j \in Jobs |-> 0]
    /\ changes = 0
    /\ deaths = 0
    /\ ceiling = [m \in Months |-> limits]
    /\ lateImages = [j \in Jobs |-> 0]
    /\ lateTokens = [j \in Jobs |-> 0]
    /\ spent = [j \in Jobs |-> 0]
    /\ blind = [j \in Jobs |-> 0]

-----------------------------------------------------------------------------
(* What a month has used.                                                   *)

\* Rows of creative_jobs: admitted jobs, until they are deleted (they are not).
Rows == {j \in Jobs : at[j] \in {"idle", "calling", "gone"} \/ (at[j] = "counted" /\ kind[j] # "jobs")}
OfMonth(m) == {j \in Rows : created[j] = m}
ThisMonth == OfMonth(month)

\* usage.
Charge  == [j \in Jobs |-> inputs[j] + outputs[j]]
Used(k) ==
    CASE k = "jobs"   -> Cardinality(ThisMonth)
      [] k = "images" -> Sum(images, ThisMonth)
      [] k = "tokens" -> Sum(Charge, ThisMonth)

\* What one admission, picture or call adds before it is made.
Asks(k) == IF k = "tokens" THEN CallCeiling ELSE 1

\* n is allowed by limit l, and the laxer of two limits; 0 is no limit.
Within(n, l) == l = 0 \/ n <= l
Laxer(l, m) == IF l = 0 \/ m = 0 THEN 0 ELSE IF l > m THEN l ELSE m

\* Mutant: the limit is compared with what was used before this call.
FitsAfterwards(k) == limits[k] = 0 \/ Used(k) <= limits[k]

Fits(k) == Within(Used(k) + Asks(k), limits[k])

-----------------------------------------------------------------------------
(* Counting, under the lock, and writing.                                   *)

\* Mutant: the count does not wait for the lock.
CountUnlocked(j, k) ==
    /\ \/ at[j] = "new" /\ k = "jobs"
       \/ at[j] = "idle" /\ k # "jobs" /\ calls[j] < MaxCalls
    /\ lock' = j
    /\ at' = [at EXCEPT ![j] = "counted"]
    /\ kind' = [kind EXCEPT ![j] = k]
    /\ room' = [room EXCEPT ![j] = Fits(k)]
    /\ UNCHANGED <<month, rows, admin, calls, deaths, lates, truth>>

\* admit_job, reserve_images and reserve_tokens up to their refusal.
Count(j, k) ==
    /\ \/ at[j] = "new" /\ k = "jobs"
       \/ at[j] = "idle" /\ k # "jobs" /\ calls[j] < MaxCalls
    /\ lock = NoJob /\ lock' = j
    /\ at' = [at EXCEPT ![j] = "counted"]
    /\ kind' = [kind EXCEPT ![j] = k]
    /\ room' = [room EXCEPT ![j] = Fits(k)]
    /\ UNCHANGED <<month, rows, admin, calls, deaths, lates, truth>>

Unlock == lock' = NoJob

\* QuotaExceeded: the request is refused, or the job fails.
Refuse(j) ==
    /\ at[j] = "counted" /\ ~room[j] /\ Unlock
    /\ at' = [at EXCEPT ![j] = IF kind[j] = "jobs" THEN "new" ELSE "gone"]
    /\ UNCHANGED <<month, rows, kind, room, admin, calls, deaths, lates, truth>>

\* admit_job adds the row; created_at is the moment of the flush.
Admit(j) ==
    /\ at[j] = "counted" /\ kind[j] = "jobs" /\ room[j] /\ Unlock
    /\ created' = [created EXCEPT ![j] = month]
    /\ at' = [at EXCEPT ![j] = "idle"]
    /\ UNCHANGED <<month, images, inputs, unknown, outputs, kind, room, admin, calls, deaths, lates, truth>>

\* A job that runs on is charged where it was created: no count of that month is
\* made any more, and a count of this one does not see it.
LateFor(j) ==
    IF created[j] = month THEN UNCHANGED lates
    ELSE \/ /\ kind[j] = "images" /\ lateImages' = [lateImages EXCEPT ![j] = @ + 1]
            /\ UNCHANGED lateTokens
         \/ /\ kind[j] = "tokens" /\ lateTokens' = [lateTokens EXCEPT ![j] = @ + CallCeiling + MaxPrompt]
            /\ UNCHANGED lateImages

\* reserve_images or reserve_tokens writes the reservation on the job.
Reserve(j) ==
    /\ at[j] = "counted" /\ kind[j] # "jobs" /\ room[j] /\ Unlock
    /\ \/ /\ kind[j] = "images" /\ images' = [images EXCEPT ![j] = @ + 1]
          /\ UNCHANGED outputs
       \/ /\ kind[j] = "tokens" /\ outputs' = [outputs EXCEPT ![j] = @ + CallCeiling]
          /\ UNCHANGED images
    /\ at' = [at EXCEPT ![j] = "calling"]
    /\ calls' = [calls EXCEPT ![j] = @ + 1]
    /\ LateFor(j)
    /\ UNCHANGED <<month, created, inputs, unknown, kind, room, admin, deaths, truth>>

-----------------------------------------------------------------------------
(* Calls come back.  Settlements take the row's lock, not the quota's.      *)

Calling(j, k) == at[j] = "calling" /\ kind[j] = k
BackFrom(j) == at' = [at EXCEPT ![j] = "idle"]

\* The picture is made, or the call failed and release_images hands it back
\* (its max(0, ...) never bites: the reservation is there).
Picture(j) ==
    /\ Calling(j, "images") /\ BackFrom(j)
    /\ \E made \in {0, 1} : images' = [images EXCEPT ![j] = @ - 1 + made]
    /\ UNCHANGED <<month, created, inputs, unknown, outputs, lock, kind, room, admin, calls, deaths, lates, truth>>

\* What a call has used, and whether its prompt is counted.  One that nobody
\* counts is taken to have used the most it may.
Spend(j, n, counted) ==
    /\ spent' = [spent EXCEPT ![j] = @ + n]
    /\ blind' = [blind EXCEPT ![j] = IF counted THEN @ ELSE @ + 1]

\* settle_tokens with the counts the server reported (0 and 0 when it failed).
\* Once the input count is unknown it stays so, and what is reported is dropped.
Reported(j, in, out) ==
    /\ Calling(j, "tokens") /\ BackFrom(j)
    /\ outputs' = [outputs EXCEPT ![j] = @ - CallCeiling + out]
    /\ inputs' = [inputs EXCEPT ![j] = IF unknown[j] THEN @ ELSE @ + in]
    /\ Spend(j, in + out, ~unknown[j])
    /\ UNCHANGED <<month, created, images, unknown, lock, kind, room, admin, calls, deaths, lates>>

\* Mutant: the input counted so far goes with the count.
UnreportedForgets(j) ==
    /\ Calling(j, "tokens") /\ BackFrom(j)
    /\ inputs' = [inputs EXCEPT ![j] = 0]
    /\ unknown' = [unknown EXCEPT ![j] = TRUE]
    /\ Spend(j, MaxPrompt + CallCeiling, FALSE)
    /\ UNCHANGED <<month, created, images, outputs, lock, kind, room, admin, calls, deaths, lates>>

\* settle_tokens without counts: the reservation stays the charge, whatever the
\* call used, and the input counted so far is kept with it.
Unreported(j) ==
    /\ Calling(j, "tokens") /\ BackFrom(j)
    /\ outputs' = [outputs EXCEPT ![j] = @ + inputs[j]]
    /\ inputs' = [inputs EXCEPT ![j] = 0]
    /\ unknown' = [unknown EXCEPT ![j] = TRUE]
    /\ Spend(j, MaxPrompt + CallCeiling, FALSE)
    /\ UNCHANGED <<month, created, images, lock, kind, room, admin, calls, deaths, lates>>

-----------------------------------------------------------------------------
(* The rest of the world.                                                   *)

\* A request or a worker dies: its transaction is undone and its lock goes; a
\* call under way may have used tokens.  The job is run again or is over.
Die(j) ==
    /\ at[j] \in {"counted", "calling"} /\ deaths < MaxDeaths
    /\ deaths' = deaths + 1
    /\ lock' = IF lock = j THEN NoJob ELSE lock
    /\ at' = [at EXCEPT ![j] = IF at[j] = "counted" /\ kind[j] = "jobs" THEN "new" ELSE "idle"]
    /\ \/ ~Calling(j, "tokens") /\ UNCHANGED truth
       \/ Calling(j, "tokens") /\ Spend(j, MaxPrompt + CallCeiling, FALSE)
    /\ UNCHANGED <<month, rows, kind, room, admin, calls, lates>>

\* set_overrides; its row lock is the organisation's, not the quota's.
SetLimit(k, l) ==
    /\ changes < MaxChanges /\ limits[k] # l
    /\ changes' = changes + 1
    /\ limits' = [limits EXCEPT ![k] = l]
    /\ ceiling' = [ceiling EXCEPT ![month][k] = Laxer(@, l)]
    /\ UNCHANGED <<month, rows, runs, calls, deaths, lates, truth>>

\* month_window moves on.
MonthPasses ==
    /\ month < MaxMonth
    /\ month' = month + 1
    /\ ceiling' = [ceiling EXCEPT ![month + 1] = limits]
    /\ UNCHANGED <<rows, runs, limits, changes, calls, deaths, lates, truth>>

-----------------------------------------------------------------------------
Settle(j) ==
    \/ \E in \in 0..MaxPrompt : \E out \in 0..CallCeiling : Reported(j, in, out)
    \/ Unreported(j)

Next ==
    \/ \E j \in Jobs : \E k \in Kinds : Count(j, k)
    \/ \E j \in Jobs : Refuse(j) \/ Admit(j) \/ Reserve(j) \/ Picture(j) \/ Settle(j) \/ Die(j)
    \/ \E k \in Kinds : \E l \in LimitValues : SetLimit(k, l)
    \/ MonthPasses

Spec == Init /\ [][Next]_vars

-----------------------------------------------------------------------------
(* Properties.                                                              *)

TypeOK ==
    /\ month \in Months
    /\ limits \in [Kinds -> LimitValues]
    /\ lock \in Jobs \cup {NoJob}
    /\ at \in [Jobs -> Labels]
    /\ kind \in [Jobs -> Kinds]
    /\ room \in [Jobs -> BOOLEAN]
    /\ created \in [Jobs -> Months]
    /\ images \in [Jobs -> Nat]
    /\ inputs \in [Jobs -> Nat]
    /\ unknown \in [Jobs -> BOOLEAN]
    /\ outputs \in [Jobs -> Nat]
    /\ calls \in [Jobs -> Nat]
    /\ changes \in Nat
    /\ deaths \in Nat
    /\ ceiling \in [Months -> [Kinds -> LimitValues]]
    /\ lateImages \in [Jobs -> Nat]
    /\ lateTokens \in [Jobs -> Nat]
    /\ spent \in [Jobs -> Nat]
    /\ blind \in [Jobs -> Nat]

\* "Two requests arriving together cannot both take the last slot": the designs
\* of every month stay within the highest limit it had, a request counted at the
\* end of one month and admitted in the next included.
JobsWithinLimit ==
    \A m \in 0..month : Within(Cardinality(OfMonth(m)), ceiling[m]["jobs"])

\* What a job is charged but for what it reserved after its month had ended.
Pictures == [j \in Jobs |-> images[j] - lateImages[j]]
Tokens   == [j \in Jobs |-> inputs[j] + outputs[j] - lateTokens[j]]

\* Over calls that fail, workers that die, changes of the limits and the end of
\* the month, what the designs of every month were charged stays within its
\* highest limit: the pictures exactly, the tokens but for one prompt a design,
\* and both but for what designs still running when the month ended reserved
\* afterwards, which no count of that month saw.
UseBounded ==
    \A m \in 0..month :
        /\ Within(Sum(Pictures, OfMonth(m)), ceiling[m]["images"])
        /\ ceiling[m]["tokens"] # 0 =>
               Sum(Tokens, OfMonth(m)) <= ceiling[m]["tokens"] + MaxPrompt * Cardinality(OfMonth(m))

\* What a job is charged covers what its calls used, through servers that report
\* and that do not, in any order, but for the prompts of the calls that were cut
\* short, not reported, or made after one that was not.
NothingUncharged == \A j \in Jobs : spent[j] <= inputs[j] + outputs[j] + MaxPrompt * blind[j]

-----------------------------------------------------------------------------
(* The inductive invariant behind JobsWithinLimit and NothingUncharged.     *)

\* Whoever counted holds the lock, and nobody else is between the two.
CountsAlone == \A j \in Jobs : at[j] = "counted" => lock = j

\* Room for a design is there until it is taken.
RoomIsLeft ==
    \A j \in Jobs : at[j] = "counted" /\ kind[j] = "jobs" /\ room[j] =>
        Within(Cardinality(ThisMonth) + 1, ceiling[month]["jobs"])

\* A call that is under way is covered by its reservation.
Reserved ==
    \A j \in Jobs :
        /\ Calling(j, "images") => images[j] > 0
        /\ Calling(j, "tokens") => outputs[j] >= CallCeiling
        /\ spent[j] + (IF Calling(j, "tokens") THEN CallCeiling ELSE 0)
               <= inputs[j] + outputs[j] + MaxPrompt * blind[j]

\* The highest limit of the month is no stricter than the one in force.
Ceilings == \A k \in Kinds : Laxer(ceiling[month][k], limits[k]) = ceiling[month][k]

NotAhead == \A j \in Rows : created[j] <= month

IInv ==
    /\ TypeOK
    /\ CountsAlone
    /\ Ceilings
    /\ NotAhead
    /\ RoomIsLeft
    /\ Reserved
    /\ JobsWithinLimit

-----------------------------------------------------------------------------
(* The inductive invariant behind UseBounded.                               *)

\* Nothing is charged to a job before it is admitted.
Fresh ==
    \A j \in Jobs \ Rows :
        /\ images[j] = 0 /\ inputs[j] = 0 /\ outputs[j] = 0
        /\ lateImages[j] = 0 /\ lateTokens[j] = 0

\* A month's jobs with no token call under way: each of the others may still be
\* charged a prompt its reservation does not cover.
Quiet(m) == {j \in OfMonth(m) : ~Calling(j, "tokens")}

\* Pictures stay within the limit, and tokens within it and a prompt for every
\* quiet job.
UseLeft(m) ==
    /\ Within(Sum(Pictures, OfMonth(m)), ceiling[m]["images"])
    /\ ceiling[m]["tokens"] # 0 =>
           Sum(Tokens, OfMonth(m)) <= ceiling[m]["tokens"] + MaxPrompt * Cardinality(Quiet(m))

\* Room found for a picture or a call of a job of this month is there until it is
\* taken, whatever calls are settled meanwhile.
UseRoom ==
    \A j \in ThisMonth : at[j] = "counted" /\ room[j] =>
        /\ kind[j] = "images" => Within(Sum(Pictures, ThisMonth) + 1, ceiling[month]["images"])
        /\ kind[j] = "tokens" /\ ceiling[month]["tokens"] # 0 =>
               Sum(Tokens, ThisMonth) + CallCeiling
                   <= ceiling[month]["tokens"] + MaxPrompt * Cardinality(Quiet(month) \ {j})

UseInv == Fresh /\ (\A m \in 0..month : UseLeft(m)) /\ UseRoom

=============================================================================
