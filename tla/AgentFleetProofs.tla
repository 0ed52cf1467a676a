-------------------------- MODULE AgentFleetProofs --------------------------
(***************************************************************************)
(* What is proved of AgentFleet.  For any number of agents, workers and    *)
(* people: every variable keeps its type, and a stop lets at most the      *)
(* change under way through.  For one worker, the daily cap until          *)
(* midnight; for one person, that Resume restarts what a stop paused.      *)
(* Each is proved by its own inductive invariant; section 7 of the README  *)
(* has the runs that break the last two with two workers or two persons.   *)
(***************************************************************************)
EXTENDS AgentFleet, TLAPS

\* The invariant holds before the first tick.
LEMMA InitHolds == Init => IInv
<1> USE FleetConstants
<1> SUFFICES ASSUME Init PROVE IInv
  OBVIOUS
<1>1. TypeOK
  <2>1. waiting \in [Agents -> [Kinds -> 0..MaxTasks]]
    BY DEF Init
  <2>2. \A w \in Workers : 0 \in 0..MaxActions
    OBVIOUS
  <2>3. left \in [Workers -> 0..MaxActions] /\ applied \in [Agents -> Nat] /\ afterStop \in [Workers -> Nat]
    BY <2>2 DEF Init
  <2>4. /\ stops \subseteq StopKinds /\ remembered \subseteq Agents /\ pressed \subseteq Agents
        /\ ticking \in BOOLEAN
    BY DEF Init
  <2> QED BY <2>1, <2>3, <2>4 DEF Init, TypeOK
<1>2. RunShape
  BY DEF Init, RunShape, NoRow, Copies, RunStatuses
<1>3. RequestShape
  BY DEF Init, RequestShape, NoRequest, OpenRequests, RunStatuses, NextRuns
<1>4. StopHoldsTheRest /\ BegunBefore
  BY DEF Init, StopHoldsTheRest, BegunBefore, Halted
<1> QED BY <1>1, <1>2, <1>3, <1>4 DEF IInv

\* Taking a waiting run leaves a number of them that is in range.
LEMMA TakenFewer ==
    ASSUME TypeOK, NEW w \in Workers, NEW a \in Agents, NEW k \in Kinds, Taken(w, a, k)
    PROVE  waiting' \in [Agents -> [Kinds -> 0..MaxTasks]]
<1>1. waiting[a] \in [Kinds -> 0..MaxTasks] /\ waiting[a][k] \in 0..MaxTasks /\ waiting[a][k] > 0
  BY DEF TypeOK, Taken
<1>2. waiting[a][k] - 1 \in 0..MaxTasks
  BY <1>1, FleetConstants
<1> QED BY <1>1, <1>2 DEF TypeOK, Taken

\* One more waiting run is in range where there was room for it.
LEMMA OneMore ==
    ASSUME TypeOK, NEW a \in Agents, NEW k \in Kinds, waiting[a][k] < MaxTasks,
           waiting' = [waiting EXCEPT ![a][k] = @ + 1]
    PROVE  waiting' \in [Agents -> [Kinds -> 0..MaxTasks]]
<1>1. waiting[a] \in [Kinds -> 0..MaxTasks] /\ waiting[a][k] \in 0..MaxTasks
  BY DEF TypeOK
<1>2. waiting[a][k] + 1 \in 0..MaxTasks
  BY <1>1, FleetConstants
<1> QED BY <1>1, <1>2 DEF TypeOK

\* A run begins, or is skipped: its worker has nothing in hand.
LEMMA StartKeeps ==
    ASSUME IInv, NEW w \in Workers, NEW a \in Agents, NEW k \in Kinds, Start(w, a, k)
    PROVE  IInv'
<1> USE FleetConstants DEF IInv, StopHoldsTheRest, BegunBefore, Halted
<1>1. Taken(w, a, k) /\ waiting' \in [Agents -> [Kinds -> 0..MaxTasks]]
  BY TakenFewer DEF Start, SkipRun, NoModel, Begin
<1>2. CASE SkipRun(w, a, k)
  BY <1>1, <1>2 DEF SkipRun, rowVars, stopVars, runVars, boundVars, TypeOK, RunShape, RequestShape
<1>3. CASE NoModel(w, a, k)
  BY <1>1, <1>3 DEF NoModel, ResetCounter, ScheduleNext, rowVars, stopVars, runVars, boundVars,
                    TypeOK, RunShape, RequestShape
<1>4. CASE Begin(w, a, k)
  <2>1. /\ used' \in [Agents -> Nat] /\ dated' \in [Agents -> BOOLEAN]
        /\ used'[a] \in Nat
    BY <1>4 DEF Begin, ResetCounter, TypeOK
  <2>2. TypeOK'
    BY <1>1, <1>4, <2>1 DEF Begin, TypeOK, stopVars
  <2>3. RunShape'
    <3>1. mem' \in [Workers -> Copies]
      BY <1>4, <2>1 DEF Begin, RunShape, Copies, RunStatuses, TypeOK
    <3> QED BY <1>4, <3>1 DEF Begin, RunShape, TypeOK
  <2> QED BY <1>4, <2>2, <2>3 DEF Begin, RequestShape, TypeOK, stopVars
<1> QED BY <1>2, <1>3, <1>4, Start(w, a, k) DEF Start

\* A run goes on or ends.  A change is begun only while no stop is on, and a
\* worker makes one change before it looks again.
LEMMA StepKeeps ==
    ASSUME IInv, NEW w \in Workers, Step(w)
    PROVE  IInv'
<1> USE FleetConstants DEF IInv, StopHoldsTheRest, BegunBefore, Halted
<1>0. NoRow \in Copies
  BY DEF NoRow, Copies, RunStatuses
<1>1. ASSUME NEW a \in Agents, Unready(w, a) PROVE IInv'
  BY <1>0, <1>1 DEF Unready, Works, ScheduleNext, EndRun, stopVars, boundVars, TypeOK, RunShape, RequestShape
<1>2. ASSUME NEW a \in Agents, Fail(w, a) PROVE IInv'
  <2>1. failures' \in [Agents -> Nat] /\ status' \in [Agents -> {"running", "paused", "error"}]
    BY <1>2 DEF Fail, TypeOK, RunShape, Copies
  <2> QED BY <1>0, <1>2, <2>1 DEF Fail, Works, ScheduleNext, EndRun, stopVars, boundVars, TypeOK,
                                 RunShape, RequestShape
<1>3. ASSUME NEW a \in Agents, Succeed(w, a) PROVE IInv'
  <2>1. failures' \in [Agents -> Nat] /\ used' \in [Agents -> Nat]
    BY <1>3 DEF Succeed, TypeOK, RunShape, Copies
  <2> QED BY <1>0, <1>3, <2>1 DEF Succeed, ScheduleNext, EndRun, stopVars, boundVars, TypeOK,
                                 RunShape, RequestShape
<1>4. ASSUME NEW a \in Agents, Found(w, a) PROVE IInv'
  BY <1>4 DEF Found, Works, rowVars, stopVars, boundVars, TypeOK, RunShape, RequestShape
<1>5. CASE PassOver(w)
  BY <1>5 DEF PassOver, rowVars, stopVars, boundVars, TypeOK, RunShape, RequestShape
<1>6. CASE Decide(w)
  BY <1>6 DEF Decide, rowVars, stopVars, boundVars, TypeOK, RunShape, RequestShape
<1>7. ASSUME NEW a \in Agents, Apply(w, a) PROVE IInv'
  <2>1. mem' \in [Workers -> Copies]
    BY <1>7 DEF Apply, RunShape, Copies
  <2>2. left[w] \in 0..MaxActions /\ left[w] > 0
    BY <1>7 DEF Apply, RunShape, TypeOK
  <2> QED BY <1>7, <2>1, <2>2 DEF Apply, Applied, rowVars, stopVars, boundVars, TypeOK, RunShape, RequestShape
<1>8. CASE ApplyFails(w)
  <2>1. left[w] \in 0..MaxActions /\ left[w] > 0
    BY <1>8 DEF ApplyFails, RunShape, TypeOK
  <2> QED BY <1>8, <2>1 DEF ApplyFails, Applied, rowVars, stopVars, boundVars, TypeOK, RunShape, RequestShape
<1> QED BY <1>1, <1>2, <1>3, <1>4, <1>5, <1>6, <1>7, <1>8 DEF Step, Skipped, Finish

\* A run that dies leaves nothing in its worker's hands.
LEMMA EscapeKeeps ==
    ASSUME IInv, NEW w \in Workers, NEW a \in Agents, Escape(w, a)
    PROVE  IInv'
<1> USE FleetConstants DEF IInv, StopHoldsTheRest, BegunBefore, Halted
<1>0. NoRow \in Copies
  BY DEF NoRow, Copies, RunStatuses
<1>1. waiting' \in [Agents -> [Kinds -> 0..MaxTasks]]
  <2>1. "schedule" \in Kinds
    BY DEF Kinds
  <2>2. CASE UNCHANGED waiting
    BY <2>2 DEF TypeOK
  <2> QED BY <2>1, <2>2, OneMore, Escape(w, a) DEF Escape
<1>2. orphan' \in [Agents -> BOOLEAN]
  BY Escape(w, a), Zenon DEF Escape, TypeOK
<1> QED BY <1>0, <1>1, <1>2, Escape(w, a) DEF Escape, EndRun, rowVars, stopVars, TypeOK, RunShape, RequestShape

\* A request reads into its own memory.
LEMMA OpenKeeps ==
    ASSUME IInv, NEW u \in Users, NEW request \in OpenRequests, Open(u, request),
           request.kind = "stop" \/ request.stopped => "workspace" \in StopKinds
    PROVE  IInv'
BY DEF IInv, Open, StopHoldsTheRest, BegunBefore, Halted, TypeOK, RunShape, RequestShape,
       rowVars, stopVars, runVars, boundVars

\* What requests read is of the types they keep.
LEMMA ReadsAreTyped ==
    ASSUME IInv
    PROVE  /\ \A a \in Agents : \A kind \in {"pause", "resume"} : AboutAgent(a, kind) \in OpenRequests
           /\ \A kind \in {"stop", "lift", "save"} : AboutStop(kind) \in OpenRequests
           /\ NoRequest \in OpenRequests
<1> USE FleetConstants DEF IInv, TypeOK, NoRequest, OpenRequests, RunStatuses, NextRuns
<1>1. ASSUME NEW a \in Agents, NEW kind \in {"pause", "resume"} PROVE AboutAgent(a, kind) \in OpenRequests
  BY <1>1 DEF AboutAgent
<1>2. ASSUME NEW kind \in {"stop", "lift", "save"} PROVE AboutStop(kind) \in OpenRequests
  <2>1. ("workspace" \in stops) \in BOOLEAN
    OBVIOUS
  <2> QED BY <1>2, <2>1 DEF AboutStop
<1> QED BY <1>1, <1>2

\* The stop that comes on finds every count at zero; one that is on already
\* changes none of them.
LEMMA StopCounts ==
    ASSUME IInv, CountFromHere, UNCHANGED pc
    PROVE  (StopHoldsTheRest /\ BegunBefore)' /\ afterStop' \in [Workers -> Nat]
BY DEF IInv, CountFromHere, StopHoldsTheRest, BegunBefore, Halted, TypeOK

\* A request closes: rows, settings and counts keep their types.
LEMMA CloseKeeps ==
    ASSUME IInv, NEW u \in Users,
           \/ \E a \in Agents : ClosePause(u, a) \/ CloseResume(u, a)
           \/ CloseStop(u) \/ CloseLift(u) \/ CloseSave(u)
    PROVE  IInv'
<1> USE FleetConstants DEF IInv
<1>0. RequestShape' /\ RunShape'
  <2>1. req' = [req EXCEPT ![u] = NoRequest] /\ UNCHANGED runVars
    BY DEF ClosePause, CloseResume, CloseStop, CloseLift, CloseSave, Close
  <2>2. NoRequest \in OpenRequests /\ NoRequest.kind = "none" /\ ~NoRequest.stopped
    BY ReadsAreTyped DEF NoRequest
  <2>3. RequestShape'
    BY <2>1, <2>2 DEF RequestShape
  <2> QED BY <2>1, <2>3 DEF RunShape, runVars
<1>00. req[u] \in OpenRequests
  BY DEF RequestShape
<1>1. ASSUME NEW a \in Agents, ClosePause(u, a) PROVE IInv'
  <2>1. TypeOK'
    BY <1>1, <1>00 DEF ClosePause, Written, TypeOK, OpenRequests, RunStatuses, NextRuns, runVars, boundVars
  <2> QED BY <1>0, <1>1, <2>1 DEF ClosePause, StopHoldsTheRest, BegunBefore, Halted, runVars
<1>2. ASSUME NEW a \in Agents, CloseResume(u, a) PROVE IInv'
  <2>1. TypeOK'
    BY <1>2, <1>00 DEF CloseResume, Written, TypeOK, OpenRequests, RunStatuses, NextRuns, stopVars,
                      runVars, boundVars
  <2> QED BY <1>0, <1>2, <2>1 DEF CloseResume, StopHoldsTheRest, BegunBefore, Halted, runVars, stopVars
<1>3. CASE CloseStop(u)
  <2>1. (StopHoldsTheRest /\ BegunBefore)' /\ afterStop' \in [Workers -> Nat]
    BY <1>3, StopCounts DEF CloseStop, runVars
  <2>2. "workspace" \in StopKinds
    BY <1>3 DEF CloseStop, Close, RequestShape
  <2>3. TypeOK'
    BY <1>3, <2>1, <2>2 DEF CloseStop, TypeOK, runVars, boundVars
  <2> QED BY <1>0, <2>1, <2>3
<1>4. CASE CloseLift(u)
  <2>1. TypeOK'
    BY <1>4, <1>00 DEF CloseLift, TypeOK, runVars, boundVars
  <2> QED BY <1>0, <1>4, <2>1 DEF CloseLift, StopHoldsTheRest, BegunBefore, Halted, runVars
<1>5. CASE CloseSave(u)
  <2>1. (StopHoldsTheRest /\ BegunBefore)' /\ afterStop' \in [Workers -> Nat]
    BY <1>5, StopCounts DEF CloseSave, runVars
  <2>2. req[u].stopped => "workspace" \in StopKinds
    BY DEF RequestShape
  <2>3. TypeOK'
    BY <1>5, <1>00, <2>1, <2>2 DEF CloseSave, OpenRequests, TypeOK, rowVars, runVars, boundVars
  <2> QED BY <1>0, <2>1, <2>3
<1> QED BY <1>1, <1>2, <1>3, <1>4, <1>5

\* Ticks, time, the platform's switch and runs that are asked for or lost before
\* they begin.
LEMMA RestKeeps ==
    ASSUME IInv,
           \/ Tick \/ EndTick \/ Time \/ PlatformSwitch
           \/ \E a \in Agents : Claim(a) \/ RunNow(a)
           \/ \E a \in Agents, k \in Kinds : Drop(a, k)
    PROVE  IInv'
<1> USE FleetConstants DEF IInv
<1> USE DEF rowVars, stopVars, runVars, boundVars
<1>1. CASE Tick \/ EndTick
  <2>1. ticking' \in BOOLEAN /\ UNCHANGED <<rowVars, stopVars, waiting, runVars, req, applied, afterStop>>
    BY <1>1 DEF Tick, EndTick
  <2> QED BY <2>1 DEF TypeOK, RunShape, RequestShape, StopHoldsTheRest, BegunBefore, Halted
<1>2. CASE Midnight
  <2>1. \A c \in Copies : [c EXCEPT !.dated = FALSE] \in Copies
    BY DEF Copies
  <2>2. mem' \in [Workers -> Copies]
    BY <1>2, <2>1 DEF Midnight, RunShape
  <2>3. TypeOK'
    BY <1>2 DEF Midnight, TypeOK
  <2>4. RunShape' /\ RequestShape'
    BY <1>2, <2>2 DEF Midnight, RunShape, RequestShape
  <2> QED BY <1>2, <2>3, <2>4 DEF Midnight, StopHoldsTheRest, BegunBefore, Halted
<1>3. ASSUME NEW a \in Agents, BecomeDue(a) \/ AgeOrphan(a) PROVE IInv'
  <2>1. CASE BecomeDue(a)
    BY <2>1 DEF BecomeDue, TypeOK, RunShape, RequestShape, StopHoldsTheRest, BegunBefore, Halted
  <2>2. CASE AgeOrphan(a)
    BY <2>2 DEF AgeOrphan, TypeOK, RunShape, RequestShape, StopHoldsTheRest, BegunBefore, Halted
  <2> QED BY <1>3, <2>1, <2>2
<1>4. ASSUME NEW w \in Workers, AgeRun(w) PROVE IInv'
  BY <1>4 DEF AgeRun, TypeOK, RunShape, RequestShape, StopHoldsTheRest, BegunBefore, Halted
<1>5. CASE PlatformSwitch
  <2>1. StopHoldsTheRest' /\ BegunBefore' /\ afterStop' \in [Workers -> Nat]
    <3>1. CASE CountFromHere
      BY <1>5, <3>1, StopCounts DEF PlatformSwitch
    <3>2. CASE stops' = stops \ {"platform"} /\ UNCHANGED afterStop
      BY <1>5, <3>2 DEF PlatformSwitch, StopHoldsTheRest, BegunBefore, Halted, TypeOK
    <3> QED BY <1>5, <3>1, <3>2 DEF PlatformSwitch
  <2> QED BY <1>5, <2>1 DEF PlatformSwitch, TypeOK, RunShape, RequestShape
<1>6. ASSUME NEW a \in Agents, Claim(a) \/ RunNow(a) PROVE IInv'
  <2>1. waiting' \in [Agents -> [Kinds -> 0..MaxTasks]]
    BY <1>6, OneMore DEF Claim, RunNow, Kinds
  <2>2. CASE Claim(a)
    BY <2>1, <2>2 DEF Claim, TypeOK, RunShape, RequestShape, StopHoldsTheRest, BegunBefore, Halted
  <2>3. CASE RunNow(a)
    BY <2>1, <2>3 DEF RunNow, TypeOK, RunShape, RequestShape, StopHoldsTheRest, BegunBefore, Halted
  <2> QED BY <1>6, <2>2, <2>3
<1>7. ASSUME NEW a \in Agents, NEW k \in Kinds, Drop(a, k) PROVE IInv'
  <2>1. waiting[a][k] \in 0..MaxTasks /\ waiting[a][k] - 1 \in 0..MaxTasks
    BY <1>7 DEF Drop, TypeOK
  <2>2. waiting' \in [Agents -> [Kinds -> 0..MaxTasks]]
    BY <1>7, <2>1 DEF Drop, TypeOK
  <2> QED BY <1>7, <2>2 DEF Drop, TypeOK, RunShape, RequestShape, StopHoldsTheRest, BegunBefore, Halted
<1> QED BY <1>1, <1>2, <1>3, <1>4, <1>5, <1>6, <1>7 DEF Time

\* Every request opens with a memory of the right types.
LEMMA RequestKeeps ==
    ASSUME IInv, NEW u \in Users, Request(u)
    PROVE  IInv'
<1> USE ReadsAreTyped, OpenKeeps
<1>1. ASSUME NEW a \in Agents, OpenPause(u, a) \/ OpenResume(u, a) PROVE IInv'
  <2>1. \A kind \in {"pause", "resume"} :
           AboutAgent(a, kind).kind = kind /\ ~AboutAgent(a, kind).stopped
    BY DEF AboutAgent, NoRequest
  <2> QED BY <1>1, <2>1 DEF OpenPause, OpenResume
<1>2. CASE OpenStop(u) \/ OpenLift(u) \/ OpenSave(u)
  <2>1. \A kind \in {"stop", "lift", "save"} :
           /\ AboutStop(kind).kind = kind
           /\ AboutStop(kind).stopped => "workspace" \in stops
    BY DEF AboutStop, NoRequest
  <2>2. "workspace" \in stops => "workspace" \in StopKinds
    BY DEF IInv, TypeOK
  <2> QED BY <1>2, <2>1, <2>2 DEF OpenStop, OpenLift, OpenSave
<1> QED BY <1>1, <1>2, CloseKeeps, Request(u) DEF Request

\* The invariant is inductive.
LEMMA IInvKept == IInv /\ [Next]_vars => IInv'
<1> SUFFICES ASSUME IInv, [Next]_vars PROVE IInv'
  OBVIOUS
<1>1. CASE UNCHANGED vars
  BY <1>1 DEF vars, rowVars, stopVars, runVars, boundVars, IInv, TypeOK, RunShape, RequestShape,
              StopHoldsTheRest, BegunBefore, Halted
<1>2. CASE Next
  BY <1>2, RestKeeps, StartKeeps, StepKeeps, EscapeKeeps, RequestKeeps DEF Next
<1> QED BY <1>1, <1>2

\* What each run and each request keeps of the row and the stop, and that a
\* change is made only where it was begun, holds in every reachable state.
THEOREM Invariance == Spec => []IInv
BY InitHolds, IInvKept, PTL DEF Spec

\* Rows, copies, requests and counts keep their types.
THEOREM TypeCorrect == Spec => []TypeOK
<1>1. IInv => TypeOK
  BY DEF IInv
<1> QED BY <1>1, Invariance, PTL

\* However many workers run, a stop lets each of them finish at most the one
\* change it was making (runner._process_actions reads halt_reason before each).
THEOREM StopIsRespected == Spec => []StopHoldsTheRest
<1>1. IInv => StopHoldsTheRest
  BY DEF IInv
<1> QED BY <1>1, Invariance, PTL

-----------------------------------------------------------------------------
(* One worker, up to midnight.                                              *)

\* Whatever leaves a run, its count and the rows alone leaves CountIsTrue alone.
LEMMA CountUntouched ==
    ASSUME CountIsTrue, UNCHANGED <<used, dated, applied, pc, job, mem, escapes, days>>
    PROVE  CountIsTrue'
BY DEF CountIsTrue

\* The lone worker takes the count with it when it begins a run.
LEMMA StartCounts ==
    ASSUME \A v, w \in Workers : v = w, IInv, CountIsTrue,
           NEW w \in Workers, NEW a \in Agents, NEW k \in Kinds, Start(w, a, k)
    PROVE  CountIsTrue'
<1>1. CASE SkipRun(w, a, k)
  BY <1>1, CountUntouched DEF SkipRun, rowVars, runVars, boundVars
<1>2. ASSUME ResetCounter(a), Taken(w, a, k), UNCHANGED <<applied, escapes, days>>
      PROVE  /\ \A v \in Workers : job[v] = NoAgent
             /\ used' \in [Agents -> Nat] /\ dated' \in [Agents -> BOOLEAN]
             /\ escapes = 0 /\ days = 0 =>
                   \A b \in Agents : /\ ~dated'[b] => applied'[b] = 0
                                     /\ used'[b] = applied'[b]
                                     /\ applied'[b] <= ActionCap
             /\ dated'[a]
  <2>1. \A v \in Workers : job[v] = NoAgent
    BY <1>2 DEF Taken, IInv, RunShape
  <2>2. \A b \in Agents : \A v \in Workers : job[v] # b
    BY <2>1, FleetConstants
  <2>3. used' \in [Agents -> Nat] /\ dated' \in [Agents -> BOOLEAN] /\ dated'[a]
    BY <1>2 DEF ResetCounter, IInv, TypeOK
  <2> QED BY <1>2, <2>1, <2>2, <2>3 DEF ResetCounter, IInv, TypeOK, CountIsTrue
<1>3. CASE NoModel(w, a, k)
  <2>1. UNCHANGED <<pc, job, mem, applied, escapes, days>> /\ ResetCounter(a) /\ Taken(w, a, k)
    BY <1>3 DEF NoModel, runVars, boundVars
  <2>2. \A b \in Agents : \A v \in Workers : job'[v] # b
    BY <1>2, <2>1, FleetConstants
  <2> QED BY <1>2, <2>1, <2>2 DEF CountIsTrue
<1>4. CASE Begin(w, a, k)
  <2>1. /\ UNCHANGED <<applied, escapes, days>> /\ ResetCounter(a) /\ Taken(w, a, k)
        /\ job' = [job EXCEPT ![w] = a] /\ pc' = [pc EXCEPT ![w] = "working"]
    BY <1>4 DEF Begin, boundVars
  <2>2. mem'[w].used = used'[a] /\ mem'[w].began = used'[a] /\ mem'[w].dated = TRUE
    BY <1>4 DEF Begin, IInv, RunShape
  <2>3. \A v \in Workers : v = w /\ job'[v] = a /\ pc'[v] = "working"
    BY <2>1 DEF IInv, TypeOK
  <2> QED BY <1>2, <2>1, <2>2, <2>3 DEF CountIsTrue
<1> QED BY <1>1, <1>3, <1>4, Start(w, a, k) DEF Start

\* A run that ends writes the count it has, if it made a change.
LEMMA StepCounts ==
    ASSUME \A v, w \in Workers : v = w, IInv, CountIsTrue, NEW w \in Workers, Step(w)
    PROVE  CountIsTrue'
<1>1. ASSUME NEW a \in Agents, job[w] = a, EndRun(w),
             used' = used \/ (used' = [used EXCEPT ![a] = mem[w].used]),
             UNCHANGED <<dated, applied, escapes, days>>,
             escapes = 0 /\ days = 0 => used'[a] = applied[a]
      PROVE  CountIsTrue'
  <2>1. \A v \in Workers : job'[v] = NoAgent /\ job[v] = a
    BY <1>1 DEF EndRun, IInv, TypeOK
  <2>2. \A v \in Workers : \A b \in Agents : job'[v] # b
    BY <2>1, FleetConstants
  <2>3. \A b \in Agents : b # a => used'[b] = used[b] /\ \A v \in Workers : job[v] # b
    BY <1>1, <2>1 DEF IInv, TypeOK
  <2> QED BY <1>1, <2>2, <2>3 DEF CountIsTrue
<1>2. ASSUME NEW a \in Agents, Unready(w, a) \/ Fail(w, a) PROVE CountIsTrue'
  <2>1. job[w] = a /\ EndRun(w) /\ UNCHANGED <<used, dated, applied, escapes, days>> /\ pc[w] = "working"
    BY <1>2 DEF Unready, Fail, Works, boundVars
  <2> QED BY <1>1, <2>1 DEF CountIsTrue
<1>3. ASSUME NEW a \in Agents, job[w] = a, Succeed(w, a) PROVE CountIsTrue'
  <2>1. /\ EndRun(w) /\ UNCHANGED <<dated, applied, escapes, days>>
        /\ used' = [used EXCEPT ![a] = IF mem[w].used # mem[w].began THEN mem[w].used ELSE @]
    BY <1>3 DEF Succeed, boundVars
  <2>2. escapes = 0 /\ days = 0 => mem[w].used = applied[a] /\ mem[w].began = used[a]
    BY <1>3 DEF CountIsTrue
  <2>3. used' = used \/ used' = [used EXCEPT ![a] = mem[w].used]
    BY <2>1 DEF IInv, TypeOK
  <2>4. escapes = 0 /\ days = 0 => used'[a] = applied[a]
    BY <2>1, <2>2 DEF IInv, TypeOK
  <2> QED BY <1>1, <1>3, <2>1, <2>3, <2>4
<1>4. ASSUME NEW a \in Agents, Skipped(w, a) \/ Finish(w, a) PROVE CountIsTrue'
  BY <1>3, <1>4 DEF Skipped, Finish, Works
<1>5. ASSUME NEW a \in Agents, Found(w, a) PROVE CountIsTrue'
  BY <1>5 DEF Found, Works, rowVars, boundVars, CountIsTrue, IInv, TypeOK
<1>6. CASE PassOver(w)
  BY <1>6, CountUntouched DEF PassOver, rowVars, boundVars
<1>7. CASE Decide(w)
  BY <1>7 DEF Decide, Allowed, rowVars, boundVars, CountIsTrue, IInv, TypeOK
<1>8. ASSUME NEW a \in Agents, Apply(w, a) PROVE CountIsTrue'
  <2>1. /\ pc[w] = "applying" /\ job[w] = a /\ pc' = [pc EXCEPT ![w] = "acting"]
        /\ mem' = [mem EXCEPT ![w].used = @ + 1] /\ applied' = [applied EXCEPT ![a] = @ + 1]
        /\ UNCHANGED <<used, dated, job, escapes, days>>
    BY <1>8 DEF Apply, Applied, rowVars, boundVars
  <2>2. \A v \in Workers : v = w
    OBVIOUS
  <2>3. /\ mem'[w].used = mem[w].used + 1 /\ mem'[w].began = mem[w].began
        /\ mem'[w].dated = mem[w].dated
    BY <2>1 DEF IInv, RunShape, Copies
  <2>4. applied[a] \in Nat /\ ActionCap \in Nat
    BY FleetConstants DEF IInv, TypeOK
  <2> QED BY <2>1, <2>2, <2>3, <2>4 DEF CountIsTrue, IInv, TypeOK
<1>9. CASE ApplyFails(w)
  BY <1>9 DEF ApplyFails, Applied, rowVars, boundVars, CountIsTrue, IInv, TypeOK
<1> QED BY <1>2, <1>4, <1>5, <1>6, <1>7, <1>8, <1>9 DEF Step

\* CountIsTrue is inductive for one worker; what dies or passes midnight only
\* makes its condition false.
LEMMA CountKept ==
    ASSUME \A v, w \in Workers : v = w
    PROVE  IInv /\ CountIsTrue /\ [Next]_vars => CountIsTrue'
<1> SUFFICES ASSUME IInv, CountIsTrue, [Next]_vars PROVE CountIsTrue'
  OBVIOUS
<1> USE CountUntouched DEF rowVars, stopVars, runVars, boundVars
<1>1. CASE Tick \/ EndTick \/ PlatformSwitch \/ UNCHANGED vars
  BY <1>1 DEF Tick, EndTick, PlatformSwitch, vars
<1>2. CASE Time
  <2>1. CASE Midnight
    BY <2>1 DEF Midnight, CountIsTrue
  <2>2. ASSUME NEW a \in Agents, BecomeDue(a) \/ AgeOrphan(a) PROVE CountIsTrue'
    BY <2>2 DEF BecomeDue, AgeOrphan
  <2>3. ASSUME NEW w \in Workers, AgeRun(w) PROVE CountIsTrue'
    BY <2>3 DEF AgeRun
  <2> QED BY <1>2, <2>1, <2>2, <2>3 DEF Time
<1>3. ASSUME NEW a \in Agents, Claim(a) \/ RunNow(a) PROVE CountIsTrue'
  BY <1>3 DEF Claim, RunNow
<1>4. ASSUME NEW a \in Agents, NEW k \in Kinds, Drop(a, k) PROVE CountIsTrue'
  BY <1>4 DEF Drop, CountIsTrue
<1>5. ASSUME NEW w \in Workers, NEW a \in Agents, Escape(w, a) PROVE CountIsTrue'
  BY <1>5 DEF Escape, CountIsTrue
<1>6. ASSUME NEW u \in Users, Request(u) PROVE CountIsTrue'
  <2>1. ASSUME NEW request, Open(u, request) PROVE CountIsTrue'
    BY <2>1 DEF Open
  <2>2. ASSUME NEW a \in Agents, ClosePause(u, a) \/ CloseResume(u, a) PROVE CountIsTrue'
    BY <2>2 DEF ClosePause, CloseResume
  <2>3. CASE CloseStop(u) \/ CloseLift(u) \/ CloseSave(u)
    BY <2>3 DEF CloseStop, CloseLift, CloseSave
  <2> QED BY <1>6, <2>1, <2>2, <2>3 DEF Request, OpenPause, OpenResume, OpenStop, OpenLift, OpenSave
<1> QED BY <1>1, <1>2, <1>3, <1>4, <1>5, <1>6, StartCounts, StepCounts DEF Next

\* One worker makes at most max_actions_per_day changes with an agent before
\* midnight, over any number of its runs, as long as none of them died.
THEOREM DailyCapOfOneWorker ==
    ASSUME \A v, w \in Workers : v = w
    PROVE  Spec => [](days = 0 => DailyCapHolds)
<1>1. Init => CountIsTrue
  BY FleetConstants DEF Init, CountIsTrue
<1>2. CountIsTrue => (days = 0 => DailyCapHolds)
  BY DEF CountIsTrue, DailyCapHolds
<1> QED BY <1>1, <1>2, CountKept, InitHolds, IInvKept, PTL DEF Spec

-----------------------------------------------------------------------------
(* One person at a time.                                                    *)

\* A person alone finds the stop as it was read, so that the list that is
\* lifted or written back is the one the stop left; everything else leaves
\* the list and the stop alone, or only forgets an agent that was paused by hand.
LEMMA StopKept ==
    ASSUME \A u, v \in Users : u = v
    PROVE  IInv /\ StopRemembered /\ [Next]_vars => StopRemembered'
<1> SUFFICES ASSUME IInv, StopRemembered, [Next]_vars PROVE StopRemembered'
  OBVIOUS
<1> USE DEF rowVars, stopVars, runVars, boundVars
<1>1. ASSUME UNCHANGED <<stopVars, req>> PROVE StopRemembered'
  BY <1>1 DEF StopRemembered
<1>2. CASE Tick \/ EndTick \/ Time \/ UNCHANGED vars
  BY <1>1, <1>2 DEF Tick, EndTick, Time, Midnight, BecomeDue, AgeOrphan, AgeRun, vars
<1>3. CASE PlatformSwitch
  <2>1. "workspace" \in stops' <=> "workspace" \in stops
    BY <1>3 DEF PlatformSwitch
  <2> QED BY <1>3, <2>1 DEF PlatformSwitch, StopRemembered
<1>4. ASSUME NEW a \in Agents, Claim(a) \/ RunNow(a) \/ \E k \in Kinds : Drop(a, k)
      PROVE  StopRemembered'
  BY <1>1, <1>4 DEF Claim, RunNow, Drop
<1>5. ASSUME NEW w \in Workers, NEW a \in Agents, NEW k \in Kinds, Start(w, a, k)
      PROVE  StopRemembered'
  BY <1>1, <1>5 DEF Start, SkipRun, NoModel, Begin
<1>6. ASSUME NEW w \in Workers, Step(w) PROVE StopRemembered'
  BY <1>1, <1>6 DEF Step, Unready, Fail, Skipped, Finish, Succeed, Found, PassOver, Decide,
                    Apply, ApplyFails, Applied
<1>7. ASSUME NEW w \in Workers, NEW a \in Agents, Escape(w, a) PROVE StopRemembered'
  BY <1>1, <1>7 DEF Escape
<1>8. ASSUME NEW u \in Users, Request(u) PROVE StopRemembered'
  <2>1. \A v \in Users : v = u
    OBVIOUS
  <2>2. ASSUME NEW a \in Agents, OpenPause(u, a) \/ OpenResume(u, a) PROVE StopRemembered'
    <3>1. \A kind \in {"pause", "resume"} : AboutAgent(a, kind).kind = kind
      BY DEF AboutAgent, NoRequest
    <3>2. /\ \E kind \in {"pause", "resume"} : req' = [req EXCEPT ![u] = AboutAgent(a, kind)]
          /\ UNCHANGED stopVars
      BY <2>2 DEF OpenPause, OpenResume, Open
    <3>3. req'[u].kind \in {"pause", "resume"}
      BY <3>1, <3>2 DEF IInv, RequestShape
    <3> QED BY <2>1, <3>2, <3>3 DEF StopRemembered
  <2>3. CASE OpenStop(u) \/ OpenLift(u) \/ OpenSave(u)
    <3>1. \A kind \in {"stop", "lift", "save"} :
             /\ AboutStop(kind).kind = kind /\ AboutStop(kind).list = remembered
             /\ AboutStop(kind).stopped <=> "workspace" \in stops
      BY DEF AboutStop, NoRequest
    <3>2. /\ \E kind \in {"stop", "lift", "save"} :
                /\ req' = [req EXCEPT ![u] = AboutStop(kind)]
                /\ kind = "stop" => "workspace" \notin stops
          /\ UNCHANGED stopVars
      BY <2>3 DEF OpenStop, OpenLift, OpenSave, Open
    <3> QED BY <2>1, <3>1, <3>2 DEF StopRemembered, IInv, RequestShape
  <2>4. ASSUME NEW kind, Close(u, kind) PROVE \A v \in Users : req'[v].kind = "none"
    BY <2>1, <2>4 DEF Close, NoRequest, IInv, RequestShape
  <2>5. ASSUME NEW a \in Agents, ClosePause(u, a) \/ CloseResume(u, a) PROVE StopRemembered'
    BY <2>4, <2>5 DEF ClosePause, CloseResume, StopRemembered
  <2>6. CASE CloseStop(u)
    <3>1. /\ req[u].kind = "stop" /\ "workspace" \notin stops
          /\ \A v \in Users : req'[v].kind = "none"
      BY <2>4, <2>6 DEF CloseStop, Close, StopRemembered
    <3> QED BY <2>6, <3>1 DEF CloseStop, StopRemembered
  <2>7. CASE CloseLift(u)
    BY <2>4, <2>7 DEF CloseLift, StopRemembered
  <2>8. CASE CloseSave(u)
    <3>1. /\ remembered' = remembered /\ pressed' = pressed
          /\ "workspace" \in stops' <=> "workspace" \in stops
          /\ \A v \in Users : req'[v].kind = "none"
      BY <2>4, <2>8 DEF CloseSave, Close, StopRemembered
    <3> QED BY <3>1 DEF StopRemembered
  <2> QED BY <1>8, <2>2, <2>3, <2>5, <2>6, <2>7, <2>8 DEF Request
<1> QED BY <1>2, <1>3, <1>4, <1>5, <1>6, <1>7, <1>8 DEF Next

\* Only a lift takes a workspace stop off; it restarts whom the stop paused.
LEMMA LiftRestarts ==
    ASSUME IInv, StopRemembered, Next, "workspace" \in stops, "workspace" \notin stops'
    PROVE  \A a \in pressed : status'[a] # "paused"
<1> USE DEF rowVars, stopVars, runVars, boundVars
<1>1. ASSUME UNCHANGED stops PROVE FALSE
  BY <1>1
<1>2. ~(Tick \/ EndTick \/ Time \/ \E a \in Agents : Claim(a) \/ RunNow(a))
  BY <1>1 DEF Tick, EndTick, Time, Midnight, BecomeDue, AgeOrphan, AgeRun, Claim, RunNow
<1>3. ~PlatformSwitch
  BY DEF PlatformSwitch
<1>4. ~(\E a \in Agents, k \in Kinds : Drop(a, k) \/ \E w \in Workers : Start(w, a, k))
  BY <1>1 DEF Drop, Start, SkipRun, NoModel, Begin
<1>5. ~(\E w \in Workers : Step(w) \/ \E a \in Agents : Escape(w, a))
  BY <1>1 DEF Step, Unready, Fail, Skipped, Finish, Succeed, Found, PassOver, Decide,
              Apply, ApplyFails, Applied, Escape
<1>6. PICK u \in Users : Request(u)
  BY <1>2, <1>3, <1>4, <1>5, Next DEF Next
<1>7. CASE CloseLift(u)
  <2>1. pressed \subseteq remembered /\ req[u].list = remembered /\ pressed \subseteq Agents
    BY <1>7 DEF StopRemembered, CloseLift, Close, IInv, TypeOK
  <2> QED BY <1>7, <2>1 DEF CloseLift, IInv, TypeOK
<1>8. ~CloseSave(u)
  BY DEF CloseSave, Close, StopRemembered
<1>9. ~CloseStop(u)
  BY DEF CloseStop
<1>10. ~(\/ \E a \in Agents : OpenPause(u, a) \/ OpenResume(u, a) \/ ClosePause(u, a) \/ CloseResume(u, a)
         \/ OpenStop(u) \/ OpenLift(u) \/ OpenSave(u))
  BY <1>1 DEF OpenPause, OpenResume, ClosePause, CloseResume, OpenStop, OpenLift, OpenSave, Open
<1> QED BY <1>6, <1>7, <1>8, <1>9, <1>10 DEF Request

\* Where one person at a time changes the stop and the settings, none of the
\* agents a stop paused stays paused when it is lifted.
THEOREM ResumeRestartsThemAll ==
    ASSUME \A u, v \in Users : u = v
    PROVE  Spec => ResumeRestarts
<1>1. Init => StopRemembered
  BY DEF Init, StopRemembered, NoRequest
<1>2. IInv /\ StopRemembered /\ [Next]_vars
         => [ "workspace" \in stops /\ "workspace" \notin stops'
                 => \A a \in pressed : status'[a] # "paused" ]_vars
  BY LiftRestarts
<1> QED BY <1>1, <1>2, StopKept, InitHolds, IInvKept, PTL DEF Spec, ResumeRestarts

=============================================================================
