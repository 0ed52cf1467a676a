------------------------ MODULE DesignReviewProofs ------------------------
(***************************************************************************)
(* What holds of DesignReview for any number of cards, jobs, workers,      *)
(* decisions, crashes and second deliveries.  IInv is inductive: one lemma *)
(* per part of it, each with one step per action of Next.  The actions     *)
(* with a choice in them are first taken apart into what each choice does. *)
(***************************************************************************)
EXTENDS DesignReview, TLAPS

\* One card is pending and nothing is under way: every part of IInv holds.
LEMMA InitEstablishes == Init => IInv
  <1> USE DesignAssumption DEF Init, Items, Jobs, None
  <1>1. Init => TypeOK
    BY DEF TypeOK, ItemStatuses, JobStatuses, Labels, Verdicts
  <1>2. Init => JobsAdmitted /\ CardsRevised
    BY DEF JobsAdmitted, CardsRevised
  <1>3. Init => OneHolder /\ RowsKept
    BY DEF OneHolder, RowsKept, Holds, Sweeps, Running
  <1>4. Init => OneRevisionPerDecision /\ RevisionsWithinLimit
    BY DEF OneRevisionPerDecision, RevisionsWithinLimit
  <1>5. QED
    BY <1>1, <1>2, <1>3, <1>4 DEF IInv

-----------------------------------------------------------------------------
(* What the steps of a thread do, with their choices named.                 *)

\* A decision leaves a status that is not "pending"; one that touches the design
\* approves or rejects it.
LEMMA VerdictTypes ==
  ASSUME TypeOK, NEW d \in Decisions, Decide(d)
  PROVE  /\ VerdictStatus[verdict[d]] \in {"approved", "rejected", "expired"}
         /\ verdict[d] # "expire" => VerdictStatus[verdict[d]] \in {"approved", "rejected"}
  <1>1. verdict[d] \in {"approve", "reject", "expire"}
    BY DesignAssumption DEF TypeOK, Verdicts, Decide
  <1>2. QED
    BY <1>1 DEF VerdictStatus

\* A decision is written.
Decided(d) ==
    /\ \E s \in {"approved", "rejected", "expired"} :
          itemStatus' = [itemStatus EXCEPT ![opened[d]] = s]
    /\ assetStatus' \in {assetStatus, "approved", "rejected"}
    /\ verdict' = [verdict EXCEPT ![d] = "none"]
    /\ opened' = [opened EXCEPT ![d] = None]
    /\ lastWord' = "verdict"
    /\ UNCHANGED <<deployment, revision, replaces, shows, assetText, jobStatus,
                   revises, late, removed, handing, tasks, sent, at, on, saw,
                   crashes, redeliveries>>

\* Deciding.
LEMMA DecideEffect ==
  ASSUME TypeOK, JobsAdmitted, NEW d \in Decisions, Decide(d)
  PROVE  Decided(d)
  <1>1. /\ VerdictStatus[verdict[d]] \in {"approved", "rejected", "expired"}
        /\ verdict[d] # "expire" => VerdictStatus[verdict[d]] \in {"approved", "rejected"}
    BY VerdictTypes
  <1>2. Decided(d)
    BY <1>1 DEF Decide, Decided, itemVars, assetVars, jobVars, queueVars, workVars, decisionVars, faultVars
  <1>3. QED
    BY <1>1, <1>2

\* A worker takes the job of a message, or leaves it alone.
Taken(w, j) ==
    /\ at[w] = "idle" /\ j \in tasks
    /\ jobStatus[j] = "queued" \/ (jobStatus[j] = "running" /\ late[j])
    /\ \A v \in Workers : ~Sweeps(v, j)
    /\ tasks' = tasks \ {j}
    /\ jobStatus' = [jobStatus EXCEPT ![j] = "running"]
    /\ late' = [late EXCEPT ![j] = FALSE]
    /\ at' = [at EXCEPT ![w] = "run"]
    /\ on' = [on EXCEPT ![w] = j]
    /\ UNCHANGED <<deployment, itemStatus, revision, replaces, shows, assetStatus,
                   assetText, revises, removed, handing, sent, saw, verdict,
                   opened, crashes, redeliveries, lastWord>>
LeftAlone(w, j) ==
    /\ tasks' = tasks \ {j}
    /\ UNCHANGED <<deployment, itemStatus, revision, replaces, shows, assetStatus,
                   assetText, jobStatus, revises, late, removed, handing, sent, at,
                   on, saw, verdict, opened, crashes, redeliveries, lastWord>>

\* Claiming is one of the two.
LEMMA ClaimEffect ==
  ASSUME TypeOK, JobsAdmitted, NEW w \in Workers, NEW j \in Jobs, Claim(w, j)
  PROVE  \/ Taken(w, j)
         \/ LeftAlone(w, j)
  <1> USE DEF itemVars, assetVars, jobVars, queueVars, workVars, decisionVars, faultVars
  <1>1. QED
    BY SMTT(30) DEF Claim, Claimable, Goto, Taken, LeftAlone, Locked, Sweeps

\* The sweep locks a late open job.
Swept(w, j) ==
    /\ at[w] = "idle" /\ jobStatus[j] \in Open /\ late[j]
    /\ \A v \in Workers : ~Sweeps(v, j)
    /\ on' = [on EXCEPT ![w] = j]
    /\ saw' \in [Workers -> BOOLEAN]
    /\ at' = [at EXCEPT ![w] = "sweep"]
    /\ UNCHANGED <<deployment, itemStatus, revision, replaces, shows, assetStatus,
                   assetText, jobStatus, revises, late, removed, handing, tasks,
                   sent, verdict, opened, crashes, redeliveries, lastWord>>

\* The sweep's look.
LEMMA SweepLookEffect ==
  ASSUME TypeOK, JobsAdmitted, NEW w \in Workers, NEW j \in Jobs, SweepLook(w, j)
  PROVE  Swept(w, j)
  <1>1. OpenProposal \in BOOLEAN
    BY DEF OpenProposal
  <1>2. saw' = [saw EXCEPT ![w] = OpenProposal]
    BY DEF SweepLook
  <1>3. saw' \in [Workers -> BOOLEAN]
    BY <1>1, <1>2 DEF TypeOK
  <1>4. QED
    BY <1>3, SMTT(30) DEF SweepLook, Sweepable, Goto, Swept, Locked, Sweeps, itemVars, assetVars, jobVars, queueVars, workVars, decisionVars, faultVars

\* A run queues its card.
Saved(w, i) ==
    /\ at[w] = "run"
    /\ on[w] \in Jobs
    /\ itemStatus[i] = "none"
    /\ itemStatus' = [itemStatus EXCEPT ![i] = "pending"]
    /\ revision' = [revision EXCEPT ![i] = revision[revises[on[w]]] + 1]
    /\ replaces' = [replaces EXCEPT ![i] = revises[on[w]]]
    /\ shows' = [shows EXCEPT ![i] = i]
    /\ assetText' = i
    /\ assetStatus' \in {assetStatus, "draft"}
    /\ at' = [at EXCEPT ![w] = "saved"]
    /\ UNCHANGED <<deployment, jobStatus, revises, late, removed, handing, tasks,
                   sent, on, saw, verdict, opened, crashes, redeliveries, lastWord>>

\* Saving a revision.
LEMMA SaveEffect ==
  ASSUME TypeOK, JobsAdmitted, NEW w \in Workers, NEW i \in Items, Save(w, i)
  PROVE  Saved(w, i)
  <1> USE DEF itemVars, assetVars, jobVars, queueVars, workVars, decisionVars, faultVars
  <1>1. on[w] \in Jobs
    BY DEF TypeOK, JobsAdmitted, Save
  <1>2. QED
    BY <1>1, SMTT(30) DEF Save, QueueRevision, NextItem, Goto, Saved

\* A run that succeeded finds its job running, or given up on.
Ready(w) ==
    /\ at[w] = "saved" /\ jobStatus[on[w]] = "running"
    /\ at' = [at EXCEPT ![w] = "finish"]
    /\ UNCHANGED <<deployment, itemStatus, revision, replaces, shows, assetStatus,
                   assetText, jobStatus, revises, late, removed, handing, tasks,
                   sent, on, saw, verdict, opened, crashes, redeliveries, lastWord>>
Discarded(w) ==
    /\ at[w] = "saved" /\ jobStatus[on[w]] # "running"
    /\ on[w] \in Jobs
    /\ removed' = [removed EXCEPT ![on[w]] = TRUE]
    /\ at' = [at EXCEPT ![w] = "idle"]
    /\ on' = [on EXCEPT ![w] = None]
    /\ saw' = [saw EXCEPT ![w] = FALSE]
    /\ UNCHANGED <<deployment, itemStatus, revision, replaces, shows, assetStatus,
                   assetText, jobStatus, revises, late, handing, tasks, sent,
                   verdict, opened, crashes, redeliveries, lastWord>>

\* The end of a run that succeeded.
LEMMA FinishLookEffect ==
  ASSUME TypeOK, JobsAdmitted, NEW w \in Workers, FinishLook(w)
  PROVE  \/ Ready(w)
         \/ Discarded(w)
  <1> USE DEF itemVars, assetVars, jobVars, queueVars, workVars, decisionVars, faultVars
  <1>1. on[w] \in Jobs
    BY DEF TypeOK, JobsAdmitted, FinishLook
  <1>2. QED
    BY <1>1, SMTT(30) DEF FinishLook, Goto, Leave, Ready, Discarded

\* A failed run, or the task's fail_job, looks for an open proposal.
Failing(w) ==
    /\ at[w] \in {"fail", "outside"}
    /\ saw' \in [Workers -> BOOLEAN]
    /\ at' = [at EXCEPT ![w] = "close"]
    /\ UNCHANGED <<deployment, itemStatus, revision, replaces, shows, assetStatus,
                   assetText, jobStatus, revises, late, removed, handing, tasks,
                   sent, on, verdict, opened, crashes, redeliveries, lastWord>>

\* The end of a run that failed.
LEMMA FailLookEffect ==
  ASSUME TypeOK, JobsAdmitted, NEW w \in Workers, FailLook(w)
  PROVE  Failing(w)
  <1>1. OpenProposal \in BOOLEAN
    BY DEF OpenProposal
  <1>2. saw' = [saw EXCEPT ![w] = OpenProposal]
    BY DEF FailLook
  <1>3. saw' \in [Workers -> BOOLEAN]
    BY <1>1, <1>2 DEF TypeOK
  <1>4. QED
    BY <1>3, SMTT(30) DEF FailLook, StillOpen, Goto, Failing, itemVars, assetVars, jobVars, queueVars, workVars, decisionVars, faultVars

\* A job is failed, and its previous version put back or not.
Closed(w) ==
    /\ at[w] = "sweep" \/ (at[w] = "close" /\ \A v \in Workers : ~Sweeps(v, on[w]))
    /\ on[w] \in Jobs
    /\ jobStatus' = [jobStatus EXCEPT ![on[w]] = "failed"]
    /\ at' = [at EXCEPT ![w] = "idle"]
    /\ on' = [on EXCEPT ![w] = None]
    /\ saw' = [saw EXCEPT ![w] = FALSE]
    /\ UNCHANGED <<deployment, itemStatus, revision, replaces, shows, assetStatus,
                   assetText, revises, late, removed, handing, tasks, sent,
                   verdict, opened, crashes, redeliveries, lastWord>>
PutBack(w, i) ==
    /\ at[w] = "sweep" \/ (at[w] = "close" /\ \A v \in Workers : ~Sweeps(v, on[w]))
    /\ on[w] \in Jobs
    /\ jobStatus' = [jobStatus EXCEPT ![on[w]] = "failed"]
    /\ itemStatus[i] = "none"
    /\ itemStatus' = [itemStatus EXCEPT ![i] = "pending"]
    /\ revision' = [revision EXCEPT ![i] = revision[revises[on[w]]] + 1]
    /\ replaces' = [replaces EXCEPT ![i] = revises[on[w]]]
    /\ shows' = [shows EXCEPT ![i] = shows[revises[on[w]]]]
    /\ at' = [at EXCEPT ![w] = "idle"]
    /\ on' = [on EXCEPT ![w] = None]
    /\ saw' = [saw EXCEPT ![w] = FALSE]
    /\ UNCHANGED <<deployment, assetStatus, assetText, revises, late, removed,
                   handing, tasks, sent, verdict, opened, crashes, redeliveries,
                   lastWord>>

\* Closing a job.
LEMMA CloseEffect ==
  ASSUME TypeOK, JobsAdmitted, NEW w \in Workers, Close(w)
  PROVE  \/ Closed(w)
         \/ \E i \in Items : PutBack(w, i)
  <1> USE DEF itemVars, assetVars, jobVars, queueVars, workVars, decisionVars, faultVars
  <1>1. on[w] \in Jobs
    BY DEF TypeOK, JobsAdmitted, Close
  <1>2. QED
    BY <1>1, SMTT(30) DEF Close, QueueRevision, NextItem, Goto, Leave, Closed, PutBack, Locked, Sweeps

\* A worker dies alone, or with everything in its process.
Died(w) ==
    /\ at[w] # "idle" /\ deployment = "celery"
    /\ crashes' = crashes + 1
    /\ at' = [at EXCEPT ![w] = "idle"]
    /\ on' = [on EXCEPT ![w] = None]
    /\ saw' = [saw EXCEPT ![w] = FALSE]
    /\ UNCHANGED <<deployment, itemStatus, revision, replaces, shows, assetStatus,
                   assetText, jobStatus, revises, late, removed, handing, tasks,
                   sent, verdict, opened, redeliveries, lastWord>>
AllDied(w) ==
    /\ deployment = "threads"
    /\ crashes' = crashes + 1
    /\ at' = [v \in Workers |-> "idle"]
    /\ on' = [v \in Workers |-> None]
    /\ saw' = [v \in Workers |-> FALSE]
    /\ handing' = {} /\ tasks' = {}
    /\ UNCHANGED <<deployment, itemStatus, revision, replaces, shows, assetStatus,
                   assetText, jobStatus, revises, late, removed, sent, verdict,
                   opened, redeliveries, lastWord>>

\* A death.
LEMMA CrashEffect ==
  ASSUME TypeOK, JobsAdmitted, NEW w \in Workers, Crash(w)
  PROVE  \/ Died(w)
         \/ AllDied(w)
  <1> USE DEF itemVars, assetVars, jobVars, queueVars, workVars, decisionVars, faultVars
  <1>1. QED
    BY SMTT(30) DEF Crash, Goto, Leave, Died, AllDied

-----------------------------------------------------------------------------
(* The invariant.                                                           *)

\* Types are preserved by every step; that what is revised is a card comes from
\* CardsRevised and JobsAdmitted.
LEMMA TypeStep ==
  ASSUME TypeOK, JobsAdmitted, CardsRevised, [Next]_vars PROVE TypeOK'
  <1> USE DesignAssumption DEF TypeOK, JobsAdmitted, ItemStatuses, JobStatuses, Labels, Verdicts,
      Items, Jobs, None
  <1>1. ASSUME NEW i \in Items, NEW j \in Jobs, RequestChanges(i, j) PROVE TypeOK'
    BY SMTT(60), <1>1 DEF RequestChanges, Revisable, Pending, NextJob, itemVars, assetVars, jobVars, queueVars, workVars, decisionVars, faultVars
  <1>2. ASSUME NEW d \in Decisions, NEW i \in Items, NEW v \in Kinds, OpenCard(d, i, v) PROVE TypeOK'
    BY <1>2 DEF OpenCard, Pending, itemVars, assetVars, jobVars, queueVars, workVars, decisionVars, faultVars
  <1>3. ASSUME NEW d \in Decisions, Decide(d) PROVE TypeOK'
    <2>1. CASE Decided(d)
      <3>1. itemStatus' \in [Items -> ItemStatuses]
        <4>1. PICK s \in {"approved", "rejected", "expired"} :
                itemStatus' = [itemStatus EXCEPT ![opened[d]] = s]
          BY <2>1 DEF Decided
        <4>2. s \in ItemStatuses
          BY <4>1
        <4>3. itemStatus \in [Items -> ItemStatuses]
          OBVIOUS
        <4> HIDE DEF ItemStatuses, Items, TypeOK
        <4>4. QED
          BY <4>1, <4>2, <4>3
      <3>2. /\ verdict' \in [Decisions -> Verdicts]
            /\ opened' \in [Decisions -> Items \cup {None}]
            /\ assetStatus' \in {"draft", "approved", "rejected"}
            /\ lastWord' \in {"none", "changes", "verdict"}
        BY <2>1 DEF Decided
      <3>3. QED
        BY <2>1, <3>1, <3>2 DEF Decided
    <2>2. QED
      BY <1>3, <2>1, DecideEffect
  <1>4. ASSUME NEW j \in Jobs, Dispatch(j) PROVE TypeOK'
    BY <1>4 DEF Dispatch, itemVars, assetVars, jobVars, queueVars, workVars, decisionVars, faultVars
  <1>5. ASSUME NEW j \in Jobs, Redeliver(j) PROVE TypeOK'
    BY <1>5 DEF Redeliver, itemVars, assetVars, jobVars, queueVars, workVars, decisionVars, faultVars
  <1>6. ASSUME NEW j \in Jobs, GetLate(j) PROVE TypeOK'
    BY <1>6 DEF GetLate, itemVars, assetVars, jobVars, queueVars, workVars, decisionVars, faultVars
  <1>7. ASSUME NEW w \in Workers, NEW j \in Jobs, DispatchFails(w, j) PROVE TypeOK'
    BY <1>7 DEF DispatchFails, Goto, itemVars, assetVars, jobVars, queueVars, workVars, decisionVars, faultVars
  <1>8. ASSUME NEW w \in Workers, NEW j \in Jobs, Claim(w, j) PROVE TypeOK'
    <2>1. CASE Taken(w, j)
      BY <2>1, SMTT(30) DEF Taken
    <2>2. CASE LeftAlone(w, j)
      BY <2>2, SMTT(30) DEF LeftAlone
    <2>3. QED
      BY <1>8, <2>1, <2>2, ClaimEffect
  <1>9. ASSUME NEW w \in Workers, NEW j \in Jobs, SweepLook(w, j) PROVE TypeOK'
    <2>1. CASE Swept(w, j)
      BY <2>1, SMTT(30) DEF Swept
    <2>2. QED
      BY <1>9, <2>1, SweepLookEffect
  <1>10. ASSUME NEW w \in Workers, NEW i \in Items, Save(w, i) PROVE TypeOK'
    <2>1. CASE Saved(w, i)
      BY <2>1, SMTT(30) DEF Saved
    <2>2. QED
      BY <1>10, <2>1, SaveEffect
  <1>11. ASSUME NEW w \in Workers, NEW label \in {"fail", "outside"}, Stumble(w, label) PROVE TypeOK'
    BY <1>11 DEF Stumble, Goto, itemVars, assetVars, jobVars, queueVars, workVars, decisionVars, faultVars
  <1>12. ASSUME NEW w \in Workers, FinishLook(w) PROVE TypeOK'
    <2>1. CASE Ready(w)
      BY <2>1, SMTT(30) DEF Ready
    <2>2. CASE Discarded(w)
      BY <2>2, SMTT(30) DEF Discarded
    <2>3. QED
      BY <1>12, <2>1, <2>2, FinishLookEffect
  <1>13. ASSUME NEW w \in Workers, FinishWrite(w) PROVE TypeOK'
    BY <1>13 DEF FinishWrite, Locked, Leave, Goto, itemVars, assetVars, jobVars, queueVars, workVars, decisionVars, faultVars
  <1>14. ASSUME NEW w \in Workers, FailLook(w) PROVE TypeOK'
    <2>1. CASE Failing(w)
      BY <2>1, SMTT(30) DEF Failing
    <2>2. QED
      BY <1>14, <2>1, FailLookEffect
  <1>15. ASSUME NEW w \in Workers, FailIgnored(w) PROVE TypeOK'
    BY <1>15 DEF FailIgnored, StillOpen, Leave, Goto, itemVars, assetVars, jobVars, queueVars, workVars, decisionVars, faultVars
  <1>16. ASSUME NEW w \in Workers, Close(w) PROVE TypeOK'
    <2>1. CASE Closed(w)
      BY <2>1, SMTT(30) DEF Closed
    <2>2. ASSUME NEW i \in Items, PutBack(w, i) PROVE TypeOK'
      BY <2>2, SMTT(90) DEF PutBack
    <2>3. QED
      BY <1>16, <2>1, <2>2, CloseEffect
  <1>17. ASSUME NEW w \in Workers, Crash(w) PROVE TypeOK'
    <2>1. CASE Died(w)
      BY <2>1, SMTT(30) DEF Died
    <2>2. CASE AllDied(w)
      BY <2>2, SMTT(30) DEF AllDied
    <2>3. QED
      BY <1>17, <2>1, <2>2, CrashEffect
  <1>18. CASE UNCHANGED vars
    BY <1>18 DEF vars, itemVars, assetVars, jobVars, queueVars, workVars, decisionVars, faultVars
  <1> HIDE DEF TypeOK, JobsAdmitted, ItemStatuses, JobStatuses, Labels, Verdicts,
      Items, Jobs, None
  <1>19. QED
    BY <1>1, <1>2, <1>3, <1>4, <1>5, <1>6, <1>7, <1>8, <1>9, <1>10, <1>11, <1>12, <1>13, <1>14, <1>15, <1>16, <1>17, <1>18 DEF Next, Run

\* Admission comes first: no step gives anybody a job that does not exist.
LEMMA AdmittedStep ==
  ASSUME TypeOK, JobsAdmitted, CardsRevised, [Next]_vars PROVE JobsAdmitted'
  <1> USE DesignAssumption DEF TypeOK, JobsAdmitted, Labels, Open, Items, Jobs, None
  <1>1. ASSUME NEW i \in Items, NEW j \in Jobs, RequestChanges(i, j) PROVE JobsAdmitted'
    BY <1>1 DEF RequestChanges, Revisable, Pending, NextJob, itemVars, assetVars, jobVars, queueVars, workVars, decisionVars, faultVars
  <1>2. ASSUME NEW d \in Decisions, NEW i \in Items, NEW v \in Kinds, OpenCard(d, i, v) PROVE JobsAdmitted'
    BY <1>2 DEF OpenCard, Pending, itemVars, assetVars, jobVars, queueVars, workVars, decisionVars, faultVars
  <1>3. ASSUME NEW d \in Decisions, Decide(d) PROVE JobsAdmitted'
    <2>1. CASE Decided(d)
      BY <2>1, SMTT(30) DEF Decided
    <2>2. QED
      BY <1>3, <2>1, DecideEffect
  <1>4. ASSUME NEW j \in Jobs, Dispatch(j) PROVE JobsAdmitted'
    BY <1>4 DEF Dispatch, itemVars, assetVars, jobVars, queueVars, workVars, decisionVars, faultVars
  <1>5. ASSUME NEW j \in Jobs, Redeliver(j) PROVE JobsAdmitted'
    BY <1>5 DEF Redeliver, itemVars, assetVars, jobVars, queueVars, workVars, decisionVars, faultVars
  <1>6. ASSUME NEW j \in Jobs, GetLate(j) PROVE JobsAdmitted'
    BY <1>6 DEF GetLate, itemVars, assetVars, jobVars, queueVars, workVars, decisionVars, faultVars
  <1>7. ASSUME NEW w \in Workers, NEW j \in Jobs, DispatchFails(w, j) PROVE JobsAdmitted'
    BY <1>7 DEF DispatchFails, Goto, itemVars, assetVars, jobVars, queueVars, workVars, decisionVars, faultVars
  <1>8. ASSUME NEW w \in Workers, NEW j \in Jobs, Claim(w, j) PROVE JobsAdmitted'
    <2>1. CASE Taken(w, j)
      BY <2>1, SMTT(30) DEF Taken
    <2>2. CASE LeftAlone(w, j)
      BY <2>2, SMTT(30) DEF LeftAlone
    <2>3. QED
      BY <1>8, <2>1, <2>2, ClaimEffect
  <1>9. ASSUME NEW w \in Workers, NEW j \in Jobs, SweepLook(w, j) PROVE JobsAdmitted'
    <2>1. CASE Swept(w, j)
      BY <2>1, SMTT(30) DEF Swept
    <2>2. QED
      BY <1>9, <2>1, SweepLookEffect
  <1>10. ASSUME NEW w \in Workers, NEW i \in Items, Save(w, i) PROVE JobsAdmitted'
    <2>1. CASE Saved(w, i)
      BY <2>1, SMTT(30) DEF Saved
    <2>2. QED
      BY <1>10, <2>1, SaveEffect
  <1>11. ASSUME NEW w \in Workers, NEW label \in {"fail", "outside"}, Stumble(w, label) PROVE JobsAdmitted'
    BY <1>11 DEF Stumble, Goto, itemVars, assetVars, jobVars, queueVars, workVars, decisionVars, faultVars
  <1>12. ASSUME NEW w \in Workers, FinishLook(w) PROVE JobsAdmitted'
    <2>1. CASE Ready(w)
      BY <2>1, SMTT(30) DEF Ready
    <2>2. CASE Discarded(w)
      BY <2>2, SMTT(30) DEF Discarded
    <2>3. QED
      BY <1>12, <2>1, <2>2, FinishLookEffect
  <1>13. ASSUME NEW w \in Workers, FinishWrite(w) PROVE JobsAdmitted'
    BY <1>13 DEF FinishWrite, Locked, Leave, Goto, itemVars, assetVars, jobVars, queueVars, workVars, decisionVars, faultVars
  <1>14. ASSUME NEW w \in Workers, FailLook(w) PROVE JobsAdmitted'
    <2>1. CASE Failing(w)
      BY <2>1, SMTT(30) DEF Failing
    <2>2. QED
      BY <1>14, <2>1, FailLookEffect
  <1>15. ASSUME NEW w \in Workers, FailIgnored(w) PROVE JobsAdmitted'
    BY <1>15 DEF FailIgnored, StillOpen, Leave, Goto, itemVars, assetVars, jobVars, queueVars, workVars, decisionVars, faultVars
  <1>16. ASSUME NEW w \in Workers, Close(w) PROVE JobsAdmitted'
    <2>1. CASE Closed(w)
      BY <2>1, SMTT(30) DEF Closed
    <2>2. ASSUME NEW i \in Items, PutBack(w, i) PROVE JobsAdmitted'
      BY <2>2, SMTT(30) DEF PutBack
    <2>3. QED
      BY <1>16, <2>1, <2>2, CloseEffect
  <1>17. ASSUME NEW w \in Workers, Crash(w) PROVE JobsAdmitted'
    <2>1. CASE Died(w)
      BY <2>1, SMTT(30) DEF Died
    <2>2. CASE AllDied(w)
      <3>1. \A v \in Workers : at'[v] = "idle" /\ on'[v] = None
        BY <2>2 DEF AllDied
      <3>2. UNCHANGED <<jobStatus, revises, sent>> /\ handing' = {} /\ tasks' = {}
        BY <2>2 DEF AllDied
      <3>3. QED
        BY <3>1, <3>2
    <2>3. QED
      BY <1>17, <2>1, <2>2, CrashEffect
  <1>18. CASE UNCHANGED vars
    BY <1>18 DEF vars, itemVars, assetVars, jobVars, queueVars, workVars, decisionVars, faultVars
  <1> HIDE DEF TypeOK, JobsAdmitted, Labels, Open, Items, Jobs, None
  <1>19. QED
    BY <1>1, <1>2, <1>3, <1>4, <1>5, <1>6, <1>7, <1>8, <1>9, <1>10, <1>11, <1>12, <1>13, <1>14, <1>15, <1>16, <1>17, <1>18 DEF Next, Run

\* Only a pending card with revisions to spare is revised, and it does not come
\* back: no card is queued twice and no decision makes one pending.
LEMMA CardsStep ==
  ASSUME TypeOK, JobsAdmitted, CardsRevised, OneRevisionPerDecision, RevisionsWithinLimit, [Next]_vars PROVE (CardsRevised /\ OneRevisionPerDecision /\ RevisionsWithinLimit)'
  <1> USE DesignAssumption DEF TypeOK, JobsAdmitted, CardsRevised, OneRevisionPerDecision, RevisionsWithinLimit,
      ItemStatuses, Labels, Verdicts, Items, Jobs, None
  <1>1. ASSUME NEW i \in Items, NEW j \in Jobs, RequestChanges(i, j) PROVE (CardsRevised /\ OneRevisionPerDecision /\ RevisionsWithinLimit)'
    BY <1>1 DEF RequestChanges, Revisable, Pending, NextJob, itemVars, assetVars, jobVars, queueVars, workVars, decisionVars, faultVars
  <1>2. ASSUME NEW d \in Decisions, NEW i \in Items, NEW v \in Kinds, OpenCard(d, i, v) PROVE (CardsRevised /\ OneRevisionPerDecision /\ RevisionsWithinLimit)'
    BY <1>2 DEF OpenCard, Pending, itemVars, assetVars, jobVars, queueVars, workVars, decisionVars, faultVars
  <1>3. ASSUME NEW d \in Decisions, Decide(d) PROVE (CardsRevised /\ OneRevisionPerDecision /\ RevisionsWithinLimit)'
    <2>1. CASE Decided(d)
      BY <2>1, SMTT(30) DEF Decided
    <2>2. QED
      BY <1>3, <2>1, DecideEffect
  <1>4. ASSUME NEW j \in Jobs, Dispatch(j) PROVE (CardsRevised /\ OneRevisionPerDecision /\ RevisionsWithinLimit)'
    BY <1>4 DEF Dispatch, itemVars, assetVars, jobVars, queueVars, workVars, decisionVars, faultVars
  <1>5. ASSUME NEW j \in Jobs, Redeliver(j) PROVE (CardsRevised /\ OneRevisionPerDecision /\ RevisionsWithinLimit)'
    BY <1>5 DEF Redeliver, itemVars, assetVars, jobVars, queueVars, workVars, decisionVars, faultVars
  <1>6. ASSUME NEW j \in Jobs, GetLate(j) PROVE (CardsRevised /\ OneRevisionPerDecision /\ RevisionsWithinLimit)'
    BY <1>6 DEF GetLate, itemVars, assetVars, jobVars, queueVars, workVars, decisionVars, faultVars
  <1>7. ASSUME NEW w \in Workers, NEW j \in Jobs, DispatchFails(w, j) PROVE (CardsRevised /\ OneRevisionPerDecision /\ RevisionsWithinLimit)'
    BY <1>7 DEF DispatchFails, Goto, itemVars, assetVars, jobVars, queueVars, workVars, decisionVars, faultVars
  <1>8. ASSUME NEW w \in Workers, NEW j \in Jobs, Claim(w, j) PROVE (CardsRevised /\ OneRevisionPerDecision /\ RevisionsWithinLimit)'
    <2>1. CASE Taken(w, j)
      BY <2>1, SMTT(30) DEF Taken
    <2>2. CASE LeftAlone(w, j)
      BY <2>2, SMTT(30) DEF LeftAlone
    <2>3. QED
      BY <1>8, <2>1, <2>2, ClaimEffect
  <1>9. ASSUME NEW w \in Workers, NEW j \in Jobs, SweepLook(w, j) PROVE (CardsRevised /\ OneRevisionPerDecision /\ RevisionsWithinLimit)'
    <2>1. CASE Swept(w, j)
      BY <2>1, SMTT(30) DEF Swept
    <2>2. QED
      BY <1>9, <2>1, SweepLookEffect
  <1>10. ASSUME NEW w \in Workers, NEW i \in Items, Save(w, i) PROVE (CardsRevised /\ OneRevisionPerDecision /\ RevisionsWithinLimit)'
    <2>1. CASE Saved(w, i)
      BY <2>1, SMTT(30) DEF Saved
    <2>2. QED
      BY <1>10, <2>1, SaveEffect
  <1>11. ASSUME NEW w \in Workers, NEW label \in {"fail", "outside"}, Stumble(w, label) PROVE (CardsRevised /\ OneRevisionPerDecision /\ RevisionsWithinLimit)'
    BY <1>11 DEF Stumble, Goto, itemVars, assetVars, jobVars, queueVars, workVars, decisionVars, faultVars
  <1>12. ASSUME NEW w \in Workers, FinishLook(w) PROVE (CardsRevised /\ OneRevisionPerDecision /\ RevisionsWithinLimit)'
    <2>1. CASE Ready(w)
      BY <2>1, SMTT(30) DEF Ready
    <2>2. CASE Discarded(w)
      BY <2>2, SMTT(30) DEF Discarded
    <2>3. QED
      BY <1>12, <2>1, <2>2, FinishLookEffect
  <1>13. ASSUME NEW w \in Workers, FinishWrite(w) PROVE (CardsRevised /\ OneRevisionPerDecision /\ RevisionsWithinLimit)'
    BY <1>13 DEF FinishWrite, Locked, Leave, Goto, itemVars, assetVars, jobVars, queueVars, workVars, decisionVars, faultVars
  <1>14. ASSUME NEW w \in Workers, FailLook(w) PROVE (CardsRevised /\ OneRevisionPerDecision /\ RevisionsWithinLimit)'
    <2>1. CASE Failing(w)
      BY <2>1, SMTT(30) DEF Failing
    <2>2. QED
      BY <1>14, <2>1, FailLookEffect
  <1>15. ASSUME NEW w \in Workers, FailIgnored(w) PROVE (CardsRevised /\ OneRevisionPerDecision /\ RevisionsWithinLimit)'
    BY <1>15 DEF FailIgnored, StillOpen, Leave, Goto, itemVars, assetVars, jobVars, queueVars, workVars, decisionVars, faultVars
  <1>16. ASSUME NEW w \in Workers, Close(w) PROVE (CardsRevised /\ OneRevisionPerDecision /\ RevisionsWithinLimit)'
    <2>1. CASE Closed(w)
      BY <2>1, SMTT(30) DEF Closed
    <2>2. ASSUME NEW i \in Items, PutBack(w, i) PROVE (CardsRevised /\ OneRevisionPerDecision /\ RevisionsWithinLimit)'
      BY <2>2, SMTT(30) DEF PutBack
    <2>3. QED
      BY <1>16, <2>1, <2>2, CloseEffect
  <1>17. ASSUME NEW w \in Workers, Crash(w) PROVE (CardsRevised /\ OneRevisionPerDecision /\ RevisionsWithinLimit)'
    <2>1. CASE Died(w)
      BY <2>1, SMTT(30) DEF Died
    <2>2. CASE AllDied(w)
      BY <2>2, SMTT(30) DEF AllDied
    <2>3. QED
      BY <1>17, <2>1, <2>2, CrashEffect
  <1>18. CASE UNCHANGED vars
    BY <1>18 DEF vars, itemVars, assetVars, jobVars, queueVars, workVars, decisionVars, faultVars
  <1> HIDE DEF TypeOK, JobsAdmitted, CardsRevised, OneRevisionPerDecision, RevisionsWithinLimit,
      ItemStatuses, Labels, Verdicts, Items, Jobs, None
  <1>19. QED
    BY <1>1, <1>2, <1>3, <1>4, <1>5, <1>6, <1>7, <1>8, <1>9, <1>10, <1>11, <1>12, <1>13, <1>14, <1>15, <1>16, <1>17, <1>18 DEF Next, Run

\* A job is taken only when nobody has it: a second delivery finds it running,
\* and a late one has lost its worker or, without time limits, its message.
LEMMA HolderStep ==
  ASSUME TypeOK, JobsAdmitted, OneHolder, RowsKept, [Next]_vars PROVE OneHolder'
  <1> USE DesignAssumption DEF TypeOK, JobsAdmitted, OneHolder, RowsKept, Holds, Sweeps, Running, Labels, Open,
      Items, Jobs, None
  <1>1. ASSUME NEW i \in Items, NEW j \in Jobs, RequestChanges(i, j) PROVE OneHolder'
    BY <1>1 DEF RequestChanges, Revisable, Pending, NextJob, itemVars, assetVars, jobVars, queueVars, workVars, decisionVars, faultVars
  <1>2. ASSUME NEW d \in Decisions, NEW i \in Items, NEW v \in Kinds, OpenCard(d, i, v) PROVE OneHolder'
    BY <1>2 DEF OpenCard, Pending, itemVars, assetVars, jobVars, queueVars, workVars, decisionVars, faultVars
  <1>3. ASSUME NEW d \in Decisions, Decide(d) PROVE OneHolder'
    <2>1. CASE Decided(d)
      BY <2>1, SMTT(30) DEF Decided
    <2>2. QED
      BY <1>3, <2>1, DecideEffect
  <1>4. ASSUME NEW j \in Jobs, Dispatch(j) PROVE OneHolder'
    BY <1>4 DEF Dispatch, itemVars, assetVars, jobVars, queueVars, workVars, decisionVars, faultVars
  <1>5. ASSUME NEW j \in Jobs, Redeliver(j) PROVE OneHolder'
    BY <1>5 DEF Redeliver, itemVars, assetVars, jobVars, queueVars, workVars, decisionVars, faultVars
  <1>6. ASSUME NEW j \in Jobs, GetLate(j) PROVE OneHolder'
    BY <1>6 DEF GetLate, itemVars, assetVars, jobVars, queueVars, workVars, decisionVars, faultVars
  <1>7. ASSUME NEW w \in Workers, NEW j \in Jobs, DispatchFails(w, j) PROVE OneHolder'
    BY SMTT(60), <1>7 DEF DispatchFails, Goto, itemVars, assetVars, jobVars, queueVars, workVars, decisionVars, faultVars
  <1>8. ASSUME NEW w \in Workers, NEW j \in Jobs, Claim(w, j) PROVE OneHolder'
    <2>1. CASE Taken(w, j)
      BY <2>1, SMTT(30) DEF Taken
    <2>2. CASE LeftAlone(w, j)
      BY <2>2, SMTT(30) DEF LeftAlone
    <2>3. QED
      BY <1>8, <2>1, <2>2, ClaimEffect
  <1>9. ASSUME NEW w \in Workers, NEW j \in Jobs, SweepLook(w, j) PROVE OneHolder'
    <2>1. CASE Swept(w, j)
      BY <2>1, SMTT(30) DEF Swept
    <2>2. QED
      BY <1>9, <2>1, SweepLookEffect
  <1>10. ASSUME NEW w \in Workers, NEW i \in Items, Save(w, i) PROVE OneHolder'
    <2>1. CASE Saved(w, i)
      BY <2>1, SMTT(30) DEF Saved
    <2>2. QED
      BY <1>10, <2>1, SaveEffect
  <1>11. ASSUME NEW w \in Workers, NEW label \in {"fail", "outside"}, Stumble(w, label) PROVE OneHolder'
    BY <1>11 DEF Stumble, Goto, itemVars, assetVars, jobVars, queueVars, workVars, decisionVars, faultVars
  <1>12. ASSUME NEW w \in Workers, FinishLook(w) PROVE OneHolder'
    <2>1. CASE Ready(w)
      BY <2>1, SMTT(30) DEF Ready
    <2>2. CASE Discarded(w)
      BY <2>2, SMTT(30) DEF Discarded
    <2>3. QED
      BY <1>12, <2>1, <2>2, FinishLookEffect
  <1>13. ASSUME NEW w \in Workers, FinishWrite(w) PROVE OneHolder'
    BY <1>13 DEF FinishWrite, Locked, Leave, Goto, itemVars, assetVars, jobVars, queueVars, workVars, decisionVars, faultVars
  <1>14. ASSUME NEW w \in Workers, FailLook(w) PROVE OneHolder'
    <2>1. CASE Failing(w)
      BY <2>1, SMTT(30) DEF Failing
    <2>2. QED
      BY <1>14, <2>1, FailLookEffect
  <1>15. ASSUME NEW w \in Workers, FailIgnored(w) PROVE OneHolder'
    BY <1>15 DEF FailIgnored, StillOpen, Leave, Goto, itemVars, assetVars, jobVars, queueVars, workVars, decisionVars, faultVars
  <1>16. ASSUME NEW w \in Workers, Close(w) PROVE OneHolder'
    <2>1. CASE Closed(w)
      BY <2>1, SMTT(30) DEF Closed
    <2>2. ASSUME NEW i \in Items, PutBack(w, i) PROVE OneHolder'
      BY <2>2, SMTT(30) DEF PutBack
    <2>3. QED
      BY <1>16, <2>1, <2>2, CloseEffect
  <1>17. ASSUME NEW w \in Workers, Crash(w) PROVE OneHolder'
    <2>1. CASE Died(w)
      BY <2>1, SMTT(30) DEF Died
    <2>2. CASE AllDied(w)
      BY <2>2, SMTT(30) DEF AllDied
    <2>3. QED
      BY <1>17, <2>1, <2>2, CrashEffect
  <1>18. CASE UNCHANGED vars
    BY <1>18 DEF vars, itemVars, assetVars, jobVars, queueVars, workVars, decisionVars, faultVars
  <1> HIDE DEF TypeOK, JobsAdmitted, OneHolder, RowsKept, Holds, Sweeps, Running, Labels, Open,
      Items, Jobs, None
  <1>19. QED
    BY <1>1, <1>2, <1>3, <1>4, <1>5, <1>6, <1>7, <1>8, <1>9, <1>10, <1>11, <1>12, <1>13, <1>14, <1>15, <1>16, <1>17, <1>18 DEF Next, Run

\* The row the sweep has locked stays open until it commits, and a run that is
\* within its time limit keeps its row and its files.
LEMMA RowsStep ==
  ASSUME TypeOK, JobsAdmitted, OneHolder, RowsKept, [Next]_vars PROVE RowsKept'
  <1> USE DesignAssumption DEF TypeOK, JobsAdmitted, OneHolder, RowsKept, Holds, Sweeps, Running, Labels, Open,
      Items, Jobs, None
  <1>1. ASSUME NEW i \in Items, NEW j \in Jobs, RequestChanges(i, j) PROVE RowsKept'
    BY <1>1 DEF RequestChanges, Revisable, Pending, NextJob, itemVars, assetVars, jobVars, queueVars, workVars, decisionVars, faultVars
  <1>2. ASSUME NEW d \in Decisions, NEW i \in Items, NEW v \in Kinds, OpenCard(d, i, v) PROVE RowsKept'
    BY <1>2 DEF OpenCard, Pending, itemVars, assetVars, jobVars, queueVars, workVars, decisionVars, faultVars
  <1>3. ASSUME NEW d \in Decisions, Decide(d) PROVE RowsKept'
    <2>1. CASE Decided(d)
      BY <2>1, SMTT(30) DEF Decided
    <2>2. QED
      BY <1>3, <2>1, DecideEffect
  <1>4. ASSUME NEW j \in Jobs, Dispatch(j) PROVE RowsKept'
    BY <1>4 DEF Dispatch, itemVars, assetVars, jobVars, queueVars, workVars, decisionVars, faultVars
  <1>5. ASSUME NEW j \in Jobs, Redeliver(j) PROVE RowsKept'
    BY <1>5 DEF Redeliver, itemVars, assetVars, jobVars, queueVars, workVars, decisionVars, faultVars
  <1>6. ASSUME NEW j \in Jobs, GetLate(j) PROVE RowsKept'
    BY <1>6 DEF GetLate, itemVars, assetVars, jobVars, queueVars, workVars, decisionVars, faultVars
  <1>7. ASSUME NEW w \in Workers, NEW j \in Jobs, DispatchFails(w, j) PROVE RowsKept'
    BY <1>7 DEF DispatchFails, Goto, itemVars, assetVars, jobVars, queueVars, workVars, decisionVars, faultVars
  <1>8. ASSUME NEW w \in Workers, NEW j \in Jobs, Claim(w, j) PROVE RowsKept'
    <2>1. CASE Taken(w, j)
      BY <2>1, SMTT(30) DEF Taken
    <2>2. CASE LeftAlone(w, j)
      BY <2>2, SMTT(30) DEF LeftAlone
    <2>3. QED
      BY <1>8, <2>1, <2>2, ClaimEffect
  <1>9. ASSUME NEW w \in Workers, NEW j \in Jobs, SweepLook(w, j) PROVE RowsKept'
    <2>1. CASE Swept(w, j)
      BY <2>1, SMTT(30) DEF Swept
    <2>2. QED
      BY <1>9, <2>1, SweepLookEffect
  <1>10. ASSUME NEW w \in Workers, NEW i \in Items, Save(w, i) PROVE RowsKept'
    <2>1. CASE Saved(w, i)
      BY <2>1, SMTT(30) DEF Saved
    <2>2. QED
      BY <1>10, <2>1, SaveEffect
  <1>11. ASSUME NEW w \in Workers, NEW label \in {"fail", "outside"}, Stumble(w, label) PROVE RowsKept'
    BY <1>11 DEF Stumble, Goto, itemVars, assetVars, jobVars, queueVars, workVars, decisionVars, faultVars
  <1>12. ASSUME NEW w \in Workers, FinishLook(w) PROVE RowsKept'
    <2>1. CASE Ready(w)
      BY <2>1, SMTT(30) DEF Ready
    <2>2. CASE Discarded(w)
      BY <2>2, SMTT(30) DEF Discarded
    <2>3. QED
      BY <1>12, <2>1, <2>2, FinishLookEffect
  <1>13. ASSUME NEW w \in Workers, FinishWrite(w) PROVE RowsKept'
    BY <1>13 DEF FinishWrite, Locked, Leave, Goto, itemVars, assetVars, jobVars, queueVars, workVars, decisionVars, faultVars
  <1>14. ASSUME NEW w \in Workers, FailLook(w) PROVE RowsKept'
    <2>1. CASE Failing(w)
      BY <2>1, SMTT(30) DEF Failing
    <2>2. QED
      BY <1>14, <2>1, FailLookEffect
  <1>15. ASSUME NEW w \in Workers, FailIgnored(w) PROVE RowsKept'
    BY <1>15 DEF FailIgnored, StillOpen, Leave, Goto, itemVars, assetVars, jobVars, queueVars, workVars, decisionVars, faultVars
  <1>16. ASSUME NEW w \in Workers, Close(w) PROVE RowsKept'
    <2>1. CASE Closed(w)
      BY <2>1, SMTT(30) DEF Closed
    <2>2. ASSUME NEW i \in Items, PutBack(w, i) PROVE RowsKept'
      BY <2>2, SMTT(30) DEF PutBack
    <2>3. QED
      BY <1>16, <2>1, <2>2, CloseEffect
  <1>17. ASSUME NEW w \in Workers, Crash(w) PROVE RowsKept'
    <2>1. CASE Died(w)
      BY <2>1, SMTT(30) DEF Died
    <2>2. CASE AllDied(w)
      BY <2>2, SMTT(30) DEF AllDied
    <2>3. QED
      BY <1>17, <2>1, <2>2, CrashEffect
  <1>18. CASE UNCHANGED vars
    BY <1>18 DEF vars, itemVars, assetVars, jobVars, queueVars, workVars, decisionVars, faultVars
  <1> HIDE DEF TypeOK, JobsAdmitted, OneHolder, RowsKept, Holds, Sweeps, Running, Labels, Open,
      Items, Jobs, None
  <1>19. QED
    BY <1>1, <1>2, <1>3, <1>4, <1>5, <1>6, <1>7, <1>8, <1>9, <1>10, <1>11, <1>12, <1>13, <1>14, <1>15, <1>16, <1>17, <1>18 DEF Next, Run

\* IInv is inductive.
LEMMA StepPreserves == IInv /\ [Next]_vars => IInv'
  <1> SUFFICES ASSUME IInv, [Next]_vars PROVE IInv'
    OBVIOUS
  <1>1. TypeOK'
    BY TypeStep DEF IInv
  <1>2. JobsAdmitted'
    BY AdmittedStep DEF IInv
  <1>3. (CardsRevised /\ OneRevisionPerDecision /\ RevisionsWithinLimit)'
    BY CardsStep DEF IInv
  <1>4. OneHolder'
    BY HolderStep DEF IInv
  <1>5. RowsKept'
    BY RowsStep DEF IInv
  <1>6. QED
    BY <1>1, <1>2, <1>3, <1>4, <1>5 DEF IInv

\* The invariant behind the safety results holds in every reachable state.
THEOREM Invariance == Spec => []IInv
  <1>1. QED
    BY InitEstablishes, StepPreserves, PTL DEF Spec

-----------------------------------------------------------------------------
(* What follows from it.                                                    *)

\* Every variable keeps its type, whatever the constants.
THEOREM TypeCorrect == Spec => []TypeOK
  <1>1. IInv => TypeOK
    BY DEF IInv
  <1>2. QED
    BY <1>1, Invariance, PTL

\* No two threads ever run the same job (_claim_statement), over any number of
\* second deliveries, deaths and late claims, with time limits or without.
THEOREM RunsAreNotShared == Spec => []OneRunPerJob
  <1>1. IInv => OneRunPerJob
    BY DEF IInv, OneHolder, OneRunPerJob, Holds, Running
  <1>2. QED
    BY <1>1, Invariance, PTL

\* Asking for changes spends one revision on a card, whoever else asks for
\* changes, approves, rejects or expires it at the same time (_lock_pending).
THEOREM RevisionsAreNotRepeated == Spec => []OneRevisionPerDecision
  <1>1. IInv => OneRevisionPerDecision
    BY DEF IInv
  <1>2. QED
    BY <1>1, Invariance, PTL

\* Along every line of cards, previous versions put back included, the count of
\* revisions is kept and stays within creative_max_revisions.
THEOREM RevisionsAreLimited == Spec => []RevisionsWithinLimit
  <1>1. IInv => RevisionsWithinLimit
    BY DEF IInv
  <1>2. QED
    BY <1>1, Invariance, PTL

\* Where time limits are enforced, a card that waits shows a picture that is
\* still stored.
THEOREM PicturesAreKept == Spec => []CardHasItsPicture
  <1>1. IInv => CardHasItsPicture
    BY DEF IInv, RowsKept, CardHasItsPicture, CardHasPicture, PictureGone
  <1>2. QED
    BY <1>1, Invariance, PTL

\* A card that has left the queue stays out of it.
StaysOut == \A k \in Items : itemStatus[k] # "none" /\ ~Pending(k) => ~Pending(k)'

\* Every step keeps it.
LEMMA DecidedStep ==
  ASSUME IInv, [Next]_vars PROVE StaysOut
  <1> USE DesignAssumption DEF IInv, TypeOK, StaysOut, Pending, Items, Jobs, None
  <1>1. ASSUME NEW i \in Items, NEW j \in Jobs, RequestChanges(i, j) PROVE StaysOut
    BY <1>1 DEF RequestChanges, Revisable, NextJob, itemVars, assetVars, jobVars, queueVars, workVars, decisionVars, faultVars
  <1>2. ASSUME NEW d \in Decisions, NEW i \in Items, NEW v \in Kinds, OpenCard(d, i, v) PROVE StaysOut
    BY <1>2 DEF OpenCard, itemVars, assetVars, jobVars, queueVars, workVars, decisionVars, faultVars
  <1>3. ASSUME NEW d \in Decisions, Decide(d) PROVE StaysOut
    <2>1. CASE Decided(d)
      BY <2>1, SMTT(30) DEF Decided
    <2>2. QED
      BY <1>3, <2>1, DecideEffect
  <1>4. ASSUME NEW j \in Jobs, Dispatch(j) PROVE StaysOut
    BY <1>4 DEF Dispatch, itemVars, assetVars, jobVars, queueVars, workVars, decisionVars, faultVars
  <1>5. ASSUME NEW j \in Jobs, Redeliver(j) PROVE StaysOut
    BY <1>5 DEF Redeliver, itemVars, assetVars, jobVars, queueVars, workVars, decisionVars, faultVars
  <1>6. ASSUME NEW j \in Jobs, GetLate(j) PROVE StaysOut
    BY <1>6 DEF GetLate, itemVars, assetVars, jobVars, queueVars, workVars, decisionVars, faultVars
  <1>7. ASSUME NEW w \in Workers, NEW j \in Jobs, DispatchFails(w, j) PROVE StaysOut
    BY <1>7 DEF DispatchFails, Goto, itemVars, assetVars, jobVars, queueVars, workVars, decisionVars, faultVars
  <1>8. ASSUME NEW w \in Workers, NEW j \in Jobs, Claim(w, j) PROVE StaysOut
    <2>1. CASE Taken(w, j)
      BY <2>1, SMTT(30) DEF Taken
    <2>2. CASE LeftAlone(w, j)
      BY <2>2, SMTT(30) DEF LeftAlone
    <2>3. QED
      BY <1>8, <2>1, <2>2, ClaimEffect
  <1>9. ASSUME NEW w \in Workers, NEW j \in Jobs, SweepLook(w, j) PROVE StaysOut
    <2>1. CASE Swept(w, j)
      BY <2>1, SMTT(30) DEF Swept
    <2>2. QED
      BY <1>9, <2>1, SweepLookEffect
  <1>10. ASSUME NEW w \in Workers, NEW i \in Items, Save(w, i) PROVE StaysOut
    <2>1. CASE Saved(w, i)
      BY <2>1, SMTT(30) DEF Saved
    <2>2. QED
      BY <1>10, <2>1, SaveEffect
  <1>11. ASSUME NEW w \in Workers, NEW label \in {"fail", "outside"}, Stumble(w, label) PROVE StaysOut
    BY <1>11 DEF Stumble, Goto, itemVars, assetVars, jobVars, queueVars, workVars, decisionVars, faultVars
  <1>12. ASSUME NEW w \in Workers, FinishLook(w) PROVE StaysOut
    <2>1. CASE Ready(w)
      BY <2>1, SMTT(30) DEF Ready
    <2>2. CASE Discarded(w)
      BY <2>2, SMTT(30) DEF Discarded
    <2>3. QED
      BY <1>12, <2>1, <2>2, FinishLookEffect
  <1>13. ASSUME NEW w \in Workers, FinishWrite(w) PROVE StaysOut
    BY <1>13 DEF FinishWrite, Locked, Leave, Goto, itemVars, assetVars, jobVars, queueVars, workVars, decisionVars, faultVars
  <1>14. ASSUME NEW w \in Workers, FailLook(w) PROVE StaysOut
    <2>1. CASE Failing(w)
      BY <2>1, SMTT(30) DEF Failing
    <2>2. QED
      BY <1>14, <2>1, FailLookEffect
  <1>15. ASSUME NEW w \in Workers, FailIgnored(w) PROVE StaysOut
    BY <1>15 DEF FailIgnored, StillOpen, Leave, Goto, itemVars, assetVars, jobVars, queueVars, workVars, decisionVars, faultVars
  <1>16. ASSUME NEW w \in Workers, Close(w) PROVE StaysOut
    <2>1. CASE Closed(w)
      BY <2>1, SMTT(30) DEF Closed
    <2>2. ASSUME NEW i \in Items, PutBack(w, i) PROVE StaysOut
      BY <2>2, SMTT(30) DEF PutBack
    <2>3. QED
      BY <1>16, <2>1, <2>2, CloseEffect
  <1>17. ASSUME NEW w \in Workers, Crash(w) PROVE StaysOut
    <2>1. CASE Died(w)
      BY <2>1, SMTT(30) DEF Died
    <2>2. CASE AllDied(w)
      BY <2>2, SMTT(30) DEF AllDied
    <2>3. QED
      BY <1>17, <2>1, <2>2, CrashEffect
  <1>18. CASE UNCHANGED vars
    BY <1>18 DEF vars, itemVars, assetVars, jobVars, queueVars, workVars, decisionVars, faultVars
  <1> HIDE DEF IInv, TypeOK, StaysOut, Pending, Items, Jobs, None
  <1>19. QED
    BY <1>1, <1>2, <1>3, <1>4, <1>5, <1>6, <1>7, <1>8, <1>9, <1>10, <1>11, <1>12, <1>13, <1>14, <1>15, <1>16, <1>17, <1>18 DEF Next, Run

\* A decided, superseded or expired card is never open again.
THEOREM DecisionsStand == Spec => DecidedStaysDecided
  <1>1. IInv /\ [Next]_vars =>
          [\A i \in Items : itemStatus[i] # "none" /\ ~Pending(i) => ~Pending(i)']_vars
    BY DecidedStep DEF StaysOut
  <1>2. QED
    BY <1>1, Invariance, PTL DEF Spec, DecidedStaysDecided

\* A job's outcome stays.
StaysSettled ==
    \A k \in Jobs :
        /\ jobStatus[k] = "succeeded" => jobStatus'[k] = "succeeded"
        /\ jobStatus[k] = "failed" /\ deployment = "celery" => jobStatus'[k] = "failed"

\* Every step keeps it.
LEMMA OutcomeStep ==
  ASSUME IInv, [Next]_vars PROVE StaysSettled
  <1> USE DesignAssumption DEF IInv, TypeOK, JobsAdmitted, OneHolder, RowsKept, Holds, Sweeps, Running, StaysSettled,
      Open, Items, Jobs, None
  <1>1. ASSUME NEW i \in Items, NEW j \in Jobs, RequestChanges(i, j) PROVE StaysSettled
    BY <1>1 DEF RequestChanges, Revisable, Pending, NextJob, itemVars, assetVars, jobVars, queueVars, workVars, decisionVars, faultVars
  <1>2. ASSUME NEW d \in Decisions, NEW i \in Items, NEW v \in Kinds, OpenCard(d, i, v) PROVE StaysSettled
    BY <1>2 DEF OpenCard, Pending, itemVars, assetVars, jobVars, queueVars, workVars, decisionVars, faultVars
  <1>3. ASSUME NEW d \in Decisions, Decide(d) PROVE StaysSettled
    <2>1. CASE Decided(d)
      BY <2>1, SMTT(30) DEF Decided
    <2>2. QED
      BY <1>3, <2>1, DecideEffect
  <1>4. ASSUME NEW j \in Jobs, Dispatch(j) PROVE StaysSettled
    BY <1>4 DEF Dispatch, itemVars, assetVars, jobVars, queueVars, workVars, decisionVars, faultVars
  <1>5. ASSUME NEW j \in Jobs, Redeliver(j) PROVE StaysSettled
    BY <1>5 DEF Redeliver, itemVars, assetVars, jobVars, queueVars, workVars, decisionVars, faultVars
  <1>6. ASSUME NEW j \in Jobs, GetLate(j) PROVE StaysSettled
    BY <1>6 DEF GetLate, itemVars, assetVars, jobVars, queueVars, workVars, decisionVars, faultVars
  <1>7. ASSUME NEW w \in Workers, NEW j \in Jobs, DispatchFails(w, j) PROVE StaysSettled
    BY <1>7 DEF DispatchFails, Goto, itemVars, assetVars, jobVars, queueVars, workVars, decisionVars, faultVars
  <1>8. ASSUME NEW w \in Workers, NEW j \in Jobs, Claim(w, j) PROVE StaysSettled
    <2>1. CASE Taken(w, j)
      BY <2>1, SMTT(30) DEF Taken
    <2>2. CASE LeftAlone(w, j)
      BY <2>2, SMTT(30) DEF LeftAlone
    <2>3. QED
      BY <1>8, <2>1, <2>2, ClaimEffect
  <1>9. ASSUME NEW w \in Workers, NEW j \in Jobs, SweepLook(w, j) PROVE StaysSettled
    <2>1. CASE Swept(w, j)
      BY <2>1, SMTT(30) DEF Swept
    <2>2. QED
      BY <1>9, <2>1, SweepLookEffect
  <1>10. ASSUME NEW w \in Workers, NEW i \in Items, Save(w, i) PROVE StaysSettled
    <2>1. CASE Saved(w, i)
      BY <2>1, SMTT(30) DEF Saved
    <2>2. QED
      BY <1>10, <2>1, SaveEffect
  <1>11. ASSUME NEW w \in Workers, NEW label \in {"fail", "outside"}, Stumble(w, label) PROVE StaysSettled
    BY <1>11 DEF Stumble, Goto, itemVars, assetVars, jobVars, queueVars, workVars, decisionVars, faultVars
  <1>12. ASSUME NEW w \in Workers, FinishLook(w) PROVE StaysSettled
    <2>1. CASE Ready(w)
      BY <2>1, SMTT(30) DEF Ready
    <2>2. CASE Discarded(w)
      BY <2>2, SMTT(30) DEF Discarded
    <2>3. QED
      BY <1>12, <2>1, <2>2, FinishLookEffect
  <1>13. ASSUME NEW w \in Workers, FinishWrite(w) PROVE StaysSettled
    BY <1>13 DEF FinishWrite, Locked, Leave, Goto, itemVars, assetVars, jobVars, queueVars, workVars, decisionVars, faultVars
  <1>14. ASSUME NEW w \in Workers, FailLook(w) PROVE StaysSettled
    <2>1. CASE Failing(w)
      BY <2>1, SMTT(30) DEF Failing
    <2>2. QED
      BY <1>14, <2>1, FailLookEffect
  <1>15. ASSUME NEW w \in Workers, FailIgnored(w) PROVE StaysSettled
    BY <1>15 DEF FailIgnored, StillOpen, Leave, Goto, itemVars, assetVars, jobVars, queueVars, workVars, decisionVars, faultVars
  <1>16. ASSUME NEW w \in Workers, Close(w) PROVE StaysSettled
    <2>1. CASE Closed(w)
      <3>1. on[w] \in Jobs /\ jobStatus[on[w]] # "succeeded"
        BY <2>1 DEF Closed
      <3>2. jobStatus' = [jobStatus EXCEPT ![on[w]] = "failed"]
        BY <2>1 DEF Closed
      <3>3. QED
        BY <3>1, <3>2
    <2>2. ASSUME NEW i \in Items, PutBack(w, i) PROVE StaysSettled
      BY <2>2, SMTT(30) DEF PutBack
    <2>3. QED
      BY <1>16, <2>1, <2>2, CloseEffect
  <1>17. ASSUME NEW w \in Workers, Crash(w) PROVE StaysSettled
    <2>1. CASE Died(w)
      BY <2>1, SMTT(30) DEF Died
    <2>2. CASE AllDied(w)
      BY <2>2, SMTT(30) DEF AllDied
    <2>3. QED
      BY <1>17, <2>1, <2>2, CrashEffect
  <1>18. CASE UNCHANGED vars
    BY <1>18 DEF vars, itemVars, assetVars, jobVars, queueVars, workVars, decisionVars, faultVars
  <1> HIDE DEF IInv, TypeOK, JobsAdmitted, OneHolder, RowsKept, Holds, Sweeps, Running, StaysSettled,
      Open, Items, Jobs, None
  <1>19. QED
    BY <1>1, <1>2, <1>3, <1>4, <1>5, <1>6, <1>7, <1>8, <1>9, <1>10, <1>11, <1>12, <1>13, <1>14, <1>15, <1>16, <1>17, <1>18 DEF Next, Run

\* A finished design is never called failed, and one given up on is never
\* called finished where time limits are enforced.
THEOREM OutcomesStand == Spec => OutcomeStands
  <1>1. IInv /\ [Next]_vars =>
          [\A j \in Jobs :
              /\ jobStatus[j] = "succeeded" => jobStatus'[j] = "succeeded"
              /\ jobStatus[j] = "failed" /\ deployment = "celery" => jobStatus'[j] = "failed"]_vars
    BY OutcomeStep DEF StaysSettled
  <1>2. QED
    BY <1>1, Invariance, PTL DEF Spec, OutcomeStands

=============================================================================
