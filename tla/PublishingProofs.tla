--------------------------- MODULE PublishingProofs ---------------------------
(***************************************************************************)
(* What holds of ScheduledPublishing and ReviewedPublishing for any number *)
(* of posts, publishers and requests, and any limits.                      *)
(*                                                                         *)
(* First the publisher: the inductive invariant IInv behind its safety     *)
(* properties, that it implements PostLifecycle, and, from IInv, what one  *)
(* publisher publishes in a day and which rows share a key.                *)
(*                                                                         *)
(* Then the requests about posts: types and shape of memories; what a step *)
(* of a publisher does to one post (PassEffect); from it, that sends are   *)
(* accounted for by releases, that declined posts stay back, and that      *)
(* nothing is taken up while its item waits for a decision.                *)
(***************************************************************************)
EXTENDS ReviewedPublishing, FiniteSetTheorems, TLAPS


\* The 24-hour count is a number: it counts a subset of the finite set of posts.
LEMMA PostedIsNat == Cardinality(PostedLastDay) \in Nat
  <1>1. PostedLastDay \subseteq Posts
    BY ConstantsAssumption DEF PostedLastDay
  <1>2. IsFiniteSet(PostedLastDay)
    BY <1>1, ConstantsAssumption, FS_Subset
  <1>3. QED
    BY <1>2, FS_CardinalityType

\* No row exists and no pass is under way: every part of IInv holds.
LEMMA InitEstablishes == Init => IInv
  <1> USE ConstantsAssumption DEF Init, InitWith
  <1>1. Init => TypeOK
    BY DEF TypeOK, Statuses, Labels
  <1>2. Init => PassShape /\ ClaimedOnce /\ HeldRows /\ HeldUnsent
    BY DEF PassShape, ClaimedOnce, HeldRows, HeldUnsent, Holds, Sends
  <1>3. Init => SentAtMostOnce /\ StatusHonest /\ TriesBounded /\ TriesLeft
    BY DEF SentAtMostOnce, StatusHonest, TriesBounded, TriesLeft
  <1>4. Init => StopHoldsTheRest /\ StopIsSeen
    BY DEF StopHoldsTheRest, StopIsSeen
  <1>5. QED
    BY <1>1, <1>2, <1>3, <1>4 DEF IInv

\* What a claim does, with its choices named: it takes only scheduled rows,
\* and marks as interrupted only rows no send holds locked.
ClaimEffect(w, lost, mine) ==
    /\ pc[w] = "claim"
    /\ \A p \in mine : status[p] = "scheduled"
    /\ \A p \in lost : status[p] = "publishing" /\ ~Locked(p)
    /\ status' = [p \in Posts |->
          CASE p \in mine -> "publishing"
            [] p \in lost -> "failed"
            [] OTHER      -> status[p]]
    /\ stale' = [p \in Posts |-> stale[p] /\ p \notin mine \cup lost]
    /\ batch' = [batch EXCEPT ![w] = mine]
    /\ pc' = [pc EXCEPT ![w] = IF mine = {} THEN "idle" ELSE "count"]
    /\ UNCHANGED <<due, recent, attempts, deferrals, stops, current, posted,
                   reloaded, crashes, ghostVars>>

\* Every claim has that effect for some rows it recovers and some it takes.
LEMMA ClaimFacts ==
  ASSUME NEW w \in Publishers, Claim(w)
  PROVE  \E lost \in SUBSET Posts, mine \in SUBSET Posts : ClaimEffect(w, lost, mine)
  <1>1. PICK only \in Scopes(w), lost \in SUBSET Posts, mine \in SUBSET Posts :
          /\ Takes(lost, {p \in Posts : Interrupted(p)})
          /\ Takes(mine, {p \in only : Claimable(p)})
          /\ status' = [p \in Posts |->
                CASE p \in mine -> "publishing"
                  [] p \in lost -> "failed"
                  [] OTHER      -> status[p]]
          /\ stale' = [p \in Posts |-> stale[p] /\ p \notin mine \cup lost]
          /\ batch' = [batch EXCEPT ![w] = mine]
          /\ Goto(w, IF mine = {} THEN "idle" ELSE "count")
    BY DEF Claim
  <1>2. \A p \in mine : status[p] = "scheduled"
    BY <1>1 DEF Takes, Claimable
  <1>3. \A p \in lost : status[p] = "publishing" /\ ~Locked(p)
    BY <1>1 DEF Takes, Interrupted
  <1>4. ClaimEffect(w, lost, mine)
    BY <1>1, <1>2, <1>3 DEF ClaimEffect, Claim, Goto
  <1>5. QED
    BY <1>4

\* Types are preserved by every step on their own.
LEMMA TypeStep ==
  ASSUME TypeOK, [Next]_vars PROVE TypeOK'
  <1> USE ConstantsAssumption
      DEF TypeOK, Statuses, Labels, rowVars, passVars, ghostVars, keptVars
  <1>1. ASSUME NEW p \in Posts, Schedule(p) PROVE TypeOK'
    BY <1>1, SMTT(30) DEF Schedule, Active
  <1>2. ASSUME NEW p \in Posts, Cancel(p) PROVE TypeOK'
    BY <1>2, SMTT(30) DEF Cancel, Cancellable, Touch
  <1>3. ASSUME NEW k \in StopKinds, Stop(k) PROVE TypeOK'
    BY <1>3, SMTT(30) DEF Stop
  <1>4. ASSUME NEW k \in StopKinds, Resume(k) PROVE TypeOK'
    BY <1>4, SMTT(30) DEF Resume
  <1>5. ASSUME NEW p \in Posts, BecomeDue(p) PROVE TypeOK'
    BY <1>5, SMTT(30) DEF BecomeDue
  <1>6. ASSUME NEW p \in Posts, BecomeStale(p) PROVE TypeOK'
    BY <1>6, SMTT(30) DEF BecomeStale
  <1>7. ASSUME NEW p \in Posts, DayPasses(p) PROVE TypeOK'
    BY <1>7, SMTT(30) DEF DayPasses
  <1>8. ASSUME NEW w \in Publishers, StartPass(w) PROVE TypeOK'
    BY <1>8, SMTT(30) DEF StartPass, Goto
  <1>9. ASSUME NEW w \in Publishers, CountPosted(w) PROVE TypeOK'
    BY <1>9, SMTT(30), PostedIsNat DEF CountPosted, Goto
  <1>10. ASSUME NEW w \in Publishers, HoldForStop(w) PROVE TypeOK'
    BY <1>10, SMTT(30) DEF HoldForStop, PutBack, Held, Forget, Goto
  <1>11. ASSUME NEW w \in Publishers, Relock(w) PROVE TypeOK'
    BY <1>11, SMTT(30) DEF Relock, StillPublishing, Goto
  <1>12. ASSUME NEW w \in Publishers, EndPass(w) PROVE TypeOK'
    BY <1>12, SMTT(30) DEF EndPass, Forget, Goto
  <1>13. ASSUME NEW w \in Publishers, NEW p \in Posts, HoldForCap(w, p)
         PROVE  TypeOK'
    BY <1>13, SMTT(30) DEF HoldForCap, PutBack, Goto, Touch
  <1>14. ASSUME NEW w \in Publishers, NEW p \in Posts, PickNext(w, p)
         PROVE  TypeOK'
    BY <1>14, SMTT(30) DEF PickNext, Goto
  <1>15. ASSUME NEW w \in Publishers, NEW p \in Posts, SendOk(w, p)
         PROVE  TypeOK'
    BY <1>15, SMTT(30) DEF SendOk, Touch, Answered, Sent, MoveOn, Goto
  <1>16. ASSUME NEW w \in Publishers, NEW p \in Posts, SendWait(w, p)
         PROVE  TypeOK'
    <2>1. CASE Answered(w, p, "wait") /\ deferrals[p] >= MaxDeferrals /\ Fail(p) /\ UNCHANGED deferrals
      BY <1>16, <2>1, SMTT(30)
        DEF SendWait, Touch, Answered, Sent, MoveOn, Goto, Defer, Fail
    <2>2. CASE /\ Answered(w, p, "wait") /\ deferrals[p] < MaxDeferrals
               /\ Defer(p) /\ deferrals' = [deferrals EXCEPT ![p] = @ + 1]
      BY <1>16, <2>2, SMTT(30)
        DEF SendWait, Touch, Answered, Sent, MoveOn, Goto, Defer, Fail
    <2>3. CASE Answered(w, p, "spacing") /\ Defer(p) /\ UNCHANGED deferrals
      BY <1>16, <2>3, SMTT(30)
        DEF SendWait, Touch, Answered, Sent, MoveOn, Goto, Defer, Fail
    <2>4. QED
      BY <1>16, <2>1, <2>2, <2>3 DEF SendWait
  <1>17. ASSUME NEW w \in Publishers, NEW p \in Posts, SendTransient(w, p)
         PROVE  TypeOK'
    <2>1. CASE Retried(p) /\ Defer(p)
      BY <1>17, <2>1, SMTT(30)
        DEF SendTransient, Touch, Answered, Sent, MoveOn, Goto, Defer, Fail
    <2>2. CASE ~Retried(p) /\ Fail(p)
      BY <1>17, <2>2, SMTT(30)
        DEF SendTransient, Touch, Answered, Sent, MoveOn, Goto, Defer, Fail
    <2>3. QED
      BY <1>17, <2>1, <2>2 DEF SendTransient
  <1>18. ASSUME NEW w \in Publishers, NEW p \in Posts, SendRefused(w, p)
         PROVE  TypeOK'
    BY <1>18, SMTT(30)
      DEF SendRefused, Touch, Answered, Sent, MoveOn, Goto, Fail
  <1>19. ASSUME NEW w \in Publishers, NEW p \in Posts, SendDatabaseError(w, p)
         PROVE  TypeOK'
    BY <1>19, SMTT(30) DEF SendDatabaseError, Answered, Sent, Goto
  <1>20. ASSUME NEW w \in Publishers, NEW p \in Posts, RecordDatabaseError(w, p)
         PROVE  TypeOK'
    BY <1>20, SMTT(30) DEF RecordDatabaseError, Touch, MoveOn, Goto, Fail
  <1>21. ASSUME NEW w \in Publishers, Crash(w) PROVE TypeOK'
    BY <1>21, SMTT(30) DEF Crash, Forget, Goto, Sent
  <1>22. ASSUME NEW w \in Publishers, Claim(w) PROVE TypeOK'
    <2>1. PICK lost \in SUBSET Posts, mine \in SUBSET Posts : ClaimEffect(w, lost, mine)
      BY <1>22, ClaimFacts
    <2>2. QED
      BY <2>1, SMTT(30) DEF ClaimEffect
  <1>23. CASE UNCHANGED vars
    BY <1>23, SMTT(30) DEF vars
  <1>24. QED
    BY <1>1, <1>2, <1>3, <1>4, <1>5, <1>6, <1>7, <1>8, <1>9, <1>10, <1>11,
       <1>12, <1>13, <1>14, <1>15, <1>16, <1>17, <1>18, <1>19, <1>20, <1>21,
       <1>22, <1>23 DEF Next, People, Time, Pass, Sending

\* A publisher's memory keeps the shape its label says.
LEMMA ShapeStep ==
  ASSUME TypeOK, TypeOK', PassShape, [Next]_vars
  PROVE  PassShape'
  <1> USE ConstantsAssumption DEF TypeOK, PassShape, rowVars, passVars, ghostVars, keptVars
  <1>1. ASSUME NEW p \in Posts, Schedule(p) PROVE PassShape'
    BY <1>1, SMTT(30) DEF Schedule, Active
  <1>2. ASSUME NEW p \in Posts, Cancel(p) PROVE PassShape'
    BY <1>2, SMTT(30) DEF Cancel, Cancellable, Touch
  <1>3. ASSUME NEW k \in StopKinds, Stop(k) PROVE PassShape'
    BY <1>3, SMTT(30) DEF Stop
  <1>4. ASSUME NEW k \in StopKinds, Resume(k) PROVE PassShape'
    BY <1>4, SMTT(30) DEF Resume
  <1>5. ASSUME NEW p \in Posts, BecomeDue(p) PROVE PassShape'
    BY <1>5, SMTT(30) DEF BecomeDue
  <1>6. ASSUME NEW p \in Posts, BecomeStale(p) PROVE PassShape'
    BY <1>6, SMTT(30) DEF BecomeStale
  <1>7. ASSUME NEW p \in Posts, DayPasses(p) PROVE PassShape'
    BY <1>7, SMTT(30) DEF DayPasses
  <1>8. ASSUME NEW w \in Publishers, StartPass(w) PROVE PassShape'
    BY <1>8, SMTT(30) DEF StartPass, Goto
  <1>9. ASSUME NEW w \in Publishers, CountPosted(w) PROVE PassShape'
    BY <1>9, SMTT(30) DEF CountPosted, Goto
  <1>10. ASSUME NEW w \in Publishers, HoldForStop(w) PROVE PassShape'
    BY <1>10, SMTT(30) DEF HoldForStop, PutBack, Held, Forget, Goto
  <1>11. ASSUME NEW w \in Publishers, Relock(w) PROVE PassShape'
    BY <1>11, SMTT(30) DEF Relock, StillPublishing, Goto
  <1>12. ASSUME NEW w \in Publishers, EndPass(w) PROVE PassShape'
    BY <1>12, SMTT(30) DEF EndPass, Forget, Goto
  <1>13. ASSUME NEW w \in Publishers, NEW p \in Posts, HoldForCap(w, p) PROVE PassShape'
    BY <1>13, SMTT(30) DEF HoldForCap, PutBack, Goto, Touch
  <1>14. ASSUME NEW w \in Publishers, NEW p \in Posts, PickNext(w, p) PROVE PassShape'
    BY <1>14, SMTT(30) DEF PickNext, Goto
  <1>15. ASSUME NEW w \in Publishers, NEW p \in Posts, SendOk(w, p) PROVE PassShape'
    BY <1>15, SMTT(30) DEF SendOk, Touch, Answered, Sends, Sent, MoveOn, Goto
  <1>16. ASSUME NEW w \in Publishers, NEW p \in Posts, SendWait(w, p) PROVE PassShape'
    <2>1. CASE Answered(w, p, "wait") /\ deferrals[p] >= MaxDeferrals /\ Fail(p) /\ UNCHANGED deferrals
      BY <1>16, <2>1, SMTT(30)
        DEF SendWait, Touch, Answered, Sends, Sent, MoveOn, Goto, Defer, Fail
    <2>2. CASE /\ Answered(w, p, "wait") /\ deferrals[p] < MaxDeferrals
               /\ Defer(p) /\ deferrals' = [deferrals EXCEPT ![p] = @ + 1]
      BY <1>16, <2>2, SMTT(30)
        DEF SendWait, Touch, Answered, Sends, Sent, MoveOn, Goto, Defer, Fail
    <2>3. CASE Answered(w, p, "spacing") /\ Defer(p) /\ UNCHANGED deferrals
      BY <1>16, <2>3, SMTT(30)
        DEF SendWait, Touch, Answered, Sends, Sent, MoveOn, Goto, Defer, Fail
    <2>4. QED
      BY <1>16, <2>1, <2>2, <2>3 DEF SendWait
  <1>17. ASSUME NEW w \in Publishers, NEW p \in Posts, SendTransient(w, p) PROVE PassShape'
    <2>1. CASE Retried(p) /\ Defer(p)
      BY <1>17, <2>1, SMTT(30)
        DEF SendTransient, Touch, Answered, Sends, Sent, MoveOn, Goto, Defer, Fail,
            Retried
    <2>2. CASE ~Retried(p) /\ Fail(p)
      BY <1>17, <2>2, SMTT(30)
        DEF SendTransient, Touch, Answered, Sends, Sent, MoveOn, Goto, Defer, Fail,
            Retried
    <2>3. QED
      BY <1>17, <2>1, <2>2 DEF SendTransient
  <1>18. ASSUME NEW w \in Publishers, NEW p \in Posts, SendRefused(w, p) PROVE PassShape'
    BY <1>18, SMTT(30) DEF SendRefused, Touch, Answered, Sends, Sent, MoveOn, Goto, Fail
  <1>19. ASSUME NEW w \in Publishers, NEW p \in Posts, SendDatabaseError(w, p) PROVE PassShape'
    BY <1>19, SMTT(30) DEF SendDatabaseError, Answered, Sends, Sent, Goto
  <1>20. ASSUME NEW w \in Publishers, NEW p \in Posts, RecordDatabaseError(w, p) PROVE PassShape'
    BY <1>20, SMTT(30) DEF RecordDatabaseError, Touch, MoveOn, Goto, Fail
  <1>21. ASSUME NEW w \in Publishers, Crash(w) PROVE PassShape'
    BY <1>21, SMTT(30) DEF Crash, Forget, Goto, Sent
  <1>22. ASSUME NEW w \in Publishers, Claim(w) PROVE PassShape'
    <2>1. PICK lost \in SUBSET Posts, mine \in SUBSET Posts : ClaimEffect(w, lost, mine)
      BY <1>22, ClaimFacts
    <2>2. QED
      BY <2>1, SMTT(30) DEF ClaimEffect
  <1>23. CASE UNCHANGED vars
    BY <1>23, SMTT(30) DEF vars
  <1>24. QED
    BY <1>1, <1>2, <1>3, <1>4, <1>5, <1>6, <1>7, <1>8, <1>9, <1>10, <1>11,
       <1>12, <1>13, <1>14, <1>15, <1>16, <1>17, <1>18, <1>19, <1>20, <1>21,
       <1>22, <1>23 DEF Next, People, Time, Pass, Sending

\* Who holds which row, and what is true of it then.
LEMMA HoldStep ==
  ASSUME TypeOK, TypeOK', PassShape, ClaimedOnce, HeldRows, [Next]_vars
  PROVE  (ClaimedOnce /\ HeldRows)'
  <1> USE ConstantsAssumption
      DEF TypeOK, PassShape, ClaimedOnce, HeldRows, Holds, Sends,
          rowVars, passVars, ghostVars, keptVars
  <1>1. ASSUME NEW p \in Posts, Schedule(p)
        PROVE  (ClaimedOnce /\ HeldRows)'
    BY <1>1, SMTT(30) DEF Schedule, Active
  <1>2. ASSUME NEW p \in Posts, Cancel(p)
        PROVE  (ClaimedOnce /\ HeldRows)'
    BY <1>2, SMTT(30) DEF Cancel, Cancellable, Touch
  <1>3. ASSUME NEW k \in StopKinds, Stop(k)
        PROVE  (ClaimedOnce /\ HeldRows)'
    BY <1>3, SMTT(30) DEF Stop
  <1>4. ASSUME NEW k \in StopKinds, Resume(k)
        PROVE  (ClaimedOnce /\ HeldRows)'
    BY <1>4, SMTT(30) DEF Resume
  <1>5. ASSUME NEW p \in Posts, BecomeDue(p)
        PROVE  (ClaimedOnce /\ HeldRows)'
    BY <1>5, SMTT(30) DEF BecomeDue
  <1>6. ASSUME NEW p \in Posts, BecomeStale(p)
        PROVE  (ClaimedOnce /\ HeldRows)'
    BY <1>6, SMTT(30) DEF BecomeStale
  <1>7. ASSUME NEW p \in Posts, DayPasses(p)
        PROVE  (ClaimedOnce /\ HeldRows)'
    BY <1>7, SMTT(30) DEF DayPasses
  <1>8. ASSUME NEW w \in Publishers, StartPass(w)
        PROVE  (ClaimedOnce /\ HeldRows)'
    BY <1>8, SMTT(30) DEF StartPass, Goto
  <1>9. ASSUME NEW w \in Publishers, CountPosted(w)
        PROVE  (ClaimedOnce /\ HeldRows)'
    BY <1>9, SMTT(30) DEF CountPosted, Goto
  <1>10. ASSUME NEW w \in Publishers, HoldForStop(w)
         PROVE  (ClaimedOnce /\ HeldRows)'
    BY <1>10, SMTT(30) DEF HoldForStop, PutBack, Held, Forget, Goto
  <1>11. ASSUME NEW w \in Publishers, Relock(w)
         PROVE  (ClaimedOnce /\ HeldRows)'
    <2>1. ClaimedOnce'
      BY <1>11, SMTT(30) DEF Relock, StillPublishing, Goto
    <2>2. HeldRows'
      BY <1>11, SMTT(30) DEF Relock, StillPublishing, Goto
    <2>3. QED
      BY <2>1, <2>2
  <1>12. ASSUME NEW w \in Publishers, EndPass(w)
         PROVE  (ClaimedOnce /\ HeldRows)'
    BY <1>12, SMTT(30) DEF EndPass, Forget, Goto
  <1>13. ASSUME NEW w \in Publishers, NEW p \in Posts, HoldForCap(w, p)
         PROVE  (ClaimedOnce /\ HeldRows)'
    BY <1>13, SMTT(30) DEF HoldForCap, PutBack, Goto, Touch
  <1>14. ASSUME NEW w \in Publishers, NEW p \in Posts, PickNext(w, p)
         PROVE  (ClaimedOnce /\ HeldRows)'
    BY <1>14, SMTT(30) DEF PickNext, Goto
  <1>15. ASSUME NEW w \in Publishers, NEW p \in Posts, SendOk(w, p)
         PROVE  (ClaimedOnce /\ HeldRows)'
    BY <1>15, SMTT(30) DEF SendOk, Touch, Answered, Sent, MoveOn, Goto
  <1>16. ASSUME NEW w \in Publishers, NEW p \in Posts, SendWait(w, p)
         PROVE  (ClaimedOnce /\ HeldRows)'
    <2>1. CASE Answered(w, p, "wait") /\ deferrals[p] >= MaxDeferrals /\ Fail(p) /\ UNCHANGED deferrals
      BY <1>16, <2>1, SMTT(30)
        DEF SendWait, Touch, Answered, Sent, MoveOn, Goto, Defer, Fail
    <2>2. CASE /\ Answered(w, p, "wait") /\ deferrals[p] < MaxDeferrals
               /\ Defer(p) /\ deferrals' = [deferrals EXCEPT ![p] = @ + 1]
      BY <1>16, <2>2, SMTT(30)
        DEF SendWait, Touch, Answered, Sent, MoveOn, Goto, Defer, Fail
    <2>3. CASE Answered(w, p, "spacing") /\ Defer(p) /\ UNCHANGED deferrals
      BY <1>16, <2>3, SMTT(30)
        DEF SendWait, Touch, Answered, Sent, MoveOn, Goto, Defer, Fail
    <2>4. QED
      BY <1>16, <2>1, <2>2, <2>3 DEF SendWait
  <1>17. ASSUME NEW w \in Publishers, NEW p \in Posts, SendTransient(w, p)
         PROVE  (ClaimedOnce /\ HeldRows)'
    <2>1. CASE Retried(p) /\ Defer(p)
      BY <1>17, <2>1, SMTT(30)
        DEF SendTransient, Touch, Answered, Sent, MoveOn, Goto, Defer, Fail,
            Retried
    <2>2. CASE ~Retried(p) /\ Fail(p)
      BY <1>17, <2>2, SMTT(30)
        DEF SendTransient, Touch, Answered, Sent, MoveOn, Goto, Defer, Fail,
            Retried
    <2>3. QED
      BY <1>17, <2>1, <2>2 DEF SendTransient
  <1>18. ASSUME NEW w \in Publishers, NEW p \in Posts, SendRefused(w, p)
         PROVE  (ClaimedOnce /\ HeldRows)'
    BY <1>18, SMTT(30)
      DEF SendRefused, Touch, Answered, Sent, MoveOn, Goto, Fail
  <1>19. ASSUME NEW w \in Publishers, NEW p \in Posts, SendDatabaseError(w, p)
         PROVE  (ClaimedOnce /\ HeldRows)'
    BY <1>19, SMTT(30) DEF SendDatabaseError, Answered, Sent, Goto
  <1>20. ASSUME NEW w \in Publishers, NEW p \in Posts, RecordDatabaseError(w, p)
         PROVE  (ClaimedOnce /\ HeldRows)'
    BY <1>20, SMTT(30) DEF RecordDatabaseError, Touch, MoveOn, Goto, Fail
  <1>21. ASSUME NEW w \in Publishers, Crash(w)
         PROVE  (ClaimedOnce /\ HeldRows)'
    BY <1>21, SMTT(30) DEF Crash, Forget, Goto, Sent
  <1>22. ASSUME NEW w \in Publishers, Claim(w)
         PROVE  (ClaimedOnce /\ HeldRows)'
    <2>1. PICK lost \in SUBSET Posts, mine \in SUBSET Posts : ClaimEffect(w, lost, mine)
      BY <1>22, ClaimFacts
    <2>2. \A v \in Publishers : \A p \in mine : ~Holds(v, p)
      BY <2>1 DEF ClaimEffect
    <2>3. ClaimedOnce'
      BY <2>1, <2>2 DEF ClaimEffect
    <2>4. HeldRows'
      BY <2>1, <2>2, SMTT(30) DEF ClaimEffect, Locked
    <2>5. QED
      BY <2>3, <2>4
  <1>23. CASE UNCHANGED vars
    BY <1>23, SMTT(30) DEF vars
  <1>24. QED
    BY <1>1, <1>2, <1>3, <1>4, <1>5, <1>6, <1>7, <1>8, <1>9, <1>10, <1>11,
       <1>12, <1>13, <1>14, <1>15, <1>16, <1>17, <1>18, <1>19, <1>20, <1>21,
       <1>22, <1>23 DEF Next, People, Time, Pass, Sending

\* A held row has tries left, and is out only when its send came to grief.
LEMMA UnsentStep ==
  ASSUME IInv, TypeOK', [Next]_vars
  PROVE  HeldUnsent'
  <1> USE ConstantsAssumption DEF IInv, TypeOK, PassShape, ClaimedOnce, HeldRows, HeldUnsent,
      Holds, Sends, rowVars, passVars, ghostVars, keptVars
  <1>1. ASSUME NEW p \in Posts, Schedule(p) PROVE HeldUnsent'
    BY <1>1, SMTT(30) DEF Schedule, Active
  <1>2. ASSUME NEW p \in Posts, Cancel(p) PROVE HeldUnsent'
    BY <1>2, SMTT(30) DEF Cancel, Cancellable, Touch
  <1>3. ASSUME NEW k \in StopKinds, Stop(k) PROVE HeldUnsent'
    BY <1>3, SMTT(30) DEF Stop
  <1>4. ASSUME NEW k \in StopKinds, Resume(k) PROVE HeldUnsent'
    BY <1>4, SMTT(30) DEF Resume
  <1>5. ASSUME NEW p \in Posts, BecomeDue(p) PROVE HeldUnsent'
    BY <1>5, SMTT(30) DEF BecomeDue
  <1>6. ASSUME NEW p \in Posts, BecomeStale(p) PROVE HeldUnsent'
    BY <1>6, SMTT(30) DEF BecomeStale
  <1>7. ASSUME NEW p \in Posts, DayPasses(p) PROVE HeldUnsent'
    BY <1>7, SMTT(30) DEF DayPasses
  <1>8. ASSUME NEW w \in Publishers, StartPass(w) PROVE HeldUnsent'
    BY <1>8, SMTT(30) DEF StartPass, Goto
  <1>9. ASSUME NEW w \in Publishers, CountPosted(w) PROVE HeldUnsent'
    BY <1>9, SMTT(30) DEF CountPosted, Goto
  <1>10. ASSUME NEW w \in Publishers, HoldForStop(w) PROVE HeldUnsent'
    BY <1>10, SMTT(30) DEF HoldForStop, PutBack, Held, Forget, Goto
  <1>11. ASSUME NEW w \in Publishers, Relock(w) PROVE HeldUnsent'
    BY <1>11, SMTT(30) DEF Relock, StillPublishing, Goto
  <1>12. ASSUME NEW w \in Publishers, EndPass(w) PROVE HeldUnsent'
    BY <1>12, SMTT(30) DEF EndPass, Forget, Goto
  <1>13. ASSUME NEW w \in Publishers, NEW p \in Posts, HoldForCap(w, p) PROVE HeldUnsent'
    BY <1>13, SMTT(30) DEF HoldForCap, PutBack, Goto, Touch
  <1>14. ASSUME NEW w \in Publishers, NEW p \in Posts, PickNext(w, p) PROVE HeldUnsent'
    BY <1>14, SMTT(30) DEF PickNext, Goto
  <1>15. ASSUME NEW w \in Publishers, NEW p \in Posts, SendOk(w, p) PROVE HeldUnsent'
    BY <1>15, SMTT(30) DEF SendOk, Touch, Answered, Sent, MoveOn, Goto
  <1>16. ASSUME NEW w \in Publishers, NEW p \in Posts, SendWait(w, p) PROVE HeldUnsent'
    <2>1. CASE Answered(w, p, "wait") /\ deferrals[p] >= MaxDeferrals /\ Fail(p) /\ UNCHANGED deferrals
      BY <1>16, <2>1, SMTT(30)
        DEF SendWait, Touch, Answered, Sent, MoveOn, Goto, Defer, Fail
    <2>2. CASE /\ Answered(w, p, "wait") /\ deferrals[p] < MaxDeferrals
               /\ Defer(p) /\ deferrals' = [deferrals EXCEPT ![p] = @ + 1]
      BY <1>16, <2>2, SMTT(30)
        DEF SendWait, Touch, Answered, Sent, MoveOn, Goto, Defer, Fail
    <2>3. CASE Answered(w, p, "spacing") /\ Defer(p) /\ UNCHANGED deferrals
      BY <1>16, <2>3, SMTT(30)
        DEF SendWait, Touch, Answered, Sent, MoveOn, Goto, Defer, Fail
    <2>4. QED
      BY <1>16, <2>1, <2>2, <2>3 DEF SendWait
  <1>17. ASSUME NEW w \in Publishers, NEW p \in Posts, SendTransient(w, p) PROVE HeldUnsent'
    <2>1. CASE Retried(p) /\ Defer(p)
      BY <1>17, <2>1, SMTT(30)
        DEF SendTransient, Touch, Answered, Sent, MoveOn, Goto, Defer, Fail,
            Retried
    <2>2. CASE ~Retried(p) /\ Fail(p)
      BY <1>17, <2>2, SMTT(30)
        DEF SendTransient, Touch, Answered, Sent, MoveOn, Goto, Defer, Fail,
            Retried
    <2>3. QED
      BY <1>17, <2>1, <2>2 DEF SendTransient
  <1>18. ASSUME NEW w \in Publishers, NEW p \in Posts, SendRefused(w, p) PROVE HeldUnsent'
    BY <1>18, SMTT(30) DEF SendRefused, Touch, Answered, Sent, MoveOn, Goto, Fail
  <1>19. ASSUME NEW w \in Publishers, NEW p \in Posts, SendDatabaseError(w, p) PROVE HeldUnsent'
    BY <1>19, SMTT(30) DEF SendDatabaseError, Answered, Sent, Goto
  <1>20. ASSUME NEW w \in Publishers, NEW p \in Posts, RecordDatabaseError(w, p) PROVE HeldUnsent'
    BY <1>20, SMTT(30) DEF RecordDatabaseError, Touch, MoveOn, Goto, Fail
  <1>21. ASSUME NEW w \in Publishers, Crash(w) PROVE HeldUnsent'
    BY <1>21, SMTT(30) DEF Crash, Forget, Goto, Sent
  <1>22. ASSUME NEW w \in Publishers, Claim(w) PROVE HeldUnsent'
    <2>1. PICK lost \in SUBSET Posts, mine \in SUBSET Posts : ClaimEffect(w, lost, mine)
      BY <1>22, ClaimFacts
    <2>2. QED
      BY <2>1, SMTT(30) DEF ClaimEffect, StatusHonest, TriesLeft
  <1>23. CASE UNCHANGED vars
    BY <1>23, SMTT(30) DEF vars
  <1>24. QED
    BY <1>1, <1>2, <1>3, <1>4, <1>5, <1>6, <1>7, <1>8, <1>9, <1>10, <1>11,
       <1>12, <1>13, <1>14, <1>15, <1>16, <1>17, <1>18, <1>19, <1>20, <1>21,
       <1>22, <1>23 DEF Next, People, Time, Pass, Sending

\* What is true of a row whoever holds it.
LEMMA RowStep ==
  ASSUME IInv, TypeOK', [Next]_vars
  PROVE  (SentAtMostOnce /\ StatusHonest /\ TriesBounded /\ TriesLeft)'
  <1> USE ConstantsAssumption
      DEF IInv, TypeOK, PassShape, HeldRows, HeldUnsent, Holds, Sends,
          SentAtMostOnce, StatusHonest, TriesBounded, TriesLeft, rowVars, passVars,
          ghostVars, keptVars
  <1>1. ASSUME NEW p \in Posts, Schedule(p)
        PROVE  (SentAtMostOnce /\ StatusHonest /\ TriesBounded /\ TriesLeft)'
    BY <1>1, SMTT(30) DEF Schedule, Active
  <1>2. ASSUME NEW p \in Posts, Cancel(p)
        PROVE  (SentAtMostOnce /\ StatusHonest /\ TriesBounded /\ TriesLeft)'
    BY <1>2, SMTT(30) DEF Cancel, Cancellable, Touch
  <1>3. ASSUME NEW k \in StopKinds, Stop(k)
        PROVE  (SentAtMostOnce /\ StatusHonest /\ TriesBounded /\ TriesLeft)'
    BY <1>3, SMTT(30) DEF Stop
  <1>4. ASSUME NEW k \in StopKinds, Resume(k)
        PROVE  (SentAtMostOnce /\ StatusHonest /\ TriesBounded /\ TriesLeft)'
    BY <1>4, SMTT(30) DEF Resume
  <1>5. ASSUME NEW p \in Posts, BecomeDue(p)
        PROVE  (SentAtMostOnce /\ StatusHonest /\ TriesBounded /\ TriesLeft)'
    BY <1>5, SMTT(30) DEF BecomeDue
  <1>6. ASSUME NEW p \in Posts, BecomeStale(p)
        PROVE  (SentAtMostOnce /\ StatusHonest /\ TriesBounded /\ TriesLeft)'
    BY <1>6, SMTT(30) DEF BecomeStale
  <1>7. ASSUME NEW p \in Posts, DayPasses(p)
        PROVE  (SentAtMostOnce /\ StatusHonest /\ TriesBounded /\ TriesLeft)'
    BY <1>7, SMTT(30) DEF DayPasses
  <1>8. ASSUME NEW w \in Publishers, StartPass(w)
        PROVE  (SentAtMostOnce /\ StatusHonest /\ TriesBounded /\ TriesLeft)'
    BY <1>8, SMTT(30) DEF StartPass, Goto
  <1>9. ASSUME NEW w \in Publishers, CountPosted(w)
        PROVE  (SentAtMostOnce /\ StatusHonest /\ TriesBounded /\ TriesLeft)'
    BY <1>9, SMTT(30) DEF CountPosted, Goto
  <1>10. ASSUME NEW w \in Publishers, HoldForStop(w)
         PROVE  (SentAtMostOnce /\ StatusHonest /\ TriesBounded /\ TriesLeft)'
    BY <1>10, SMTT(30) DEF HoldForStop, PutBack, Held, Forget, Goto
  <1>11. ASSUME NEW w \in Publishers, Relock(w)
         PROVE  (SentAtMostOnce /\ StatusHonest /\ TriesBounded /\ TriesLeft)'
    BY <1>11, SMTT(30) DEF Relock, StillPublishing, Goto
  <1>12. ASSUME NEW w \in Publishers, EndPass(w)
         PROVE  (SentAtMostOnce /\ StatusHonest /\ TriesBounded /\ TriesLeft)'
    BY <1>12, SMTT(30) DEF EndPass, Forget, Goto
  <1>13. ASSUME NEW w \in Publishers, NEW p \in Posts, HoldForCap(w, p)
         PROVE  (SentAtMostOnce /\ StatusHonest /\ TriesBounded /\ TriesLeft)'
    BY <1>13, SMTT(30) DEF HoldForCap, PutBack, Goto, Touch
  <1>14. ASSUME NEW w \in Publishers, NEW p \in Posts, PickNext(w, p)
         PROVE  (SentAtMostOnce /\ StatusHonest /\ TriesBounded /\ TriesLeft)'
    BY <1>14, SMTT(30) DEF PickNext, Goto
  <1>15. ASSUME NEW w \in Publishers, NEW p \in Posts, SendOk(w, p)
         PROVE  (SentAtMostOnce /\ StatusHonest /\ TriesBounded /\ TriesLeft)'
    BY <1>15, SMTT(30) DEF SendOk, Touch, Answered, Sent, MoveOn, Goto
  <1>16. ASSUME NEW w \in Publishers, NEW p \in Posts, SendWait(w, p)
         PROVE  (SentAtMostOnce /\ StatusHonest /\ TriesBounded /\ TriesLeft)'
    <2>1. CASE Answered(w, p, "wait") /\ deferrals[p] >= MaxDeferrals /\ Fail(p) /\ UNCHANGED deferrals
      BY <1>16, <2>1, SMTT(30)
        DEF SendWait, Touch, Answered, Sent, MoveOn, Goto, Defer, Fail
    <2>2. CASE /\ Answered(w, p, "wait") /\ deferrals[p] < MaxDeferrals
               /\ Defer(p) /\ deferrals' = [deferrals EXCEPT ![p] = @ + 1]
      BY <1>16, <2>2, SMTT(30)
        DEF SendWait, Touch, Answered, Sent, MoveOn, Goto, Defer, Fail
    <2>3. CASE Answered(w, p, "spacing") /\ Defer(p) /\ UNCHANGED deferrals
      BY <1>16, <2>3, SMTT(30)
        DEF SendWait, Touch, Answered, Sent, MoveOn, Goto, Defer, Fail
    <2>4. QED
      BY <1>16, <2>1, <2>2, <2>3 DEF SendWait
  <1>17. ASSUME NEW w \in Publishers, NEW p \in Posts, SendTransient(w, p)
         PROVE  (SentAtMostOnce /\ StatusHonest /\ TriesBounded /\ TriesLeft)'
    <2>1. CASE Retried(p) /\ Defer(p)
      <3>1. SentAtMostOnce'
        BY <1>17, <2>1, SMTT(60) DEF SendTransient, Touch, Answered, Sent, MoveOn, Goto, Defer, Fail, Retried
      <3>2. StatusHonest'
        BY <1>17, <2>1, SMTT(60) DEF SendTransient, Touch, Answered, Sent, MoveOn, Goto, Defer, Fail, Retried
      <3>3. TriesBounded'
        BY <1>17, <2>1, SMTT(60) DEF SendTransient, Touch, Answered, Sent, MoveOn, Goto, Defer, Fail, Retried
      <3>4. TriesLeft'
        BY <1>17, <2>1, SMTT(60) DEF SendTransient, Touch, Answered, Sent, MoveOn, Goto, Defer, Fail, Retried
      <3>5. QED
        BY <3>1, <3>2, <3>3, <3>4
    <2>2. CASE ~Retried(p) /\ Fail(p)
      <3>1. SentAtMostOnce'
        BY <1>17, <2>2, SMTT(60) DEF SendTransient, Touch, Answered, Sent, MoveOn, Goto, Defer, Fail, Retried
      <3>2. StatusHonest'
        BY <1>17, <2>2, SMTT(60) DEF SendTransient, Touch, Answered, Sent, MoveOn, Goto, Defer, Fail, Retried
      <3>3. TriesBounded'
        BY <1>17, <2>2, SMTT(60) DEF SendTransient, Touch, Answered, Sent, MoveOn, Goto, Defer, Fail, Retried
      <3>4. TriesLeft'
        BY <1>17, <2>2, SMTT(60) DEF SendTransient, Touch, Answered, Sent, MoveOn, Goto, Defer, Fail, Retried
      <3>5. QED
        BY <3>1, <3>2, <3>3, <3>4
    <2>3. QED
      BY <1>17, <2>1, <2>2 DEF SendTransient
  <1>18. ASSUME NEW w \in Publishers, NEW p \in Posts, SendRefused(w, p)
         PROVE  (SentAtMostOnce /\ StatusHonest /\ TriesBounded /\ TriesLeft)'
    BY <1>18, SMTT(30)
      DEF SendRefused, Touch, Answered, Sent, MoveOn, Goto, Fail
  <1>19. ASSUME NEW w \in Publishers, NEW p \in Posts, SendDatabaseError(w, p)
         PROVE  (SentAtMostOnce /\ StatusHonest /\ TriesBounded /\ TriesLeft)'
    BY <1>19, SMTT(30) DEF SendDatabaseError, Answered, Sent, Goto
  <1>20. ASSUME NEW w \in Publishers, NEW p \in Posts, RecordDatabaseError(w, p)
         PROVE  (SentAtMostOnce /\ StatusHonest /\ TriesBounded /\ TriesLeft)'
    BY <1>20, SMTT(30) DEF RecordDatabaseError, Touch, MoveOn, Goto, Fail
  <1>21. ASSUME NEW w \in Publishers, Crash(w)
         PROVE  (SentAtMostOnce /\ StatusHonest /\ TriesBounded /\ TriesLeft)'
    <2>1. SentAtMostOnce'
      BY <1>21, SMTT(60) DEF Crash, Forget, Goto, Sent
    <2>2. StatusHonest'
      BY <1>21, SMTT(60) DEF Crash, Forget, Goto, Sent
    <2>3. TriesBounded'
      BY <1>21, SMTT(60) DEF Crash, Forget, Goto, Sent
    <2>4. TriesLeft'
      BY <1>21, SMTT(60) DEF Crash, Forget, Goto, Sent
    <2>5. QED
      BY <2>1, <2>2, <2>3, <2>4
  <1>22. ASSUME NEW w \in Publishers, Claim(w)
         PROVE  (SentAtMostOnce /\ StatusHonest /\ TriesBounded /\ TriesLeft)'
    <2>1. PICK lost \in SUBSET Posts, mine \in SUBSET Posts : ClaimEffect(w, lost, mine)
      BY <1>22, ClaimFacts
    <2>2. QED
      BY <2>1, SMTT(30) DEF ClaimEffect
  <1>23. CASE UNCHANGED vars
    BY <1>23, SMTT(30) DEF vars
  <1>24. QED
    BY <1>1, <1>2, <1>3, <1>4, <1>5, <1>6, <1>7, <1>8, <1>9, <1>10, <1>11,
       <1>12, <1>13, <1>14, <1>15, <1>16, <1>17, <1>18, <1>19, <1>20, <1>21,
       <1>22, <1>23 DEF Next, People, Time, Pass, Sending

\* A stop that is on is seen before another send begins.
LEMMA StopStep ==
  ASSUME IInv, TypeOK', [Next]_vars PROVE (StopHoldsTheRest /\ StopIsSeen)'
  <1> USE ConstantsAssumption
      DEF IInv, TypeOK, PassShape, StopHoldsTheRest, StopIsSeen, Halted,
          Holds, Sends, passVars, ghostVars, keptVars
  <1>1. ASSUME NEW p \in Posts, Schedule(p)
        PROVE  (StopHoldsTheRest /\ StopIsSeen)'
    BY <1>1, SMTT(30) DEF Schedule, Active
  <1>2. ASSUME NEW p \in Posts, Cancel(p)
        PROVE  (StopHoldsTheRest /\ StopIsSeen)'
    BY <1>2, SMTT(30) DEF Cancel, Cancellable, Touch
  <1>3. ASSUME NEW k \in StopKinds, Stop(k)
        PROVE  (StopHoldsTheRest /\ StopIsSeen)'
    BY <1>3, SMTT(30) DEF Stop
  <1>4. ASSUME NEW k \in StopKinds, Resume(k)
        PROVE  (StopHoldsTheRest /\ StopIsSeen)'
    BY <1>4, SMTT(30) DEF Resume
  <1>5. ASSUME NEW p \in Posts, BecomeDue(p)
        PROVE  (StopHoldsTheRest /\ StopIsSeen)'
    BY <1>5, SMTT(30) DEF BecomeDue
  <1>6. ASSUME NEW p \in Posts, BecomeStale(p)
        PROVE  (StopHoldsTheRest /\ StopIsSeen)'
    BY <1>6, SMTT(30) DEF BecomeStale
  <1>7. ASSUME NEW p \in Posts, DayPasses(p)
        PROVE  (StopHoldsTheRest /\ StopIsSeen)'
    BY <1>7, SMTT(30) DEF DayPasses
  <1>8. ASSUME NEW w \in Publishers, StartPass(w)
        PROVE  (StopHoldsTheRest /\ StopIsSeen)'
    BY <1>8, SMTT(30) DEF StartPass, Goto
  <1>9. ASSUME NEW w \in Publishers, CountPosted(w)
        PROVE  (StopHoldsTheRest /\ StopIsSeen)'
    BY <1>9, SMTT(30) DEF CountPosted, Goto
  <1>10. ASSUME NEW w \in Publishers, HoldForStop(w)
         PROVE  (StopHoldsTheRest /\ StopIsSeen)'
    BY <1>10, SMTT(30) DEF HoldForStop, PutBack, Held, Forget, Goto
  <1>11. ASSUME NEW w \in Publishers, Relock(w)
         PROVE  (StopHoldsTheRest /\ StopIsSeen)'
    BY <1>11, SMTT(30) DEF Relock, StillPublishing, Goto
  <1>12. ASSUME NEW w \in Publishers, EndPass(w)
         PROVE  (StopHoldsTheRest /\ StopIsSeen)'
    BY <1>12, SMTT(30) DEF EndPass, Forget, Goto
  <1>13. ASSUME NEW w \in Publishers, NEW p \in Posts, HoldForCap(w, p)
         PROVE  (StopHoldsTheRest /\ StopIsSeen)'
    BY <1>13, SMTT(30) DEF HoldForCap, PutBack, Goto, Touch
  <1>14. ASSUME NEW w \in Publishers, NEW p \in Posts, PickNext(w, p)
         PROVE  (StopHoldsTheRest /\ StopIsSeen)'
    BY <1>14, SMTT(30) DEF PickNext, Goto
  <1>15. ASSUME NEW w \in Publishers, NEW p \in Posts, SendOk(w, p)
         PROVE  (StopHoldsTheRest /\ StopIsSeen)'
    BY <1>15, SMTT(30) DEF SendOk, Touch, Answered, Sent, MoveOn, Goto
  <1>16. ASSUME NEW w \in Publishers, NEW p \in Posts, SendWait(w, p)
         PROVE  (StopHoldsTheRest /\ StopIsSeen)'
    <2>1. CASE Answered(w, p, "wait") /\ deferrals[p] >= MaxDeferrals /\ Fail(p) /\ UNCHANGED deferrals
      BY <1>16, <2>1, SMTT(30)
        DEF SendWait, Touch, Answered, Sent, MoveOn, Goto, Defer, Fail
    <2>2. CASE /\ Answered(w, p, "wait") /\ deferrals[p] < MaxDeferrals
               /\ Defer(p) /\ deferrals' = [deferrals EXCEPT ![p] = @ + 1]
      BY <1>16, <2>2, SMTT(30)
        DEF SendWait, Touch, Answered, Sent, MoveOn, Goto, Defer, Fail
    <2>3. CASE Answered(w, p, "spacing") /\ Defer(p) /\ UNCHANGED deferrals
      BY <1>16, <2>3, SMTT(30)
        DEF SendWait, Touch, Answered, Sent, MoveOn, Goto, Defer, Fail
    <2>4. QED
      BY <1>16, <2>1, <2>2, <2>3 DEF SendWait
  <1>17. ASSUME NEW w \in Publishers, NEW p \in Posts, SendTransient(w, p)
         PROVE  (StopHoldsTheRest /\ StopIsSeen)'
    <2>1. CASE Retried(p) /\ Defer(p)
      BY <1>17, <2>1, SMTT(30)
        DEF SendTransient, Touch, Answered, Sent, MoveOn, Goto, Defer, Fail,
            Retried
    <2>2. CASE ~Retried(p) /\ Fail(p)
      BY <1>17, <2>2, SMTT(30)
        DEF SendTransient, Touch, Answered, Sent, MoveOn, Goto, Defer, Fail,
            Retried
    <2>3. QED
      BY <1>17, <2>1, <2>2 DEF SendTransient
  <1>18. ASSUME NEW w \in Publishers, NEW p \in Posts, SendRefused(w, p)
         PROVE  (StopHoldsTheRest /\ StopIsSeen)'
    BY <1>18, SMTT(30)
      DEF SendRefused, Touch, Answered, Sent, MoveOn, Goto, Fail
  <1>19. ASSUME NEW w \in Publishers, NEW p \in Posts, SendDatabaseError(w, p)
         PROVE  (StopHoldsTheRest /\ StopIsSeen)'
    BY <1>19, SMTT(30) DEF SendDatabaseError, Answered, Sent, Goto
  <1>20. ASSUME NEW w \in Publishers, NEW p \in Posts, RecordDatabaseError(w, p)
         PROVE  (StopHoldsTheRest /\ StopIsSeen)'
    BY <1>20, SMTT(30) DEF RecordDatabaseError, Touch, MoveOn, Goto, Fail
  <1>21. ASSUME NEW w \in Publishers, Crash(w)
         PROVE  (StopHoldsTheRest /\ StopIsSeen)'
    BY <1>21, SMTT(30) DEF Crash, Forget, Goto, Sent
  <1>22. ASSUME NEW w \in Publishers, Claim(w)
         PROVE  (StopHoldsTheRest /\ StopIsSeen)'
    <2>1. PICK lost \in SUBSET Posts, mine \in SUBSET Posts : ClaimEffect(w, lost, mine)
      BY <1>22, ClaimFacts
    <2>2. QED
      BY <2>1, SMTT(30) DEF ClaimEffect
  <1>23. CASE UNCHANGED vars
    BY <1>23, SMTT(30) DEF vars
  <1>24. QED
    BY <1>1, <1>2, <1>3, <1>4, <1>5, <1>6, <1>7, <1>8, <1>9, <1>10, <1>11,
       <1>12, <1>13, <1>14, <1>15, <1>16, <1>17, <1>18, <1>19, <1>20, <1>21,
       <1>22, <1>23 DEF Next, People, Time, Pass, Sending

\* What one step may do to the row q: only whoever holds it writes it or sends
\* it, but for people, the claim of a scheduled row and the recovery of a
\* claimed one; nothing becomes a draft; only a scheduled row is newly held.
RowChange(q) ==
    /\ status'[q] # status[q] \/ reached'[q] # reached[q] =>
          \/ status[q] \in {"none", "scheduled", "publishing"}
          \/ \E w \in Publishers : Holds(w, q)
    /\ status'[q] = "draft" => status[q] = "draft"
    /\ \A w \in Publishers : Holds(w, q)' => Holds(w, q) \/ status[q] = "scheduled"

\* No step does more.
LEMMA RowChanges ==
  ASSUME TypeOK, TypeOK', PassShape, HeldRows, [Next]_vars
  PROVE  \A q \in Posts : RowChange(q)
  <1> USE ConstantsAssumption DEF TypeOK, PassShape, HeldRows, Holds, Sends, RowChange,
      rowVars, passVars, ghostVars, keptVars
  <1>1. ASSUME NEW p \in Posts, Schedule(p) PROVE \A q \in Posts : RowChange(q)
    BY <1>1, SMTT(30) DEF Schedule, Active
  <1>2. ASSUME NEW p \in Posts, Cancel(p) PROVE \A q \in Posts : RowChange(q)
    BY <1>2, SMTT(30) DEF Cancel, Cancellable, Touch
  <1>3. ASSUME NEW k \in StopKinds, Stop(k) PROVE \A q \in Posts : RowChange(q)
    BY <1>3, SMTT(30) DEF Stop
  <1>4. ASSUME NEW k \in StopKinds, Resume(k) PROVE \A q \in Posts : RowChange(q)
    BY <1>4, SMTT(30) DEF Resume
  <1>5. ASSUME NEW p \in Posts, BecomeDue(p) PROVE \A q \in Posts : RowChange(q)
    BY <1>5, SMTT(30) DEF BecomeDue
  <1>6. ASSUME NEW p \in Posts, BecomeStale(p) PROVE \A q \in Posts : RowChange(q)
    BY <1>6, SMTT(30) DEF BecomeStale
  <1>7. ASSUME NEW p \in Posts, DayPasses(p) PROVE \A q \in Posts : RowChange(q)
    BY <1>7, SMTT(30) DEF DayPasses
  <1>8. ASSUME NEW w \in Publishers, StartPass(w) PROVE \A q \in Posts : RowChange(q)
    BY <1>8, SMTT(30) DEF StartPass, Goto
  <1>9. ASSUME NEW w \in Publishers, CountPosted(w) PROVE \A q \in Posts : RowChange(q)
    BY <1>9, SMTT(30) DEF CountPosted, Goto
  <1>10. ASSUME NEW w \in Publishers, HoldForStop(w) PROVE \A q \in Posts : RowChange(q)
    BY <1>10, SMTT(30) DEF HoldForStop, PutBack, Held, Forget, Goto
  <1>11. ASSUME NEW w \in Publishers, Relock(w) PROVE \A q \in Posts : RowChange(q)
    BY <1>11, SMTT(30) DEF Relock, StillPublishing, Goto
  <1>12. ASSUME NEW w \in Publishers, EndPass(w) PROVE \A q \in Posts : RowChange(q)
    BY <1>12, SMTT(30) DEF EndPass, Forget, Goto
  <1>13. ASSUME NEW w \in Publishers, NEW p \in Posts, HoldForCap(w, p) PROVE \A q \in Posts : RowChange(q)
    BY <1>13, SMTT(30) DEF HoldForCap, PutBack, Goto, Touch
  <1>14. ASSUME NEW w \in Publishers, NEW p \in Posts, PickNext(w, p) PROVE \A q \in Posts : RowChange(q)
    BY <1>14, SMTT(30) DEF PickNext, Goto
  <1>15. ASSUME NEW w \in Publishers, NEW p \in Posts, SendOk(w, p) PROVE \A q \in Posts : RowChange(q)
    BY <1>15, SMTT(30) DEF SendOk, Touch, Answered, Sent, MoveOn, Goto
  <1>16. ASSUME NEW w \in Publishers, NEW p \in Posts, SendWait(w, p) PROVE \A q \in Posts : RowChange(q)
    <2>1. CASE Answered(w, p, "wait") /\ deferrals[p] >= MaxDeferrals /\ Fail(p) /\ UNCHANGED deferrals
      BY <1>16, <2>1, SMTT(30)
        DEF SendWait, Touch, Answered, Sent, MoveOn, Goto, Defer, Fail
    <2>2. CASE /\ Answered(w, p, "wait") /\ deferrals[p] < MaxDeferrals
               /\ Defer(p) /\ deferrals' = [deferrals EXCEPT ![p] = @ + 1]
      BY <1>16, <2>2, SMTT(30)
        DEF SendWait, Touch, Answered, Sent, MoveOn, Goto, Defer, Fail
    <2>3. CASE Answered(w, p, "spacing") /\ Defer(p) /\ UNCHANGED deferrals
      BY <1>16, <2>3, SMTT(30)
        DEF SendWait, Touch, Answered, Sent, MoveOn, Goto, Defer, Fail
    <2>4. QED
      BY <1>16, <2>1, <2>2, <2>3 DEF SendWait
  <1>17. ASSUME NEW w \in Publishers, NEW p \in Posts, SendTransient(w, p) PROVE \A q \in Posts : RowChange(q)
    <2>1. CASE Retried(p) /\ Defer(p)
      BY <1>17, <2>1, SMTT(30)
        DEF SendTransient, Touch, Answered, Sent, MoveOn, Goto, Defer, Fail,
            Retried
    <2>2. CASE ~Retried(p) /\ Fail(p)
      BY <1>17, <2>2, SMTT(30)
        DEF SendTransient, Touch, Answered, Sent, MoveOn, Goto, Defer, Fail,
            Retried
    <2>3. QED
      BY <1>17, <2>1, <2>2 DEF SendTransient
  <1>18. ASSUME NEW w \in Publishers, NEW p \in Posts, SendRefused(w, p) PROVE \A q \in Posts : RowChange(q)
    BY <1>18, SMTT(30) DEF SendRefused, Touch, Answered, Sent, MoveOn, Goto, Fail
  <1>19. ASSUME NEW w \in Publishers, NEW p \in Posts, SendDatabaseError(w, p) PROVE \A q \in Posts : RowChange(q)
    BY <1>19, SMTT(30) DEF SendDatabaseError, Answered, Sent, Goto
  <1>20. ASSUME NEW w \in Publishers, NEW p \in Posts, RecordDatabaseError(w, p) PROVE \A q \in Posts : RowChange(q)
    BY <1>20, SMTT(30) DEF RecordDatabaseError, Touch, MoveOn, Goto, Fail
  <1>21. ASSUME NEW w \in Publishers, Crash(w) PROVE \A q \in Posts : RowChange(q)
    BY <1>21, SMTT(30) DEF Crash, Forget, Goto, Sent
  <1>22. ASSUME NEW w \in Publishers, Claim(w) PROVE \A q \in Posts : RowChange(q)
    <2>1. PICK lost \in SUBSET Posts, mine \in SUBSET Posts : ClaimEffect(w, lost, mine)
      BY <1>22, ClaimFacts
    <2>2. QED
      BY <2>1, SMTT(30) DEF ClaimEffect
  <1>23. CASE UNCHANGED vars
    BY <1>23, SMTT(30) DEF vars
  <1>24. QED
    BY <1>1, <1>2, <1>3, <1>4, <1>5, <1>6, <1>7, <1>8, <1>9, <1>10, <1>11,
       <1>12, <1>13, <1>14, <1>15, <1>16, <1>17, <1>18, <1>19, <1>20, <1>21,
       <1>22, <1>23 DEF Next, People, Time, Pass, Sending

\* What a step of publisher w does to the publishers' memories: the others' stay,
\* and but for its claim w only ever lets go of rows.
MemoryChange(w) ==
    /\ \A v \in Publishers \ {w} :
          batch'[v] = batch[v] /\ current'[v] = current[v] /\ pc'[v] = pc[v]
    /\ pc[w] \notin {"idle", "claim"} =>
          /\ batch'[w] \subseteq batch[w]
          /\ current'[w] \in batch[w] \cup {current[w], NoPost}
          /\ pc'[w] \notin {"claim", "count"}

\* A pass or a death does no more.
LEMMA MemoryChanges ==
  ASSUME TypeOK, PassShape, NEW w \in Publishers, Pass(w) \/ Crash(w)
  PROVE  MemoryChange(w)
  <1> USE ConstantsAssumption DEF TypeOK, PassShape, MemoryChange, passVars
  <1>1. ASSUME StartPass(w) PROVE MemoryChange(w)
    BY <1>1, SMTT(30) DEF StartPass, Goto
  <1>2. ASSUME CountPosted(w) PROVE MemoryChange(w)
    BY <1>2, SMTT(30) DEF CountPosted, Goto
  <1>3. ASSUME HoldForStop(w) PROVE MemoryChange(w)
    BY <1>3, SMTT(30) DEF HoldForStop, PutBack, Held, Forget, Goto
  <1>4. ASSUME Relock(w) PROVE MemoryChange(w)
    BY <1>4, SMTT(30) DEF Relock, StillPublishing, Goto
  <1>5. ASSUME EndPass(w) PROVE MemoryChange(w)
    BY <1>5, SMTT(30) DEF EndPass, Forget, Goto
  <1>6. ASSUME NEW p \in Posts, HoldForCap(w, p) PROVE MemoryChange(w)
    BY <1>6, SMTT(30) DEF HoldForCap, PutBack, Goto, Touch
  <1>7. ASSUME NEW p \in Posts, PickNext(w, p) PROVE MemoryChange(w)
    BY <1>7, SMTT(30) DEF PickNext, Goto
  <1>8. ASSUME NEW p \in Posts, SendOk(w, p) PROVE MemoryChange(w)
    BY <1>8, SMTT(30) DEF SendOk, Touch, Answered, Sends, Sent, MoveOn, Goto
  <1>9. ASSUME NEW p \in Posts, SendWait(w, p) PROVE MemoryChange(w)
    <2>1. CASE Answered(w, p, "wait") /\ deferrals[p] >= MaxDeferrals /\ Fail(p) /\ UNCHANGED deferrals
      BY <1>9, <2>1, SMTT(30)
        DEF SendWait, Touch, Answered, Sends, Sent, MoveOn, Goto, Defer, Fail
    <2>2. CASE /\ Answered(w, p, "wait") /\ deferrals[p] < MaxDeferrals
               /\ Defer(p) /\ deferrals' = [deferrals EXCEPT ![p] = @ + 1]
      BY <1>9, <2>2, SMTT(30)
        DEF SendWait, Touch, Answered, Sends, Sent, MoveOn, Goto, Defer, Fail
    <2>3. CASE Answered(w, p, "spacing") /\ Defer(p) /\ UNCHANGED deferrals
      BY <1>9, <2>3, SMTT(30)
        DEF SendWait, Touch, Answered, Sends, Sent, MoveOn, Goto, Defer, Fail
    <2>4. QED
      BY <1>9, <2>1, <2>2, <2>3 DEF SendWait
  <1>10. ASSUME NEW p \in Posts, SendTransient(w, p) PROVE MemoryChange(w)
    <2>1. CASE Retried(p) /\ Defer(p)
      BY <1>10, <2>1, SMTT(30)
        DEF SendTransient, Touch, Answered, Sends, Sent, MoveOn, Goto, Defer, Fail,
            Retried
    <2>2. CASE ~Retried(p) /\ Fail(p)
      BY <1>10, <2>2, SMTT(30)
        DEF SendTransient, Touch, Answered, Sends, Sent, MoveOn, Goto, Defer, Fail,
            Retried
    <2>3. QED
      BY <1>10, <2>1, <2>2 DEF SendTransient
  <1>11. ASSUME NEW p \in Posts, SendRefused(w, p) PROVE MemoryChange(w)
    BY <1>11, SMTT(30) DEF SendRefused, Touch, Answered, Sends, Sent, MoveOn, Goto, Fail
  <1>12. ASSUME NEW p \in Posts, SendDatabaseError(w, p) PROVE MemoryChange(w)
    BY <1>12, SMTT(30) DEF SendDatabaseError, Answered, Sends, Sent, Goto
  <1>13. ASSUME NEW p \in Posts, RecordDatabaseError(w, p) PROVE MemoryChange(w)
    BY <1>13, SMTT(30) DEF RecordDatabaseError, Touch, MoveOn, Goto, Fail
  <1>14. ASSUME Crash(w) PROVE MemoryChange(w)
    BY <1>14, SMTT(30) DEF Crash, Forget, Goto, Sent
  <1>15. ASSUME Claim(w) PROVE MemoryChange(w)
    <2>1. PICK lost \in SUBSET Posts, mine \in SUBSET Posts : ClaimEffect(w, lost, mine)
      BY <1>15, ClaimFacts
    <2>2. QED
      BY <2>1, SMTT(30) DEF ClaimEffect
  <1>16. QED
    BY <1>1, <1>2, <1>3, <1>4, <1>5, <1>6, <1>7, <1>8, <1>9, <1>10, <1>11,
       <1>12, <1>13, <1>14, <1>15 DEF Pass, Sending

\* A publisher only writes rows it holds, and those are "publishing" or "failed".
LEMMA FinalStep ==
  ASSUME IInv, TypeOK', [Next]_vars PROVE \A q \in Posts : StaysFinal(q)
  <1>1. \A q \in Posts : RowChange(q)
    BY RowChanges DEF IInv
  <1>2. \A q \in Posts : status[q] \in {"rejected", "published"} =>
            \A w \in Publishers : ~Holds(w, q)
    BY DEF IInv, HeldRows
  <1>3. QED
    BY <1>1, <1>2 DEF RowChange, StaysFinal

\* Every step keeps the whole invariant.
LEMMA StepPreserves == IInv /\ [Next]_vars => IInv'
  <1> SUFFICES ASSUME IInv, [Next]_vars PROVE IInv'
    OBVIOUS
  <1>1. TypeOK'
    BY TypeStep DEF IInv
  <1>2. QED
    BY <1>1, ShapeStep, HoldStep, UnsentStep, RowStep, StopStep DEF IInv

\* The inductive invariant holds in every reachable state.
THEOREM Invariance == Spec => []IInv
  <1>1. QED
    BY InitEstablishes, StepPreserves, PTL DEF Spec

\* Every variable keeps its type, whatever the constants.
THEOREM TypeCorrect == Spec => []TypeOK
  <1>1. IInv => TypeOK
    BY DEF IInv
  <1>2. QED
    BY <1>1, Invariance, PTL

\* No post is ever in the hands of two publishers (_claim_due's "together, no
\* post can be claimed twice"), for any number of publishers and any crashes.
THEOREM ClaimsAreExclusive == Spec => []ClaimedOnce
  <1>1. IInv => ClaimedOnce
    BY DEF IInv
  <1>2. QED
    BY <1>1, Invariance, PTL

\* A post goes out once, and again only after an answer was lost: not because
\* a publisher died, was overtaken by the recovery, or was stopped half-way.
THEOREM SendsAreNotRepeated == Spec => []SentAtMostOnce
  <1>1. IInv => SentAtMostOnce
    BY DEF IInv
  <1>2. QED
    BY <1>1, Invariance, PTL

\* A post shown as published is on the platform, and one shown as cancelled or
\* waiting is not, but for answers that were lost.
THEOREM StatusesAreHonest == Spec => []StatusHonest
  <1>1. IInv => StatusHonest
    BY DEF IInv
  <1>2. QED
    BY <1>1, Invariance, PTL

\* A stop lets each publisher finish one send and no more.
THEOREM StopIsRespected == Spec => []StopHoldsTheRest
  <1>1. IInv => StopHoldsTheRest
    BY DEF IInv
  <1>2. QED
    BY <1>1, Invariance, PTL

\* Tries and platform waits stay within their limits over all passes.
THEOREM TriesStayBounded == Spec => []TriesBounded
  <1>1. IInv => TriesBounded
    BY DEF IInv
  <1>2. QED
    BY <1>1, Invariance, PTL

\* The statuses "rejected" and "published" are final, however slow a publisher
\* that claimed the row once may be.
THEOREM FinalStatuses == Spec => CancelAndPublishAreFinal
  <1>1. IInv /\ IInv' /\ [Next]_vars => [\A p \in Posts : StaysFinal(p)]_vars
    <2> SUFFICES ASSUME IInv, IInv', [Next]_vars
                 PROVE  \A p \in Posts : StaysFinal(p)
      OBVIOUS
    <2>1. QED
      BY FinalStep DEF IInv
  <1>2. QED
    BY <1>1, Invariance, PTL DEF Spec, CancelAndPublishAreFinal

-----------------------------------------------------------------------------
(* The refinement of PostLifecycle.  Each action of a publisher or a person *)
(* is a step of the abstract specification or leaves the posts' lives       *)
(* alone; that a publisher holds only rows that may still go out is         *)
(* HeldRows and HeldUnsent.                                                 *)

\* How each status reads in the abstract specification.
LEMMA LifeValues ==
  ASSUME TypeOK, NEW p \in Posts
  PROVE  /\ Life[p] = LifeOf[status[p]]
         /\ status[p] \in {"none", "draft"} => Life[p] = "absent"
         /\ status[p] = "scheduled" => Life[p] = "waiting"
         /\ status[p] = "publishing" => Life[p] = "taken"
         /\ status[p] = "failed" => Life[p] = "failed"
  <1>1. QED
    BY DEF TypeOK, Life, LifeOf

\* Writing one row's status is one post changing its life.
LEMMA LifeChange ==
  ASSUME TypeOK, NEW p \in Posts, NEW s \in Statuses, status' = [status EXCEPT ![p] = s]
  PROVE  Life' = [Life EXCEPT ![p] = LifeOf[s]]
  <1>1. \A q \in Posts : Life'[q] = [Life EXCEPT ![p] = LifeOf[s]][q]
    BY DEF TypeOK, Life
  <1>2. QED
    BY <1>1 DEF Life

\* A row's status does not change: neither does its life.
LEMMA LifeStays ==
  ASSUME UNCHANGED status
  PROVE  Life' = Life
  <1>1. QED
    BY DEF Life

\* The abstract variables, when nothing the abstract specification speaks of moves.
LEMMA Stutter ==
  ASSUME UNCHANGED <<status, reached, unsure>>
  PROVE  UNCHANGED Lifecycle!vars
  <1>1. QED
    BY LifeStays DEF Lifecycle!vars

\* A row that is put back, or given up on, by the publisher that holds it.
LEMMA Released ==
  ASSUME IInv, NEW p \in Posts, NEW s \in {"scheduled", "failed"},
         status[p] \in {"publishing", "failed"},
         s = "scheduled" => reached[p] <= unsure[p],
         status' = [status EXCEPT ![p] = s], UNCHANGED <<reached, unsure>>
  PROVE  Lifecycle!Next
  <1>0. TypeOK /\ s \in Statuses
    BY DEF IInv, Statuses
  <1>1. Life' = [Life EXCEPT ![p] = LifeOf[s]]
    BY <1>0, LifeChange
  <1>2. Life[p] \in {"taken", "failed"}
    BY LifeValues DEF IInv
  <1>3. CASE s = "scheduled"
    <2>1. LifeOf[s] = "waiting"
      BY <1>3 DEF LifeOf
    <2>2. Life' = [q \in Posts |-> IF q \in {p} THEN "waiting" ELSE Life[q]]
      BY <1>1, <2>1 DEF Life
    <2>3. Lifecycle!PutBack({p})
      BY <1>2, <1>3, <2>2 DEF Lifecycle!PutBack, Lifecycle!Undelivered
    <2>4. QED
      BY <2>3 DEF Lifecycle!Next
  <1>4. CASE s = "failed"
    <2>1. LifeOf[s] = "failed"
      BY <1>4 DEF LifeOf
    <2>2. Lifecycle!GiveUp(p)
      BY <1>1, <1>2, <2>1 DEF Lifecycle!GiveUp, Lifecycle!Becomes
    <2>3. QED
      BY <2>2 DEF Lifecycle!Next
  <1>5. QED
    BY <1>3, <1>4

\* A send that reached the platform, from the hands of the publisher that holds
\* the row's lock: the answer came, was lost, or was never recorded.
LEMMA Delivered ==
  ASSUME IInv, NEW p \in Posts, NEW w \in Publishers, Sends(w, p),
         reached' = [reached EXCEPT ![p] = @ + 1],
         \/ status' = [status EXCEPT ![p] = "published"] /\ UNCHANGED unsure
         \/ /\ \E s \in {"scheduled", "failed"} : status' = [status EXCEPT ![p] = s]
            /\ unsure' = [unsure EXCEPT ![p] = @ + 1]
         \/ UNCHANGED <<status, unsure>>
  PROVE  Lifecycle!Next
  <1>1. status[p] = "publishing" /\ reached[p] <= unsure[p]
    BY DEF IInv, HeldRows, HeldUnsent, Holds, Sends
  <1>2. Life[p] = "taken" /\ Lifecycle!Undelivered(p)
    BY <1>1, LifeValues DEF IInv, Lifecycle!Undelivered
  <1>3. CASE status' = [status EXCEPT ![p] = "published"] /\ UNCHANGED unsure
    <2>1. Life' = [Life EXCEPT ![p] = "published"]
      BY <1>3, LifeChange DEF IInv, Statuses, LifeOf
    <2>2. Lifecycle!Deliver(p)
      BY <1>2, <1>3, <2>1 DEF Lifecycle!Deliver, Lifecycle!Becomes
    <2>3. QED
      BY <2>2 DEF Lifecycle!Next
  <1>4. CASE /\ \E s \in {"scheduled", "failed"} : status' = [status EXCEPT ![p] = s]
             /\ unsure' = [unsure EXCEPT ![p] = @ + 1]
    <2>1. PICK s \in {"scheduled", "failed"} : status' = [status EXCEPT ![p] = s]
      BY <1>4
    <2>2. Life' = [Life EXCEPT ![p] = LifeOf[s]]
      BY <2>1, LifeChange DEF IInv, Statuses
    <2>3. LifeOf[s] \in {"waiting", "failed"}
      BY <2>1 DEF LifeOf
    <2>4. Lifecycle!Deliver(p)
      BY <1>2, <1>4, <2>2, <2>3 DEF Lifecycle!Deliver, Lifecycle!Becomes
    <2>5. QED
      BY <2>4 DEF Lifecycle!Next
  <1>5. CASE UNCHANGED <<status, unsure>>
    <2>1. Life' = Life
      BY <1>5, LifeStays
    <2>2. Lifecycle!Deliver(p)
      BY <1>2, <1>5, <2>1 DEF Lifecycle!Deliver
    <2>3. QED
      BY <2>2 DEF Lifecycle!Next
  <1>6. QED
    BY <1>3, <1>4, <1>5

\* A claim takes scheduled rows and gives up on interrupted ones.
LEMMA ClaimTakes ==
  ASSUME IInv, NEW w \in Publishers, Claim(w)
  PROVE  Lifecycle!Next
  <1>1. PICK lost \in SUBSET Posts, mine \in SUBSET Posts : ClaimEffect(w, lost, mine)
    BY ClaimFacts
  <1>2. \A p \in mine : Life[p] = "waiting"
    BY <1>1, LifeValues DEF IInv, ClaimEffect
  <1>3. \A p \in lost : Life[p] = "taken"
    BY <1>1, LifeValues DEF IInv, ClaimEffect
  <1>4. Life' = [p \in Posts |->
            IF p \in mine THEN "taken" ELSE IF p \in lost THEN "failed" ELSE Life[p]]
    BY <1>1 DEF ClaimEffect, Life, LifeOf
  <1>5. Lifecycle!Take(mine, lost)
    BY <1>1, <1>2, <1>3, <1>4 DEF Lifecycle!Take, ClaimEffect, ghostVars, keptVars
  <1>6. QED
    BY <1>5 DEF Lifecycle!Next

\* A stop puts back what the publisher still has to look at.
LEMMA HoldPutsBack ==
  ASSUME IInv, NEW w \in Publishers, HoldForStop(w)
  PROVE  Lifecycle!Next
  <1>1. Held(w) \subseteq batch[w] /\ Held(w) \in SUBSET Posts
    BY DEF IInv, TypeOK, Held
  <1>2. \A p \in Held(w) : status[p] \in {"publishing", "failed"} /\ reached[p] <= unsure[p]
    BY <1>1 DEF IInv, HeldRows, HeldUnsent, Holds
  <1>3. \A p \in Held(w) : Life[p] \in {"taken", "failed"} /\ Lifecycle!Undelivered(p)
    BY <1>1, <1>2, LifeValues DEF IInv, Lifecycle!Undelivered
  <1>4. Life' = [p \in Posts |-> IF p \in Held(w) THEN "waiting" ELSE Life[p]]
    BY <1>1 DEF HoldForStop, PutBack, Life, LifeOf
  <1>5. UNCHANGED <<reached, unsure>>
    BY DEF HoldForStop, PutBack, ghostVars, keptVars
  <1>6. Lifecycle!PutBack(Held(w))
    BY <1>3, <1>4, <1>5 DEF Lifecycle!PutBack
  <1>7. QED
    BY <1>1, <1>6 DEF Lifecycle!Next

\* A step of the abstract specification, or none of it.
LifeStep == [Lifecycle!Next]_(Lifecycle!vars)

\* Every step is one.
LEMMA LifecycleStep ==
  ASSUME IInv, [Next]_vars
  PROVE  LifeStep
  <1> USE DEF LifeStep, rowVars, passVars, ghostVars, keptVars
  <1>1. ASSUME NEW p \in Posts, Schedule(p) PROVE LifeStep
    <2>1. Life' = [Life EXCEPT ![p] = LifeOf["scheduled"]]
      BY <1>1, LifeChange DEF IInv, Schedule, Statuses
    <2>2. LifeOf["scheduled"] = "waiting"
      BY DEF LifeOf
    <2>3. Life[p] = "absent"
      BY <1>1, LifeValues DEF IInv, Schedule
    <2>4. Lifecycle!Plan(p)
      BY <1>1, <2>1, <2>2, <2>3 DEF Lifecycle!Plan, Lifecycle!Becomes, Schedule
    <2>5. QED
      BY <2>4 DEF Lifecycle!Next
  <1>2. ASSUME NEW p \in Posts, Cancel(p) PROVE LifeStep
    <2>1. Life' = [Life EXCEPT ![p] = LifeOf["rejected"]]
      BY <1>2, LifeChange DEF IInv, Cancel, Statuses
    <2>2. LifeOf["rejected"] = "cancelled"
      BY DEF LifeOf
    <2>3. Life[p] = "waiting"
      BY <1>2, LifeValues DEF IInv, Cancel, Cancellable
    <2>4. Lifecycle!Withdraw(p)
      BY <1>2, <2>1, <2>2, <2>3 DEF Lifecycle!Withdraw, Lifecycle!Becomes, Cancel
    <2>5. QED
      BY <2>4 DEF Lifecycle!Next
  <1>3. ASSUME NEW s \in StopKinds, Stop(s) PROVE LifeStep
    BY <1>3, Stutter DEF Stop
  <1>4. ASSUME NEW s \in StopKinds, Resume(s) PROVE LifeStep
    BY <1>4, Stutter DEF Resume
  <1>5. ASSUME NEW p \in Posts, BecomeDue(p) PROVE LifeStep
    BY <1>5, Stutter DEF BecomeDue
  <1>6. ASSUME NEW p \in Posts, BecomeStale(p) PROVE LifeStep
    BY <1>6, Stutter DEF BecomeStale
  <1>7. ASSUME NEW p \in Posts, DayPasses(p) PROVE LifeStep
    BY <1>7, Stutter DEF DayPasses
  <1>8. ASSUME NEW w \in Publishers, StartPass(w) PROVE LifeStep
    BY <1>8, Stutter DEF StartPass
  <1>9. ASSUME NEW w \in Publishers, CountPosted(w) PROVE LifeStep
    BY <1>9, Stutter DEF CountPosted
  <1>10. ASSUME NEW w \in Publishers, Relock(w) PROVE LifeStep
    BY <1>10, Stutter DEF Relock, Goto
  <1>11. ASSUME NEW w \in Publishers, EndPass(w) PROVE LifeStep
    BY <1>11, Stutter DEF EndPass
  <1>12. ASSUME NEW w \in Publishers, NEW p \in Posts, PickNext(w, p) PROVE LifeStep
    BY <1>12, Stutter DEF PickNext
  <1>13. ASSUME NEW w \in Publishers, HoldForStop(w) PROVE LifeStep
    BY <1>13, HoldPutsBack
  <1>14. ASSUME NEW w \in Publishers, Claim(w) PROVE LifeStep
    BY <1>14, ClaimTakes
  <1>15. ASSUME NEW w \in Publishers, NEW p \in Posts, HoldForCap(w, p) PROVE LifeStep
    <2>1. status[p] \in {"publishing", "failed"} /\ reached[p] <= unsure[p]
      BY <1>15 DEF IInv, HeldRows, HeldUnsent, Holds, HoldForCap
    <2>2. QED
      BY <1>15, <2>1, Released DEF HoldForCap, PutBack
  <1>16. ASSUME NEW w \in Publishers, NEW p \in Posts, SendOk(w, p) PROVE LifeStep
    BY <1>16, Delivered DEF SendOk, Answered, Sent
  <1>17. ASSUME NEW w \in Publishers, NEW p \in Posts, SendWait(w, p) PROVE LifeStep
    <2>1. status[p] \in {"publishing", "failed"} /\ reached[p] <= unsure[p]
      BY <1>17 DEF IInv, HeldRows, HeldUnsent, Holds, Sends, Answered, SendWait
    <2>2. UNCHANGED <<reached, unsure>>
      <3>1. reached' = [reached EXCEPT ![p] = @ + 0] /\ UNCHANGED unsure
        BY <1>17 DEF SendWait, Sent
      <3>2. QED
        BY <3>1 DEF IInv, TypeOK
    <2>3. \E s \in {"scheduled", "failed"} : status' = [status EXCEPT ![p] = s]
      BY <1>17 DEF SendWait, Defer, Fail
    <2>4. QED
      BY <2>1, <2>2, <2>3, Released
  <1>18. ASSUME NEW w \in Publishers, NEW p \in Posts, SendTransient(w, p) PROVE LifeStep
    <2>1. \E s \in {"scheduled", "failed"} : status' = [status EXCEPT ![p] = s]
      BY <1>18 DEF SendTransient, Defer, Fail
    <2>2. CASE Answered(w, p, "transient") /\ Sent(w, p, 0) /\ UNCHANGED unsure
      <3>1. status[p] \in {"publishing", "failed"} /\ reached[p] <= unsure[p]
        BY <2>2 DEF IInv, HeldRows, HeldUnsent, Holds, Sends, Answered
      <3>2. UNCHANGED reached
        BY <2>2 DEF IInv, TypeOK, Sent
      <3>3. QED
        BY <2>1, <2>2, <3>1, <3>2, Released
    <2>3. CASE /\ Answered(w, p, "lost") /\ Sent(w, p, 1)
               /\ unsure' = [unsure EXCEPT ![p] = @ + 1]
      <3>1. Sends(w, p) /\ reached' = [reached EXCEPT ![p] = @ + 1]
        BY <2>3 DEF Answered, Sent
      <3>2. QED
        BY <2>1, <2>3, <3>1, Delivered
    <2>4. QED
      BY <1>18, <2>2, <2>3 DEF SendTransient
  <1>19. ASSUME NEW w \in Publishers, NEW p \in Posts, SendRefused(w, p) PROVE LifeStep
    <2>1. status[p] \in {"publishing", "failed"} /\ reached[p] <= unsure[p]
      BY <1>19 DEF IInv, HeldRows, HeldUnsent, Holds, Sends, Answered, SendRefused
    <2>2. UNCHANGED <<reached, unsure>>
      <3>1. reached' = [reached EXCEPT ![p] = @ + 0] /\ UNCHANGED unsure
        BY <1>19 DEF SendRefused, Sent
      <3>2. QED
        BY <3>1 DEF IInv, TypeOK
    <2>3. QED
      BY <1>19, <2>1, <2>2, Released DEF SendRefused, Fail
  <1>20. ASSUME NEW w \in Publishers, NEW p \in Posts, SendDatabaseError(w, p) PROVE LifeStep
    <2>1. PICK n \in {0, 1} : Sent(w, p, n)
      BY <1>20 DEF SendDatabaseError
    <2>2. Sends(w, p) /\ UNCHANGED <<status, unsure>>
      BY <1>20 DEF SendDatabaseError, Answered
    <2>3. CASE n = 0
      <3>1. UNCHANGED reached
        BY <2>1, <2>3 DEF IInv, TypeOK, Sent
      <3>2. QED
        BY <2>2, <3>1, Stutter
    <2>4. CASE n = 1
      <3>1. reached' = [reached EXCEPT ![p] = @ + 1]
        BY <2>1, <2>4 DEF Sent
      <3>2. QED
        BY <2>2, <3>1, Delivered
    <2>5. QED
      BY <2>1, <2>3, <2>4
  <1>21. ASSUME NEW w \in Publishers, NEW p \in Posts, RecordDatabaseError(w, p) PROVE LifeStep
    <2>1. status[p] \in {"publishing", "failed"}
      BY <1>21 DEF IInv, HeldRows, HeldUnsent, Holds, RecordDatabaseError
    <2>2. QED
      BY <1>21, <2>1, Released DEF RecordDatabaseError, Fail
  <1>22. ASSUME NEW w \in Publishers, Crash(w) PROVE LifeStep
    <2>1. CASE pc[w] # "sending"
      BY <1>22, <2>1, Stutter DEF Crash
    <2>2. CASE pc[w] = "sending"
      <3>1. PICK n \in {0, 1} : Sent(w, current[w], n)
        BY <1>22, <2>2 DEF Crash
      <3>2. /\ current[w] \in Posts /\ Sends(w, current[w])
            /\ UNCHANGED <<status, unsure>>
        BY <1>22, <2>2 DEF IInv, TypeOK, PassShape, Sends, Crash
      <3>3. CASE n = 0
        <4>1. UNCHANGED reached
          BY <3>1, <3>3 DEF IInv, TypeOK, Sent
        <4>2. QED
          BY <3>2, <4>1, Stutter
      <3>4. CASE n = 1
        <4>1. reached' = [reached EXCEPT ![current[w]] = @ + 1]
          BY <3>1, <3>4 DEF Sent
        <4>2. QED
          BY <3>2, <4>1, Delivered
      <3>5. QED
        BY <3>1, <3>3, <3>4
    <2>3. QED
      BY <2>1, <2>2
  <1>23. CASE UNCHANGED vars
    BY <1>23, Stutter DEF vars
  <1> HIDE DEF LifeStep, rowVars, passVars, ghostVars, keptVars
  <1>24. QED
    BY <1>1, <1>2, <1>3, <1>4, <1>5, <1>6, <1>7, <1>8, <1>9, <1>10, <1>11, <1>12, <1>13, <1>14, <1>15, <1>16, <1>17, <1>18, <1>19, <1>20, <1>21, <1>22, <1>23 DEF Next, People, Time, Pass, Sending

\* The publisher implements its abstract specification: no interleaving of
\* publishers, people, stops and deaths sends a post that nobody holds or that
\* already went out, or puts one back that did.
THEOREM PublisherImplementsLifecycle == Spec => ImplementsLifecycle
  <1>1. Init => Lifecycle!Init
    BY DEF Init, InitWith, Lifecycle!Init, Life, LifeOf
  <1>2. IInv /\ [Next]_vars => [Lifecycle!Next]_(Lifecycle!vars)
    BY LifecycleStep DEF LifeStep
  <1>3. QED
    BY <1>1, <1>2, Invariance, PTL DEF Spec, ImplementsLifecycle, Lifecycle!Spec

-----------------------------------------------------------------------------
(* The daily limit and the keys.                                            *)

\* Posts can be counted, and fewer are counted of a smaller set.
LEMMA PostsCount ==
  ASSUME NEW S \in SUBSET Posts, NEW T \in SUBSET S
  PROVE  /\ IsFiniteSet(S) /\ Cardinality(S) \in Nat /\ Cardinality(T) \in Nat
         /\ Cardinality(T) <= Cardinality(S)
  <1>1. IsFiniteSet(S) /\ IsFiniteSet(T)
    BY ConstantsAssumption, FS_Subset
  <1>2. QED
    BY <1>1, FS_Subset, FS_CardinalityType

\* A row that becomes active was scheduled, or is put back by a hold that did not
\* see it given up; and what was put back so stays known.
NewlyActive ==
    /\ revived \subseteq revived'
    /\ \A q \in Posts :
          status'[q] \in Active /\ status[q] \notin Active => Schedule(q) \/ q \in revived'

\* Nothing else makes a row active that was not.
LEMMA ActiveAgain ==
  ASSUME TypeOK, TypeOK', PassShape, HeldRows, [Next]_vars
  PROVE  NewlyActive
  <1> USE ConstantsAssumption DEF NewlyActive, HeldRows, Active,
      TypeOK, PassShape, Holds, Sends, rowVars, passVars, ghostVars, keptVars
  <1>1. ASSUME NEW p \in Posts, Schedule(p) PROVE NewlyActive
    <2>1. status' = [status EXCEPT ![p] = "scheduled"]
      BY <1>1 DEF Schedule
    <2>2. \A q \in Posts : q # p => status'[q] = status[q]
      BY <2>1
    <2>3. revived' = revived
      BY <1>1 DEF Schedule
    <2>4. QED
      BY <1>1, <2>2, <2>3
  <1>2. ASSUME NEW p \in Posts, Cancel(p) PROVE NewlyActive
    BY <1>2, SMTT(30) DEF Cancel, Cancellable, Touch
  <1>3. ASSUME NEW k \in StopKinds, Stop(k) PROVE NewlyActive
    BY <1>3, SMTT(30) DEF Stop
  <1>4. ASSUME NEW k \in StopKinds, Resume(k) PROVE NewlyActive
    BY <1>4, SMTT(30) DEF Resume
  <1>5. ASSUME NEW p \in Posts, BecomeDue(p) PROVE NewlyActive
    BY <1>5, SMTT(30) DEF BecomeDue
  <1>6. ASSUME NEW p \in Posts, BecomeStale(p) PROVE NewlyActive
    BY <1>6, SMTT(30) DEF BecomeStale
  <1>7. ASSUME NEW p \in Posts, DayPasses(p) PROVE NewlyActive
    BY <1>7, SMTT(30) DEF DayPasses
  <1>8. ASSUME NEW w \in Publishers, StartPass(w) PROVE NewlyActive
    BY <1>8, SMTT(30) DEF StartPass, Goto
  <1>9. ASSUME NEW w \in Publishers, CountPosted(w) PROVE NewlyActive
    BY <1>9, SMTT(30) DEF CountPosted, Goto
  <1>10. ASSUME NEW w \in Publishers, HoldForStop(w) PROVE NewlyActive
    BY <1>10, SMTT(30) DEF HoldForStop, PutBack, Held, Forget, Goto
  <1>11. ASSUME NEW w \in Publishers, Relock(w) PROVE NewlyActive
    BY <1>11, SMTT(30) DEF Relock, StillPublishing, Goto
  <1>12. ASSUME NEW w \in Publishers, EndPass(w) PROVE NewlyActive
    BY <1>12, SMTT(30) DEF EndPass, Forget, Goto
  <1>13. ASSUME NEW w \in Publishers, NEW p \in Posts, HoldForCap(w, p) PROVE NewlyActive
    BY <1>13, SMTT(30) DEF HoldForCap, PutBack, Goto, Touch
  <1>14. ASSUME NEW w \in Publishers, NEW p \in Posts, PickNext(w, p) PROVE NewlyActive
    BY <1>14, SMTT(30) DEF PickNext, Goto
  <1>15. ASSUME NEW w \in Publishers, NEW p \in Posts, SendOk(w, p) PROVE NewlyActive
    BY <1>15, SMTT(30) DEF SendOk, Touch, Answered, Sent, MoveOn, Goto
  <1>16. ASSUME NEW w \in Publishers, NEW p \in Posts, SendWait(w, p) PROVE NewlyActive
    <2>1. CASE Answered(w, p, "wait") /\ deferrals[p] >= MaxDeferrals /\ Fail(p) /\ UNCHANGED deferrals
      BY <1>16, <2>1, SMTT(30)
        DEF SendWait, Touch, Answered, Sent, MoveOn, Goto, Defer, Fail
    <2>2. CASE /\ Answered(w, p, "wait") /\ deferrals[p] < MaxDeferrals
               /\ Defer(p) /\ deferrals' = [deferrals EXCEPT ![p] = @ + 1]
      BY <1>16, <2>2, SMTT(30)
        DEF SendWait, Touch, Answered, Sent, MoveOn, Goto, Defer, Fail
    <2>3. CASE Answered(w, p, "spacing") /\ Defer(p) /\ UNCHANGED deferrals
      BY <1>16, <2>3, SMTT(30)
        DEF SendWait, Touch, Answered, Sent, MoveOn, Goto, Defer, Fail
    <2>4. QED
      BY <1>16, <2>1, <2>2, <2>3 DEF SendWait
  <1>17. ASSUME NEW w \in Publishers, NEW p \in Posts, SendTransient(w, p) PROVE NewlyActive
    <2>1. CASE Retried(p) /\ Defer(p)
      BY <1>17, <2>1, SMTT(30)
        DEF SendTransient, Touch, Answered, Sent, MoveOn, Goto, Defer, Fail,
            Retried
    <2>2. CASE ~Retried(p) /\ Fail(p)
      BY <1>17, <2>2, SMTT(30)
        DEF SendTransient, Touch, Answered, Sent, MoveOn, Goto, Defer, Fail,
            Retried
    <2>3. QED
      BY <1>17, <2>1, <2>2 DEF SendTransient
  <1>18. ASSUME NEW w \in Publishers, NEW p \in Posts, SendRefused(w, p) PROVE NewlyActive
    BY <1>18, SMTT(30) DEF SendRefused, Touch, Answered, Sent, MoveOn, Goto, Fail
  <1>19. ASSUME NEW w \in Publishers, NEW p \in Posts, SendDatabaseError(w, p) PROVE NewlyActive
    BY <1>19, SMTT(30) DEF SendDatabaseError, Answered, Sent, Goto
  <1>20. ASSUME NEW w \in Publishers, NEW p \in Posts, RecordDatabaseError(w, p) PROVE NewlyActive
    BY <1>20, SMTT(30) DEF RecordDatabaseError, Touch, MoveOn, Goto, Fail
  <1>21. ASSUME NEW w \in Publishers, Crash(w) PROVE NewlyActive
    BY <1>21, SMTT(30) DEF Crash, Forget, Goto, Sent
  <1>22. ASSUME NEW w \in Publishers, Claim(w) PROVE NewlyActive
    <2>1. PICK lost \in SUBSET Posts, mine \in SUBSET Posts : ClaimEffect(w, lost, mine)
      BY <1>22, ClaimFacts
    <2>2. QED
      BY <2>1, SMTT(30) DEF ClaimEffect
  <1>23. CASE UNCHANGED vars
    BY <1>23, SMTT(30) DEF vars
  <1>24. QED
    BY <1>1, <1>2, <1>3, <1>4, <1>5, <1>6, <1>7, <1>8, <1>9, <1>10, <1>11,
       <1>12, <1>13, <1>14, <1>15, <1>16, <1>17, <1>18, <1>19, <1>20, <1>21,
       <1>22, <1>23 DEF Next, People, Time, Pass, Sending

\* Schedule looks for active rows with the key, so keys stay apart but for rows
\* that were put back.
LEMMA KeysStayApart ==
  ASSUME TypeOK, TypeOK', PassShape, HeldRows, OneActivePerKey, [Next]_vars
  PROVE  OneActivePerKey'
  <1>1. SUFFICES ASSUME NEW p \in Posts, NEW q \in Posts, p # q, KeyOf[q] = KeyOf[p],
                        status'[p] \in Active, status'[q] \in Active, status[p] \notin Active,
                        p \notin revived', q \notin revived'
                 PROVE  FALSE
    BY ActiveAgain DEF OneActivePerKey, NewlyActive
  <1>2. Schedule(p)
    BY <1>1, ActiveAgain DEF NewlyActive
  <1>3. status[q] \notin Active /\ status' = [status EXCEPT ![p] = "scheduled"]
    BY <1>1, <1>2 DEF Schedule
  <1>4. QED
    BY <1>1, <1>3 DEF TypeOK

\* However many publishers overlap, die and recover each other's posts, and
\* whatever keys posts have: two active rows with one key only after a hold put
\* back a row that had been given up.
THEOREM KeysAreUnique == Spec => []OneActivePerKey
  <1>1. Init => OneActivePerKey
    BY DEF Init, InitWith, OneActivePerKey, Active
  <1>2. IInv /\ IInv' /\ OneActivePerKey /\ [Next]_vars => OneActivePerKey'
    BY KeysStayApart DEF IInv
  <1>3. QED
    BY <1>1, <1>2, Invariance, PTL DEF Spec

\* What publishers published in the last 24 hours: a send that succeeds adds its
\* post to its publisher's, no other step adds any.
SentByGrows ==
    \/ \A v \in Publishers : sentBy'[v] \subseteq sentBy[v]
    \/ \E w \in Publishers, p \in Posts :
          SendOk(w, p) /\ sentBy' = [sentBy EXCEPT ![w] = @ \cup {p}]

\* No step adds more.
LEMMA SentByStep ==
  ASSUME TypeOK, TypeOK', [Next]_vars
  PROVE  SentByGrows
  <1> USE ConstantsAssumption DEF SentByGrows, TypeOK, rowVars, passVars, ghostVars, keptVars
  <1>1. ASSUME NEW p \in Posts, Schedule(p) PROVE SentByGrows
    BY <1>1, SMTT(30) DEF Schedule, Active
  <1>2. ASSUME NEW p \in Posts, Cancel(p) PROVE SentByGrows
    BY <1>2, SMTT(30) DEF Cancel, Cancellable, Touch
  <1>3. ASSUME NEW k \in StopKinds, Stop(k) PROVE SentByGrows
    BY <1>3, SMTT(30) DEF Stop
  <1>4. ASSUME NEW k \in StopKinds, Resume(k) PROVE SentByGrows
    BY <1>4, SMTT(30) DEF Resume
  <1>5. ASSUME NEW p \in Posts, BecomeDue(p) PROVE SentByGrows
    BY <1>5, SMTT(30) DEF BecomeDue
  <1>6. ASSUME NEW p \in Posts, BecomeStale(p) PROVE SentByGrows
    BY <1>6, SMTT(30) DEF BecomeStale
  <1>7. ASSUME NEW p \in Posts, DayPasses(p) PROVE SentByGrows
    BY <1>7, SMTT(30) DEF DayPasses
  <1>8. ASSUME NEW w \in Publishers, StartPass(w) PROVE SentByGrows
    BY <1>8, SMTT(30) DEF StartPass, Goto
  <1>9. ASSUME NEW w \in Publishers, CountPosted(w) PROVE SentByGrows
    BY <1>9, SMTT(30) DEF CountPosted, Goto
  <1>10. ASSUME NEW w \in Publishers, HoldForStop(w) PROVE SentByGrows
    BY <1>10, SMTT(30) DEF HoldForStop, PutBack, Held, Forget, Goto
  <1>11. ASSUME NEW w \in Publishers, Relock(w) PROVE SentByGrows
    BY <1>11, SMTT(30) DEF Relock, StillPublishing, Goto
  <1>12. ASSUME NEW w \in Publishers, EndPass(w) PROVE SentByGrows
    BY <1>12, SMTT(30) DEF EndPass, Forget, Goto
  <1>13. ASSUME NEW w \in Publishers, NEW p \in Posts, HoldForCap(w, p) PROVE SentByGrows
    BY <1>13, SMTT(30) DEF HoldForCap, PutBack, Goto, Touch
  <1>14. ASSUME NEW w \in Publishers, NEW p \in Posts, PickNext(w, p) PROVE SentByGrows
    BY <1>14, SMTT(30) DEF PickNext, Goto
  <1>15. ASSUME NEW w \in Publishers, NEW p \in Posts, SendOk(w, p) PROVE SentByGrows
    <2>1. sentBy' = [sentBy EXCEPT ![w] = @ \cup {p}]
      BY <1>15 DEF SendOk
    <2>2. QED
      BY <1>15, <2>1 DEF SentByGrows
  <1>16. ASSUME NEW w \in Publishers, NEW p \in Posts, SendWait(w, p) PROVE SentByGrows
    <2>1. CASE Answered(w, p, "wait") /\ deferrals[p] >= MaxDeferrals /\ Fail(p) /\ UNCHANGED deferrals
      BY <1>16, <2>1, SMTT(30)
        DEF SendWait, Touch, Answered, Sent, MoveOn, Goto, Defer, Fail
    <2>2. CASE /\ Answered(w, p, "wait") /\ deferrals[p] < MaxDeferrals
               /\ Defer(p) /\ deferrals' = [deferrals EXCEPT ![p] = @ + 1]
      BY <1>16, <2>2, SMTT(30)
        DEF SendWait, Touch, Answered, Sent, MoveOn, Goto, Defer, Fail
    <2>3. CASE Answered(w, p, "spacing") /\ Defer(p) /\ UNCHANGED deferrals
      BY <1>16, <2>3, SMTT(30)
        DEF SendWait, Touch, Answered, Sent, MoveOn, Goto, Defer, Fail
    <2>4. QED
      BY <1>16, <2>1, <2>2, <2>3 DEF SendWait
  <1>17. ASSUME NEW w \in Publishers, NEW p \in Posts, SendTransient(w, p) PROVE SentByGrows
    <2>1. CASE Retried(p) /\ Defer(p)
      BY <1>17, <2>1, SMTT(30)
        DEF SendTransient, Touch, Answered, Sent, MoveOn, Goto, Defer, Fail,
            Retried
    <2>2. CASE ~Retried(p) /\ Fail(p)
      BY <1>17, <2>2, SMTT(30)
        DEF SendTransient, Touch, Answered, Sent, MoveOn, Goto, Defer, Fail,
            Retried
    <2>3. QED
      BY <1>17, <2>1, <2>2 DEF SendTransient
  <1>18. ASSUME NEW w \in Publishers, NEW p \in Posts, SendRefused(w, p) PROVE SentByGrows
    BY <1>18, SMTT(30) DEF SendRefused, Touch, Answered, Sent, MoveOn, Goto, Fail
  <1>19. ASSUME NEW w \in Publishers, NEW p \in Posts, SendDatabaseError(w, p) PROVE SentByGrows
    BY <1>19, SMTT(30) DEF SendDatabaseError, Answered, Sent, Goto
  <1>20. ASSUME NEW w \in Publishers, NEW p \in Posts, RecordDatabaseError(w, p) PROVE SentByGrows
    BY <1>20, SMTT(30) DEF RecordDatabaseError, Touch, MoveOn, Goto, Fail
  <1>21. ASSUME NEW w \in Publishers, Crash(w) PROVE SentByGrows
    BY <1>21, SMTT(30) DEF Crash, Forget, Goto, Sent
  <1>22. ASSUME NEW w \in Publishers, Claim(w) PROVE SentByGrows
    <2>1. PICK lost \in SUBSET Posts, mine \in SUBSET Posts : ClaimEffect(w, lost, mine)
      BY <1>22, ClaimFacts
    <2>2. QED
      BY <2>1, SMTT(30) DEF ClaimEffect
  <1>23. CASE UNCHANGED vars
    BY <1>23, SMTT(30) DEF vars
  <1>24. QED
    BY <1>1, <1>2, <1>3, <1>4, <1>5, <1>6, <1>7, <1>8, <1>9, <1>10, <1>11,
       <1>12, <1>13, <1>14, <1>15, <1>16, <1>17, <1>18, <1>19, <1>20, <1>21,
       <1>22, <1>23 DEF Next, People, Time, Pass, Sending

\* What is published in a publisher's name stays listed until the day has passed.
LEMMA ListedStep ==
  ASSUME TypeOK, TypeOK', PassShape, HeldRows, SentIsListed, [Next]_vars
  PROVE  SentIsListed'
  <1> USE ConstantsAssumption DEF SentIsListed, HeldRows, PassShape, TypeOK, Holds, Sends, rowVars, passVars, ghostVars, keptVars
  <1>1. ASSUME NEW p \in Posts, Schedule(p) PROVE SentIsListed'
    BY <1>1, SMTT(30) DEF Schedule, Active
  <1>2. ASSUME NEW p \in Posts, Cancel(p) PROVE SentIsListed'
    BY <1>2, SMTT(30) DEF Cancel, Cancellable, Touch
  <1>3. ASSUME NEW k \in StopKinds, Stop(k) PROVE SentIsListed'
    BY <1>3, SMTT(30) DEF Stop
  <1>4. ASSUME NEW k \in StopKinds, Resume(k) PROVE SentIsListed'
    BY <1>4, SMTT(30) DEF Resume
  <1>5. ASSUME NEW p \in Posts, BecomeDue(p) PROVE SentIsListed'
    BY <1>5, SMTT(30) DEF BecomeDue
  <1>6. ASSUME NEW p \in Posts, BecomeStale(p) PROVE SentIsListed'
    BY <1>6, SMTT(30) DEF BecomeStale
  <1>7. ASSUME NEW p \in Posts, DayPasses(p) PROVE SentIsListed'
    BY <1>7, SMTT(30) DEF DayPasses
  <1>8. ASSUME NEW w \in Publishers, StartPass(w) PROVE SentIsListed'
    BY <1>8, SMTT(30) DEF StartPass, Goto
  <1>9. ASSUME NEW w \in Publishers, CountPosted(w) PROVE SentIsListed'
    BY <1>9, SMTT(30) DEF CountPosted, Goto
  <1>10. ASSUME NEW w \in Publishers, HoldForStop(w) PROVE SentIsListed'
    BY <1>10, SMTT(30) DEF HoldForStop, PutBack, Held, Forget, Goto
  <1>11. ASSUME NEW w \in Publishers, Relock(w) PROVE SentIsListed'
    BY <1>11, SMTT(30) DEF Relock, StillPublishing, Goto
  <1>12. ASSUME NEW w \in Publishers, EndPass(w) PROVE SentIsListed'
    BY <1>12, SMTT(30) DEF EndPass, Forget, Goto
  <1>13. ASSUME NEW w \in Publishers, NEW p \in Posts, HoldForCap(w, p) PROVE SentIsListed'
    BY <1>13, SMTT(30) DEF HoldForCap, PutBack, Goto, Touch
  <1>14. ASSUME NEW w \in Publishers, NEW p \in Posts, PickNext(w, p) PROVE SentIsListed'
    BY <1>14, SMTT(30) DEF PickNext, Goto
  <1>15. ASSUME NEW w \in Publishers, NEW p \in Posts, SendOk(w, p) PROVE SentIsListed'
    BY <1>15, SMTT(30) DEF SendOk, Touch, Answered, Sent, MoveOn, Goto
  <1>16. ASSUME NEW w \in Publishers, NEW p \in Posts, SendWait(w, p) PROVE SentIsListed'
    <2>1. CASE Answered(w, p, "wait") /\ deferrals[p] >= MaxDeferrals /\ Fail(p) /\ UNCHANGED deferrals
      BY <1>16, <2>1, SMTT(30)
        DEF SendWait, Touch, Answered, Sent, MoveOn, Goto, Defer, Fail
    <2>2. CASE /\ Answered(w, p, "wait") /\ deferrals[p] < MaxDeferrals
               /\ Defer(p) /\ deferrals' = [deferrals EXCEPT ![p] = @ + 1]
      BY <1>16, <2>2, SMTT(30)
        DEF SendWait, Touch, Answered, Sent, MoveOn, Goto, Defer, Fail
    <2>3. CASE Answered(w, p, "spacing") /\ Defer(p) /\ UNCHANGED deferrals
      BY <1>16, <2>3, SMTT(30)
        DEF SendWait, Touch, Answered, Sent, MoveOn, Goto, Defer, Fail
    <2>4. QED
      BY <1>16, <2>1, <2>2, <2>3 DEF SendWait
  <1>17. ASSUME NEW w \in Publishers, NEW p \in Posts, SendTransient(w, p) PROVE SentIsListed'
    <2>1. CASE Retried(p) /\ Defer(p)
      BY <1>17, <2>1, SMTT(30)
        DEF SendTransient, Touch, Answered, Sent, MoveOn, Goto, Defer, Fail,
            Retried
    <2>2. CASE ~Retried(p) /\ Fail(p)
      BY <1>17, <2>2, SMTT(30)
        DEF SendTransient, Touch, Answered, Sent, MoveOn, Goto, Defer, Fail,
            Retried
    <2>3. QED
      BY <1>17, <2>1, <2>2 DEF SendTransient
  <1>18. ASSUME NEW w \in Publishers, NEW p \in Posts, SendRefused(w, p) PROVE SentIsListed'
    BY <1>18, SMTT(30) DEF SendRefused, Touch, Answered, Sent, MoveOn, Goto, Fail
  <1>19. ASSUME NEW w \in Publishers, NEW p \in Posts, SendDatabaseError(w, p) PROVE SentIsListed'
    BY <1>19, SMTT(30) DEF SendDatabaseError, Answered, Sent, Goto
  <1>20. ASSUME NEW w \in Publishers, NEW p \in Posts, RecordDatabaseError(w, p) PROVE SentIsListed'
    BY <1>20, SMTT(30) DEF RecordDatabaseError, Touch, MoveOn, Goto, Fail
  <1>21. ASSUME NEW w \in Publishers, Crash(w) PROVE SentIsListed'
    BY <1>21, SMTT(30) DEF Crash, Forget, Goto, Sent
  <1>22. ASSUME NEW w \in Publishers, Claim(w) PROVE SentIsListed'
    <2>1. PICK lost \in SUBSET Posts, mine \in SUBSET Posts : ClaimEffect(w, lost, mine)
      BY <1>22, ClaimFacts
    <2>2. QED
      BY <2>1, SMTT(30) DEF ClaimEffect
  <1>23. CASE UNCHANGED vars
    BY <1>23, SMTT(30) DEF vars
  <1>24. QED
    BY <1>1, <1>2, <1>3, <1>4, <1>5, <1>6, <1>7, <1>8, <1>9, <1>10, <1>11,
       <1>12, <1>13, <1>14, <1>15, <1>16, <1>17, <1>18, <1>19, <1>20, <1>21,
       <1>22, <1>23 DEF Next, People, Time, Pass, Sending

\* How a pass counts, step by step: a pass that is counting was so before, with
\* the same count, and sends a social post only with room; but for CountPosted
\* and SendOk.
CountMoves ==
    \A v \in Publishers :
        /\ Counting(v)' => Counting(v) /\ posted'[v] = posted[v]
        /\ pc'[v] \in {"relock", "sending"} /\ current'[v] \in Social => posted'[v] < DailyCap

\* A publisher that is about to send a social post counted fewer than the limit.
HasRoom ==
    \A v \in Publishers :
        pc[v] \in {"relock", "sending"} /\ current[v] \in Social => posted[v] < DailyCap

\* Every other step is such.
LEMMA CountStep ==
  ASSUME TypeOK, TypeOK', PassShape, HasRoom, [Next]_vars
  PROVE  \/ CountMoves
         \/ \E w \in Publishers : CountPosted(w) \/ (\E p \in Posts : SendOk(w, p))
  <1> USE ConstantsAssumption DEF TypeOK, PassShape, HasRoom, Counting, CountMoves, Sends,
      rowVars, passVars, ghostVars, keptVars
  <1>1. ASSUME NEW p \in Posts, Schedule(p) PROVE CountMoves
    BY <1>1, SMTT(30) DEF Schedule, Active
  <1>2. ASSUME NEW p \in Posts, Cancel(p) PROVE CountMoves
    BY <1>2, SMTT(30) DEF Cancel, Cancellable, Touch
  <1>3. ASSUME NEW k \in StopKinds, Stop(k) PROVE CountMoves
    BY <1>3, SMTT(30) DEF Stop
  <1>4. ASSUME NEW k \in StopKinds, Resume(k) PROVE CountMoves
    BY <1>4, SMTT(30) DEF Resume
  <1>5. ASSUME NEW p \in Posts, BecomeDue(p) PROVE CountMoves
    BY <1>5, SMTT(30) DEF BecomeDue
  <1>6. ASSUME NEW p \in Posts, BecomeStale(p) PROVE CountMoves
    BY <1>6, SMTT(30) DEF BecomeStale
  <1>7. ASSUME NEW p \in Posts, DayPasses(p) PROVE CountMoves
    BY <1>7, SMTT(30) DEF DayPasses
  <1>8. ASSUME NEW w \in Publishers, StartPass(w) PROVE CountMoves
    BY <1>8, SMTT(30) DEF StartPass, Goto
  <1>9. ASSUME NEW w \in Publishers, HoldForStop(w) PROVE CountMoves
    BY <1>9, SMTT(30) DEF HoldForStop, PutBack, Held, Forget, Goto
  <1>10. ASSUME NEW w \in Publishers, Relock(w) PROVE CountMoves
    BY <1>10, SMTT(30) DEF Relock, StillPublishing, Goto
  <1>11. ASSUME NEW w \in Publishers, EndPass(w) PROVE CountMoves
    BY <1>11, SMTT(30) DEF EndPass, Forget, Goto
  <1>12. ASSUME NEW w \in Publishers, NEW p \in Posts, HoldForCap(w, p) PROVE CountMoves
    BY <1>12, SMTT(30) DEF HoldForCap, PutBack, Goto, Touch
  <1>13. ASSUME NEW w \in Publishers, NEW p \in Posts, PickNext(w, p) PROVE CountMoves
    BY <1>13, SMTT(30) DEF PickNext, Goto, OverCap
  <1>14. ASSUME NEW w \in Publishers, NEW p \in Posts, SendWait(w, p) PROVE CountMoves
    <2>1. CASE Answered(w, p, "wait") /\ deferrals[p] >= MaxDeferrals /\ Fail(p) /\ UNCHANGED deferrals
      BY <1>14, <2>1, SMTT(30)
        DEF SendWait, Touch, Answered, Sent, MoveOn, Goto, Defer, Fail
    <2>2. CASE /\ Answered(w, p, "wait") /\ deferrals[p] < MaxDeferrals
               /\ Defer(p) /\ deferrals' = [deferrals EXCEPT ![p] = @ + 1]
      BY <1>14, <2>2, SMTT(30)
        DEF SendWait, Touch, Answered, Sent, MoveOn, Goto, Defer, Fail
    <2>3. CASE Answered(w, p, "spacing") /\ Defer(p) /\ UNCHANGED deferrals
      BY <1>14, <2>3, SMTT(30)
        DEF SendWait, Touch, Answered, Sent, MoveOn, Goto, Defer, Fail
    <2>4. QED
      BY <1>14, <2>1, <2>2, <2>3 DEF SendWait
  <1>15. ASSUME NEW w \in Publishers, NEW p \in Posts, SendTransient(w, p) PROVE CountMoves
    <2>1. CASE Retried(p) /\ Defer(p)
      BY <1>15, <2>1, SMTT(30)
        DEF SendTransient, Touch, Answered, Sent, MoveOn, Goto, Defer, Fail,
            Retried
    <2>2. CASE ~Retried(p) /\ Fail(p)
      BY <1>15, <2>2, SMTT(30)
        DEF SendTransient, Touch, Answered, Sent, MoveOn, Goto, Defer, Fail,
            Retried
    <2>3. QED
      BY <1>15, <2>1, <2>2 DEF SendTransient
  <1>16. ASSUME NEW w \in Publishers, NEW p \in Posts, SendRefused(w, p) PROVE CountMoves
    BY <1>16, SMTT(30) DEF SendRefused, Touch, Answered, Sent, MoveOn, Goto, Fail
  <1>17. ASSUME NEW w \in Publishers, NEW p \in Posts, SendDatabaseError(w, p) PROVE CountMoves
    BY <1>17, SMTT(30) DEF SendDatabaseError, Answered, Sent, Goto
  <1>18. ASSUME NEW w \in Publishers, NEW p \in Posts, RecordDatabaseError(w, p) PROVE CountMoves
    BY <1>18, SMTT(30) DEF RecordDatabaseError, Touch, MoveOn, Goto, Fail
  <1>19. ASSUME NEW w \in Publishers, Crash(w) PROVE CountMoves
    BY <1>19, SMTT(30) DEF Crash, Forget, Goto, Sent
  <1>20. ASSUME NEW w \in Publishers, Claim(w) PROVE CountMoves
    <2>1. PICK lost \in SUBSET Posts, mine \in SUBSET Posts : ClaimEffect(w, lost, mine)
      BY <1>20, ClaimFacts
    <2>2. QED
      BY <2>1, SMTT(30) DEF ClaimEffect
  <1>21. CASE UNCHANGED vars
    BY <1>21, SMTT(30) DEF vars
  <1>22. QED
    BY <1>1, <1>2, <1>3, <1>4, <1>5, <1>6, <1>7, <1>8, <1>9, <1>10, <1>11,
       <1>12, <1>13, <1>14, <1>15, <1>16, <1>17, <1>18, <1>19, <1>20,
       <1>21 DEF Next, People, Time, Pass, Sending

\* A publisher's own posts that count against the limit.
Own(v) == Social \cap sentBy[v]

\* The count covers what its publisher sent, so the limit holds when a send succeeds.
LEMMA CapHolds ==
  ASSUME TypeOK, TypeOK', PassShape, SentIsListed, CountCovers, DailyLimitRespected, [Next]_vars
  PROVE  (CountCovers /\ DailyLimitRespected)'
  <1>1. \A v \in Publishers :
          /\ Own(v) \in SUBSET Posts /\ Own(v)' \in SUBSET Posts
          /\ Cardinality(Own(v)) \in Nat /\ Cardinality(Own(v)') \in Nat
          /\ Own(v)' \subseteq Own(v) => Cardinality(Own(v)') <= Cardinality(Own(v))
    BY ConstantsAssumption, PostsCount DEF Own
  <1>2. \A v \in Publishers :
          /\ Counting(v) => Cardinality(Own(v)) <= posted[v]
          /\ Cardinality(Own(v)) <= DailyCap
          /\ posted[v] \in Nat
    BY DEF CountCovers, DailyLimitRespected, Own, TypeOK
  <1>7. HasRoom
    BY DEF CountCovers, HasRoom
  <1>3. SUFFICES ASSUME NEW v \in Publishers
                 PROVE  /\ Counting(v)' => Cardinality(Own(v)') <= posted'[v]
                        /\ pc'[v] \in {"relock", "sending"} /\ current'[v] \in Social
                              => posted'[v] < DailyCap
                        /\ Cardinality(Own(v)') <= DailyCap
    BY DEF CountCovers, DailyLimitRespected, Own
  <1>4. ASSUME NEW w \in Publishers, NEW p \in Posts, SendOk(w, p)
        PROVE  /\ Counting(v)' => Cardinality(Own(v)') <= posted'[v]
               /\ pc'[v] \in {"relock", "sending"} /\ current'[v] \in Social
                     => posted'[v] < DailyCap
               /\ Cardinality(Own(v)') <= DailyCap
    <2>1. /\ sentBy' = [sentBy EXCEPT ![w] = @ \cup {p}]
          /\ pc' = [pc EXCEPT ![w] = "next"] /\ pc[w] = "sending" /\ current[w] = p
          /\ current' = [current EXCEPT ![w] = NoPost]
          /\ posted' = [posted EXCEPT ![w] = IF p \in Social THEN @ + 1 ELSE @]
      BY <1>4 DEF SendOk, Answered, Sends, MoveOn, Goto
    <2>2. CASE v # w
      <3>1. /\ Own(v)' = Own(v) /\ posted'[v] = posted[v]
            /\ pc'[v] = pc[v] /\ current'[v] = current[v]
        BY <2>1, <2>2 DEF Own, TypeOK
      <3>2. QED
        BY <1>2, <3>1 DEF CountCovers, Counting
    <2>3. CASE v = w /\ p \notin Social
      <3>1. Own(v)' = Own(v) /\ posted'[v] = posted[v] /\ pc'[v] = "next"
        BY <2>1, <2>3 DEF Own, TypeOK
      <3>2. QED
        BY <1>2, <2>1, <2>3, <3>1 DEF Counting
    <2>4. CASE v = w /\ p \in Social
      <3>1. Own(v)' = Own(v) \cup {p} /\ posted'[v] = posted[v] + 1 /\ pc'[v] = "next"
        BY <2>1, <2>4 DEF Own, TypeOK
      <3>2. Cardinality(Own(v)') <= Cardinality(Own(v)) + 1
        <4>1. IsFiniteSet(Own(v))
          BY <1>1, PostsCount
        <4>2. Cardinality(Own(v) \cup {p}) = IF p \in Own(v) THEN Cardinality(Own(v))
                                             ELSE Cardinality(Own(v)) + 1
          BY <4>1, FS_AddElement
        <4>3. QED
          BY <1>1, <3>1, <4>2
      <3>3. Cardinality(Own(v)) <= posted[v] /\ posted[v] < DailyCap
        BY <1>2, <2>1, <2>4 DEF CountCovers, Counting
      <3>4. QED
        BY <1>1, <1>2, <3>1, <3>2, <3>3, ConstantsAssumption
    <2>5. QED
      BY <2>2, <2>3, <2>4
  <1>5. ASSUME \A u \in Publishers : sentBy'[u] \subseteq sentBy[u]
        PROVE  /\ Counting(v)' => Cardinality(Own(v)') <= posted'[v]
               /\ pc'[v] \in {"relock", "sending"} /\ current'[v] \in Social
                     => posted'[v] < DailyCap
               /\ Cardinality(Own(v)') <= DailyCap
    <2>1. Cardinality(Own(v)') <= Cardinality(Own(v)) /\ Cardinality(Own(v)') <= DailyCap
      <3>1. Own(v)' \subseteq Own(v)
        BY <1>5 DEF Own
      <3>2. QED
        BY <1>1, <1>2, <3>1, ConstantsAssumption
    <2>2. CASE CountMoves
      BY <1>1, <1>2, <2>1, <2>2 DEF CountMoves
    <2>3. ASSUME NEW w \in Publishers, CountPosted(w)
          PROVE  /\ Counting(v)' => Cardinality(Own(v)') <= posted'[v]
                 /\ pc'[v] \in {"relock", "sending"} /\ current'[v] \in Social
                       => posted'[v] < DailyCap
      <3>1. /\ posted' = [posted EXCEPT ![w] = Cardinality(PostedLastDay)]
            /\ pc' = [pc EXCEPT ![w] = "next"] /\ UNCHANGED current
        BY <2>3 DEF CountPosted, Goto
      <3>2. CASE v # w
        <4>1. posted'[v] = posted[v] /\ pc'[v] = pc[v] /\ current'[v] = current[v]
          BY <3>1, <3>2 DEF TypeOK
        <4>2. Counting(v)' = Counting(v)
          BY <4>1 DEF Counting
        <4>3. pc[v] \in {"relock", "sending"} /\ current[v] \in Social => posted[v] < DailyCap
          BY <1>7 DEF HasRoom
        <4>4. QED
          BY <1>1, <1>2, <2>1, <4>1, <4>2, <4>3
      <3>3. CASE v = w
        <4>1. Own(v) \subseteq PostedLastDay /\ PostedLastDay \in SUBSET Posts
          BY ConstantsAssumption DEF Own, SentIsListed, PostedLastDay
        <4>2. /\ Cardinality(Own(v)) <= Cardinality(PostedLastDay)
              /\ Cardinality(PostedLastDay) \in Nat
          BY <4>1, PostsCount
        <4>3. posted'[v] = Cardinality(PostedLastDay) /\ pc'[v] = "next"
          BY <3>1, <3>3 DEF TypeOK
        <4>4. QED
          BY <1>1, <2>1, <4>2, <4>3
      <3>4. QED
        BY <3>2, <3>3
    <2>4. ASSUME NEW w \in Publishers, NEW p \in Posts, SendOk(w, p)
          PROVE  /\ Counting(v)' => Cardinality(Own(v)') <= posted'[v]
                 /\ pc'[v] \in {"relock", "sending"} /\ current'[v] \in Social
                       => posted'[v] < DailyCap
      BY <1>4, <2>4
    <2>5. QED
      BY <1>7, <2>1, <2>2, <2>3, <2>4, CountStep
  <1>6. QED
    BY <1>4, <1>5, SentByStep DEF SentByGrows

\* However many posts are due, and over any number of passes, deaths and days, no
\* publisher, whatever others send meanwhile, publishes more social posts in 24
\* hours than the daily limit.
THEOREM DailyLimit == Spec => []DailyLimitRespected
  <1>1. Init => LimitInv
    <2> SUFFICES ASSUME Init PROVE LimitInv
      OBVIOUS
    <2>1. \A w \in Publishers : Own(w) = {} /\ Cardinality(Own(w)) = 0
      BY FS_EmptySet DEF Init, InitWith, Own
    <2>2. QED
      BY <2>1, ConstantsAssumption DEF Init, InitWith, LimitInv, SentIsListed, CountCovers,
         Counting, DailyLimitRespected, Own
  <1>2. IInv /\ IInv' /\ LimitInv /\ [Next]_vars => LimitInv'
    BY CapHolds, ListedStep DEF IInv, LimitInv
  <1>3. LimitInv => DailyLimitRespected
    BY DEF LimitInv
  <1>4. QED
    BY <1>1, <1>2, <1>3, Invariance, PTL DEF Spec

-----------------------------------------------------------------------------
(* The requests of reviewers.                                               *)

\* A publisher's step, elsewhere or inside a request, is one of the publisher's
\* module; people elsewhere only cancel.
LEMMA PublishersStep ==
  /\ Elsewhere => Next /\ UNCHANGED reviewVars
  /\ \A a \in Reviewers : ReviewerPass(a) => Next
  /\ \A a \in Reviewers : Crash(a) => Next
  <1>1. Reviewers \subseteq Publishers
    BY ReviewConstants
  <1>2. QED
    BY <1>1 DEF Elsewhere, ReviewerPass, Next, People

\* A request is of one publisher, and posts are no NoPost.
LEMMA Requests ==
  ASSUME ShapeInv, NEW a \in Reviewers
  PROVE  /\ a \in Publishers
         /\ phase[a] # "none" <=> about[a] \in Posts
         /\ phase[a] # "passing" => pc[a] = "idle"
         /\ pc[a] = "idle" => batch[a] = {} /\ current[a] = NoPost
         /\ NoPost \notin Posts
  <1>1. a \in Publishers
    BY ReviewConstants
  <1>2. QED
    BY <1>1, ConstantsAssumption DEF ShapeInv, RequestShape, ReviewTypeOK, TypeOK, PassShape

\* Nothing is open to begin with.
LEMMA InitShape == InitReviewed => ShapeInv
  <1> SUFFICES ASSUME InitReviewed PROVE ShapeInv
    OBVIOUS
  <1> USE ConstantsAssumption, ReviewConstants DEF InitReviewed, InitWith
  <1>1. TypeOK
    BY DEF TypeOK, Statuses, Labels
  <1>2. ReviewTypeOK
    BY <1>1 DEF ReviewTypeOK, Statuses, Asks, OnItem, InLibrary
  <1>3. PassShape /\ RequestShape
    BY DEF PassShape, RequestShape
  <1>4. QED
    BY <1>2, <1>3 DEF ShapeInv

\* What ReleaseNow does, with its choices named: rows nobody is sending are
\* marked as interrupted, and the request takes its post unless its copy already
\* says it is on the schedule.
ReleaseEffect(a, lost) ==
    LET p == about[a]
        mine == IF Written(a, "scheduled")[p] = "scheduled" THEN {p} ELSE {} IN
    /\ Releasing(a) /\ seen[a] # "published" /\ ~Locked(p)
    /\ \A q \in lost : q # p /\ status[q] = "publishing" /\ ~Locked(q)
    /\ status' = [q \in Posts |->
          CASE q \in mine  -> "publishing"
            [] q \in lost  -> "failed"
            [] OTHER       -> status[q]]
    /\ stale' = [q \in Posts |-> stale[q] /\ q \notin lost \cup {p}]
    /\ due' = [due EXCEPT ![p] = TRUE]
    /\ batch' = [batch EXCEPT ![a] = mine]
    /\ pc' = [pc EXCEPT ![a] = IF mine = {} THEN "idle" ELSE "count"]
    /\ phase' = [phase EXCEPT ![a] = "passing"]
    /\ NoteRelease(p)
    /\ UNCHANGED <<recent, attempts, deferrals, stops, current, posted, reloaded,
                   crashes, ghostVars, item, asked, about, seen, reviews>>

\* ReleaseNow has that effect for some rows.
LEMMA ReleaseFacts ==
  ASSUME NEW a \in Reviewers, ReleaseNow(a)
  PROVE  \E lost \in SUBSET Posts : ReleaseEffect(a, lost)
  <1> DEFINE p == about[a]
             mine == IF Written(a, "scheduled")[p] = "scheduled" THEN {p} ELSE {}
  <1>1. PICK lost \in SUBSET Posts :
          /\ Takes(lost, {q \in Posts \ {p} : Interrupted(q)})
          /\ status' = [q \in Posts |->
                CASE q \in mine  -> "publishing"
                  [] q \in lost  -> "failed"
                  [] OTHER       -> status[q]]
          /\ stale' = [q \in Posts |-> stale[q] /\ q \notin lost \cup {p}]
    BY DEF ReleaseNow
  <1>2. \A q \in lost : q # p /\ status[q] = "publishing" /\ ~Locked(q)
    BY <1>1 DEF Takes, Interrupted
  <1>3. ReleaseEffect(a, lost)
    BY <1>1, <1>2 DEF ReleaseNow, ReleaseEffect, Goto
  <1>4. QED
    BY <1>3

\* What a request writes over its post's status, and nothing over another's.
LEMMA Writes ==
  ASSUME ShapeInv, NEW a \in Reviewers, phase[a] # "none", NEW value \in Statuses
  PROVE  /\ Written(a, value) \in [Posts -> Statuses]
         /\ \A q \in Posts : q # about[a] => Written(a, value)[q] = status[q]
         /\ Written(a, value)[about[a]] \in {value, status[about[a]]}
  <1>1. about[a] \in Posts /\ status \in [Posts -> Statuses]
    BY Requests DEF ShapeInv, ReviewTypeOK, TypeOK
  <1>2. QED
    BY <1>1 DEF Written

\* Decisions keep the type of items.
LEMMA Decisions ==
  ASSUME ShapeInv, NEW a \in Reviewers, phase[a] # "none"
  PROVE  /\ Approved(a) => item' \in [Posts -> {"pending", "approved", "rejected", "expired"}]
         /\ Declined(a) => item' \in [Posts -> {"pending", "approved", "rejected", "expired"}]
  <1>1. about[a] \in Posts /\ item \in [Posts -> {"pending", "approved", "rejected", "expired"}]
    BY Requests DEF ShapeInv, ReviewTypeOK
  <1>2. QED
    BY <1>1 DEF Approved, Declined, Decide

\* A request that closes leaves its memory in order.
LEMMA Closes ==
  ASSUME ShapeInv, NEW a \in Reviewers, Close(a), pc[a] = "idle", UNCHANGED passVars
  PROVE  /\ phase' \in [Reviewers -> {"none", "opened", "passing", "direct"}]
         /\ asked' \in [Reviewers -> Asks]
         /\ about' \in [Reviewers -> Posts \cup {NoPost}]
         /\ seen' \in [Reviewers -> Statuses]
         /\ reviews' \in 0..MaxReviews
         /\ PassShape' /\ RequestShape'
  <1>1. /\ phase \in [Reviewers -> {"none", "opened", "passing", "direct"}]
        /\ asked \in [Reviewers -> Asks]
        /\ about \in [Reviewers -> Posts \cup {NoPost}]
        /\ seen \in [Reviewers -> Statuses]
        /\ reviews \in 0..MaxReviews
        /\ PassShape /\ RequestShape
    BY DEF ShapeInv, ReviewTypeOK
  <1>2. PassShape'
    BY <1>1 DEF passVars, PassShape
  <1>3. RequestShape'
    BY <1>1, Requests DEF Close, passVars, RequestShape
  <1>4. QED
    BY <1>1, <1>2, <1>3 DEF Close, Asks, OnItem, Statuses

\* Opening a request keeps types and shape.
LEMMA OpenShape ==
  ASSUME ShapeInv, NEW a \in Reviewers, NEW p \in Posts, NEW what \in Asks, Open(a, p, what)
  PROVE  ShapeInv'
  <1>1. TypeOK' /\ PassShape'
    BY DEF Open, ShapeInv, ReviewTypeOK, TypeOK, PassShape, vars, rowVars, passVars, ghostVars, keptVars
  <1>2. ReviewTypeOK'
    BY <1>1, ReviewConstants DEF Open, ShapeInv, ReviewTypeOK, TypeOK
  <1>3. RequestShape'
    BY Requests DEF Open, ShapeInv, ReviewTypeOK, RequestShape, vars, passVars
  <1>4. QED
    BY <1>1, <1>2, <1>3 DEF ShapeInv

\* Every other step of a request but its pass and its death does.
LEMMA OwnShape ==
  ASSUME ShapeInv, NEW a \in Reviewers
  PROVE  /\ ReleaseDone(a) \/ ReleaseLater(a) \/ ReleaseNow(a) \/ FinishRelease(a) => ShapeInv'
         /\ CallPlatform(a) \/ DirectOk(a) \/ DirectWait(a) \/ DirectFail(a) => ShapeInv'
         /\ Reject(a) \/ Expire(a) \/ Edit(a) => ShapeInv'
  <1> DEFINE p == about[a]
  <1>0. /\ TypeOK /\ PassShape /\ RequestShape /\ a \in Publishers
        /\ status \in [Posts -> Statuses] /\ stale \in [Posts -> BOOLEAN]
        /\ due \in [Posts -> BOOLEAN] /\ deferrals \in [Posts -> Nat]
        /\ reached \in [Posts -> Nat] /\ unsure \in [Posts -> Nat] /\ releases \in [Posts -> Nat]
        /\ item \in [Posts -> {"pending", "approved", "rejected", "expired"}]
        /\ phase \in [Reviewers -> {"none", "opened", "passing", "direct"}]
        /\ phase[a] # "none" => p \in Posts
        /\ phase[a] # "passing" => pc[a] = "idle"
    BY Requests DEF ShapeInv, ReviewTypeOK, TypeOK
  <1>1. ASSUME ReleaseDone(a) PROVE ShapeInv'
    <2>1. phase[a] = "opened" /\ Approved(a) /\ Close(a) /\ UNCHANGED <<vars, releases>>
      BY <1>1 DEF ReleaseDone, Releasing, Opened
    <2>2. TypeOK' /\ UNCHANGED passVars
      BY <1>0, <2>1 DEF TypeOK, vars, rowVars, passVars, ghostVars, keptVars
    <2>3. QED
      BY <1>0, <2>1, <2>2, Closes, Decisions DEF ShapeInv, ReviewTypeOK
  <1>2. ASSUME ReleaseLater(a) PROVE ShapeInv'
    <2>1. /\ phase[a] = "opened" /\ Approved(a) /\ Close(a) /\ NoteRelease(p) /\ Touch(p)
          /\ status' = Written(a, "scheduled") /\ (\E now \in BOOLEAN : due' = [due EXCEPT ![p] = now])
          /\ UNCHANGED <<recent, attempts, deferrals, stops, passVars, crashes, ghostVars>>
      BY <1>2 DEF ReleaseLater, Releasing, Opened
    <2>2. status' \in [Posts -> Statuses] /\ releases' \in [Posts -> Nat]
      BY <1>0, <2>1, Writes DEF Statuses, NoteRelease
    <2>3. TypeOK'
      BY <1>0, <2>1, <2>2 DEF TypeOK, Touch, passVars, ghostVars, keptVars
    <2>4. QED
      BY <1>0, <2>1, <2>2, <2>3, Closes, Decisions DEF ShapeInv, ReviewTypeOK
  <1>3. ASSUME FinishRelease(a) PROVE ShapeInv'
    <2>1. /\ phase[a] = "passing" /\ pc[a] = "idle" /\ (Approved(a) \/ UNCHANGED item)
          /\ Close(a) /\ UNCHANGED <<vars, releases>>
      BY <1>3 DEF FinishRelease
    <2>2. TypeOK' /\ UNCHANGED passVars
      BY <1>0, <2>1 DEF TypeOK, vars, rowVars, passVars, ghostVars, keptVars
    <2>3. QED
      BY <1>0, <2>1, <2>2, Closes, Decisions DEF ShapeInv, ReviewTypeOK
  <1>4. ASSUME CallPlatform(a) PROVE ShapeInv'
    <2>1. /\ phase[a] = "opened" /\ phase' = [phase EXCEPT ![a] = "direct"] /\ NoteRelease(p)
          /\ UNCHANGED <<vars, item, asked, about, seen, reviews>>
      BY <1>4 DEF CallPlatform, Releasing, Opened
    <2>2. TypeOK' /\ PassShape'
      BY <1>0, <2>1 DEF TypeOK, PassShape, vars, rowVars, passVars, ghostVars, keptVars
    <2>3. RequestShape'
      BY <1>0, <2>1 DEF RequestShape, vars, passVars
    <2>4. releases' \in [Posts -> Nat] /\ phase' \in [Reviewers -> {"none", "opened", "passing", "direct"}]
      BY <1>0, <2>1 DEF NoteRelease
    <2>5. QED
      BY <2>1, <2>2, <2>3, <2>4 DEF ShapeInv, ReviewTypeOK
  <1>5. ASSUME DirectOk(a) PROVE ShapeInv'
    <2>1. /\ phase[a] = "direct" /\ Approved(a) /\ Close(a) /\ Touch(p)
          /\ status' = [status EXCEPT ![p] = "published"] /\ recent' = [recent EXCEPT ![p] = TRUE]
          /\ reached' = [reached EXCEPT ![p] = @ + 1]
          /\ UNCHANGED <<due, attempts, deferrals, stops, passVars, crashes, unsure, afterStop,
                         keptVars, releases>>
      BY <1>5 DEF DirectOk
    <2>2. TypeOK'
      BY <1>0, <2>1 DEF TypeOK, Touch, passVars, keptVars, Statuses
    <2>3. QED
      BY <1>0, <2>1, <2>2, Closes, Decisions DEF ShapeInv, ReviewTypeOK
  <1>6. ASSUME DirectWait(a) PROVE ShapeInv'
    <2>1. /\ phase[a] = "direct" /\ Approved(a) /\ Close(a) /\ Touch(p)
          /\ deferrals' = [deferrals EXCEPT ![p] = @ + 1] \/ UNCHANGED deferrals
          /\ status' = Written(a, "scheduled") /\ due' = [due EXCEPT ![p] = FALSE]
          /\ UNCHANGED <<recent, attempts, stops, passVars, crashes, ghostVars, releases>>
      BY <1>6 DEF DirectWait
    <2>2. status' \in [Posts -> Statuses] /\ deferrals' \in [Posts -> Nat]
      BY <1>0, <2>1, Writes DEF Statuses
    <2>3. TypeOK'
      BY <1>0, <2>1, <2>2 DEF TypeOK, Touch, passVars, ghostVars, keptVars
    <2>4. QED
      BY <1>0, <2>1, <2>3, Closes, Decisions DEF ShapeInv, ReviewTypeOK
  <1>7. ASSUME DirectFail(a) PROVE ShapeInv'
    <2>1. /\ phase[a] = "direct" /\ Close(a) /\ Touch(p) /\ status' = Written(a, "failed")
          /\ \/ UNCHANGED <<reached, unsure>>
             \/ /\ reached' = [reached EXCEPT ![p] = @ + 1]
                /\ unsure' = [unsure EXCEPT ![p] = @ + 1]
          /\ UNCHANGED <<due, recent, attempts, deferrals, stops, passVars, crashes, afterStop,
                         keptVars, item, releases>>
      BY <1>7 DEF DirectFail
    <2>2. /\ status' \in [Posts -> Statuses] /\ reached' \in [Posts -> Nat] /\ unsure' \in [Posts -> Nat]
      BY <1>0, <2>1, Writes DEF Statuses
    <2>3. TypeOK'
      BY <1>0, <2>1, <2>2 DEF TypeOK, Touch, passVars, keptVars
    <2>4. QED
      BY <1>0, <2>1, <2>3, Closes DEF ShapeInv, ReviewTypeOK
  <1>8. ASSUME Reject(a) PROVE ShapeInv'
    <2>1. /\ phase[a] = "opened" /\ Declined(a) /\ Close(a)
          /\ UNCHANGED <<status, stale>> \/ (status' = Written(a, "rejected") /\ Touch(p))
          /\ UNCHANGED <<due, recent, attempts, deferrals, stops, passVars, crashes, ghostVars, releases>>
      BY <1>8 DEF Reject, Opened
    <2>2. status' \in [Posts -> Statuses] /\ stale' \in [Posts -> BOOLEAN]
      <3>1. CASE UNCHANGED <<status, stale>>
        BY <1>0, <3>1
      <3>2. CASE status' = Written(a, "rejected") /\ Touch(p)
        BY <1>0, <2>1, <3>2, Writes DEF Statuses, Touch
      <3>3. QED
        BY <2>1, <3>1, <3>2
    <2>3. TypeOK'
      BY <1>0, <2>1, <2>2 DEF TypeOK, passVars, ghostVars, keptVars
    <2>4. QED
      BY <1>0, <2>1, <2>3, Closes, Decisions DEF ShapeInv, ReviewTypeOK
  <1>9. ASSUME Expire(a) PROVE ShapeInv'
    <2>1. phase[a] = "opened" /\ Declined(a) /\ Close(a) /\ UNCHANGED <<vars, releases>>
      BY <1>9 DEF Expire, Opened
    <2>2. TypeOK' /\ UNCHANGED passVars
      BY <1>0, <2>1 DEF TypeOK, vars, rowVars, passVars, ghostVars, keptVars
    <2>3. QED
      BY <1>0, <2>1, <2>2, Closes, Decisions DEF ShapeInv, ReviewTypeOK
  <1>10. ASSUME Edit(a) PROVE ShapeInv'
    <2>1. /\ phase[a] = "opened" /\ Close(a) /\ Touch(p)
          /\ status' = Written(a, "draft") \/ UNCHANGED status
          /\ UNCHANGED <<recent, attempts, deferrals, stops, passVars, crashes, ghostVars, item, releases>>
      BY <1>10 DEF Edit, Opened
    <2>2. PICK now \in BOOLEAN : due' = [due EXCEPT ![p] = now]
      BY <1>0, <1>10, <2>1 DEF Edit
    <2>3. status' \in [Posts -> Statuses]
      BY <1>0, <2>1, Writes DEF Statuses
    <2>4. TypeOK'
      BY <1>0, <2>1, <2>2, <2>3 DEF TypeOK, Touch, passVars, ghostVars, keptVars
    <2>5. QED
      BY <1>0, <2>1, <2>4, Closes DEF ShapeInv, ReviewTypeOK
  <1>11. ASSUME ReleaseNow(a) PROVE ShapeInv'
    <2>1. PICK lost \in SUBSET Posts : ReleaseEffect(a, lost)
      BY <1>11, ReleaseFacts
    <2>2. phase[a] = "opened" /\ p \in Posts /\ current[a] = NoPost
      BY <1>0, <2>1, Requests DEF ReleaseEffect, Releasing, Opened
    <2>3. PICK mine \in SUBSET {p} :
              /\ batch' = [batch EXCEPT ![a] = mine]
              /\ pc' = [pc EXCEPT ![a] = IF mine = {} THEN "idle" ELSE "count"]
              /\ status' = [q \in Posts |->
                    CASE q \in mine -> "publishing"
                      [] q \in lost -> "failed"
                      [] OTHER      -> status[q]]
      <3> DEFINE taken == IF Written(a, "scheduled")[p] = "scheduled" THEN {p} ELSE {}
      <3>1. /\ batch' = [batch EXCEPT ![a] = taken]
            /\ pc' = [pc EXCEPT ![a] = IF taken = {} THEN "idle" ELSE "count"]
            /\ status' = [q \in Posts |->
                  CASE q \in taken -> "publishing"
                    [] q \in lost  -> "failed"
                    [] OTHER       -> status[q]]
        BY <2>1, Zenon DEF ReleaseEffect
      <3>2. taken \in SUBSET {p}
        OBVIOUS
      <3> HIDE DEF taken
      <3>3. QED
        BY <3>1, <3>2
    <2>4. /\ stale' = [q \in Posts |-> stale[q] /\ q \notin lost \cup {p}]
          /\ due' = [due EXCEPT ![p] = TRUE]
          /\ phase' = [phase EXCEPT ![a] = "passing"] /\ releases' = [releases EXCEPT ![p] = @ + 1]
          /\ UNCHANGED <<recent, attempts, deferrals, stops, current, posted, reloaded,
                         crashes, ghostVars, item, asked, about, seen, reviews>>
      BY <2>1 DEF ReleaseEffect, NoteRelease
    <2>5. TypeOK'
      <3>1. /\ status' \in [Posts -> Statuses] /\ stale' \in [Posts -> BOOLEAN]
            /\ due' \in [Posts -> BOOLEAN]
        BY <1>0, <2>3, <2>4 DEF Statuses
      <3>2. batch' \in [Publishers -> SUBSET Posts] /\ pc' \in [Publishers -> Labels]
        BY <1>0, <2>2, <2>3 DEF TypeOK, Labels
      <3>3. QED
        BY <1>0, <2>4, <3>1, <3>2 DEF TypeOK, ghostVars, keptVars
    <2>6. ReviewTypeOK'
      BY <1>0, <2>2, <2>4, <2>5 DEF ShapeInv, ReviewTypeOK
    <2>7. PassShape'
      <3>1. p # NoPost /\ \A w \in Publishers : w # a => batch'[w] = batch[w] /\ pc'[w] = pc[w]
        BY <2>2, <2>3, ConstantsAssumption
      <3>2. batch'[a] \subseteq {p} /\ pc'[a] = (IF batch'[a] = {} THEN "idle" ELSE "count")
        BY <1>0, <2>3 DEF TypeOK
      <3>3. QED
        BY <1>0, <2>2, <2>4, <3>1, <3>2 DEF PassShape
    <2>8. RequestShape'
      <3>1. \A b \in Reviewers : b \in Publishers
        BY ReviewConstants
      <3>2. QED
        BY <1>0, <2>2, <2>3, <2>4, <3>1 DEF RequestShape, TypeOK
    <2>9. QED
      BY <2>6, <2>7, <2>8 DEF ShapeInv
  <1>12. QED
    BY <1>1, <1>2, <1>3, <1>4, <1>5, <1>6, <1>7, <1>8, <1>9, <1>10, <1>11

\* Publishers elsewhere leave a request's memory alone.
LEMMA OthersMemory ==
  ASSUME ShapeInv, Elsewhere
  PROVE  \A a \in Reviewers :
            batch'[a] = batch[a] /\ current'[a] = current[a] /\ pc'[a] = pc[a]
  <1>1. CASE \E p \in Posts : Cancel(p) \/ Time(p)
    BY <1>1 DEF Cancel, Time, BecomeDue, BecomeStale, DayPasses, passVars
  <1>2. CASE \E k \in StopKinds : Stop(k) \/ Resume(k)
    BY <1>2 DEF Stop, Resume, passVars
  <1>3. ASSUME NEW w \in Publishers \ Reviewers, Pass(w) \/ Crash(w)
        PROVE  \A a \in Reviewers :
                  batch'[a] = batch[a] /\ current'[a] = current[a] /\ pc'[a] = pc[a]
    <2>1. MemoryChange(w)
      BY <1>3, MemoryChanges DEF ShapeInv, ReviewTypeOK
    <2>2. QED
      BY <2>1, ReviewConstants DEF MemoryChange
  <1>4. QED
    BY <1>1, <1>2, <1>3 DEF Elsewhere

\* Elsewhere, inside a pass and in a death the publisher's lemmas give types and
\* shape of memories; requests keep theirs.
LEMMA PassShapes ==
  ASSUME ShapeInv
  PROVE  /\ Elsewhere => ShapeInv'
         /\ \A a \in Reviewers : ReviewerPass(a) \/ ReviewerCrash(a) => ShapeInv'
  <1> USE DEF ShapeInv
  <1>1. ASSUME Elsewhere PROVE ShapeInv'
    <2>1. [Next]_vars /\ UNCHANGED reviewVars
      BY <1>1, PublishersStep
    <2>2. TypeOK' /\ PassShape'
      BY <2>1, TypeStep, ShapeStep DEF ReviewTypeOK
    <2>3. ReviewTypeOK'
      BY <2>1, <2>2 DEF ReviewTypeOK, reviewVars
    <2>4. RequestShape'
      BY <1>1, <2>1, OthersMemory DEF RequestShape, reviewVars
    <2>5. QED
      BY <2>2, <2>3, <2>4
  <1>2. ASSUME NEW a \in Reviewers, ReviewerPass(a) PROVE ShapeInv'
    <2>1. [Next]_vars /\ Pass(a) /\ phase[a] = "passing" /\ pc[a] # "idle"
      BY <1>2, PublishersStep DEF ReviewerPass
    <2>2. TypeOK' /\ PassShape'
      BY <2>1, TypeStep, ShapeStep DEF ReviewTypeOK
    <2>3. a \in Publishers /\ about[a] \in Posts
      BY <2>1, Requests
    <2>4. status'[about[a]] \in Statuses
      BY <2>2, <2>3 DEF TypeOK
    <2>5. seen' \in [Reviewers -> Statuses]
      BY <1>2, <2>4 DEF ReviewTypeOK, ReviewerPass
    <2>6. ReviewTypeOK'
      BY <1>2, <2>2, <2>5 DEF ReviewTypeOK, ReviewerPass
    <2>7. MemoryChange(a)
      BY <2>1, <2>3, MemoryChanges DEF ReviewTypeOK
    <2>8. RequestShape'
      BY <1>2, <2>1, <2>7, ReviewConstants DEF RequestShape, ReviewerPass, MemoryChange
    <2>9. QED
      BY <2>2, <2>6, <2>8
  <1>3. ASSUME NEW a \in Reviewers, ReviewerCrash(a), Crash(a) PROVE ShapeInv'
    <2>1. [Next]_vars /\ a \in Publishers
      BY <1>3, PublishersStep, Requests
    <2>2. TypeOK' /\ PassShape'
      BY <2>1, TypeStep, ShapeStep DEF ReviewTypeOK
    <2>3. ReviewTypeOK'
      BY <1>3, <2>2 DEF ShapeInv, ReviewTypeOK, ReviewerCrash, Close, Asks, OnItem, Statuses
    <2>4. /\ batch' = [batch EXCEPT ![a] = {}] /\ current' = [current EXCEPT ![a] = NoPost]
          /\ pc' = [pc EXCEPT ![a] = "idle"]
      BY <1>3 DEF Crash, Forget, Goto
    <2>5. RequestShape'
      BY <1>3, <2>1, <2>4, ReviewConstants, ConstantsAssumption
         DEF RequestShape, ReviewerCrash, Close, ReviewTypeOK, TypeOK
    <2>6. QED
      BY <2>2, <2>3, <2>5
  <1>4. ASSUME NEW a \in Reviewers, ReviewerCrash(a), ~Crash(a) PROVE ShapeInv'
    <2>1. /\ phase[a] # "none" /\ pc[a] = "idle" /\ crashes' = crashes + 1
          /\ \/ UNCHANGED reached
             \/ reached' = [reached EXCEPT ![about[a]] = @ + 1]
          /\ UNCHANGED <<rowVars, stops, passVars, unsure, afterStop, keptVars, item, releases>>
          /\ Close(a)
      BY <1>4 DEF ReviewerCrash
    <2>2. about[a] \in Posts /\ batch[a] = {} /\ current[a] = NoPost
      BY <2>1, Requests
    <2>3. TypeOK'
      BY <2>1, <2>2 DEF ShapeInv, ReviewTypeOK, TypeOK, rowVars, passVars, keptVars
    <2>4. ReviewTypeOK' /\ PassShape' /\ RequestShape'
      BY <2>1, <2>3, Closes DEF ShapeInv, ReviewTypeOK
    <2>5. QED
      BY <2>3, <2>4
  <1>5. QED
    BY <1>1, <1>2, <1>3, <1>4

\* Types and shape are kept by every step, whatever the number of requests.
LEMMA ShapeKept == ShapeInv /\ [NextReviewed]_allVars => ShapeInv'
  <1> SUFFICES ASSUME ShapeInv, [NextReviewed]_allVars PROVE ShapeInv'
    OBVIOUS
  <1>1. CASE UNCHANGED allVars
    BY <1>1 DEF allVars, vars, reviewVars, rowVars, passVars, ghostVars, keptVars,
                ShapeInv, ReviewTypeOK, TypeOK, PassShape, RequestShape
  <1>2. ASSUME NEW a \in Reviewers, Review(a) PROVE ShapeInv'
    <2>1. \A what \in {"approve", "publish", "reject", "refuse", "expire", "edit"} : what \in Asks
      BY DEF Asks, OnItem, InLibrary
    <2>2. ASSUME NEW p \in Posts, OpenRelease(a, p) \/ OpenRefusal(a, p) \/ OpenEdit(a, p) PROVE ShapeInv'
      BY <2>1, <2>2, OpenShape DEF OpenRelease, OpenRefusal, OpenEdit
    <2>3. QED
      BY <1>2, <2>2, OwnShape, PassShapes DEF Review
  <1>3. QED
    BY <1>1, <1>2, PassShapes DEF NextReviewed

\* They hold in every reachable state.
LEMMA ShapeInvariance == SpecReviewed => []ShapeInv
  <1>1. QED
    BY InitShape, ShapeKept, PTL DEF SpecReviewed

\* Every variable of the publisher and of the requests keeps its type, for any
\* number of requests at once.
THEOREM ReviewTypeCorrect == SpecReviewed => []ReviewTypeOK
  <1>1. ShapeInv => ReviewTypeOK
    BY DEF ShapeInv
  <1>2. QED
    BY <1>1, ShapeInvariance, PTL

-----------------------------------------------------------------------------
(* What a publisher's step does to one post.                                *)

\* Nothing is recorded of q.
Unwritten(q) == status'[q] = status[q] /\ reached'[q] = reached[q] /\ unsure'[q] = unsure[q]

\* Its send may begin once its row is seen "publishing" and free.
Keeps(w, q) ==
    /\ Unwritten(q)
    /\ Holds(w, q)' <=> Holds(w, q)
    /\ InHand(w, q)' <=> InHand(w, q)
    /\ Sends(w, q)' => Sends(w, q) \/ (status[q] = "publishing" /\ ~Locked(q))

TakesUp(w, q) ==
    /\ status[q] = "scheduled" /\ status'[q] = "publishing"
    /\ reached'[q] = reached[q] /\ unsure'[q] = unsure[q]
    /\ ~Holds(w, q) /\ Holds(w, q)' /\ ~Sends(w, q)'

GivesUp(w, q) ==
    /\ status[q] = "publishing" /\ ~Locked(q) /\ status'[q] = "failed"
    /\ reached'[q] = reached[q] /\ unsure'[q] = unsure[q]
    /\ ~Holds(w, q) /\ ~Holds(w, q)'

GivesBack(w, q) ==
    /\ q \in batch[w] /\ ~Locked(q) /\ status'[q] = "scheduled"
    /\ reached'[q] = reached[q] /\ unsure'[q] = unsure[q]
    /\ ~Holds(w, q)'

Finishes(w, q) ==
    /\ Sends(w, q) /\ ~Holds(w, q)' /\ status'[q] \in {"published", "scheduled", "failed"}
    /\ reached'[q] + (IF status'[q] = "scheduled" THEN 1 ELSE 0) + unsure[q] <= reached[q] + 1 + unsure'[q]

MeetsError(w, q) ==
    /\ Sends(w, q) /\ Holds(w, q)' /\ ~InHand(w, q)' /\ ~Sends(w, q)'
    /\ status'[q] = status[q] /\ unsure'[q] = unsure[q] /\ reached'[q] <= reached[q] + 1

RecordsError(w, q) ==
    /\ Holds(w, q) /\ ~InHand(w, q) /\ ~Locked(q) /\ ~Holds(w, q)' /\ status'[q] = "failed"
    /\ reached'[q] = reached[q] /\ unsure'[q] = unsure[q]

Drops(w, q) ==
    /\ Holds(w, q) /\ ~Sends(w, q) /\ ~Holds(w, q)' /\ Unwritten(q) /\ status[q] # "publishing"

PassEffect(w, q) ==
    \/ Keeps(w, q) \/ TakesUp(w, q) \/ GivesUp(w, q) \/ GivesBack(w, q) \/ Finishes(w, q)
    \/ MeetsError(w, q) \/ RecordsError(w, q) \/ Drops(w, q)

\* Every step of a pass does one of these to each post.
LEMMA PassEffects ==
  ASSUME TypeOK, PassShape, NEW w \in Publishers, Pass(w)
  PROVE  \A q \in Posts : PassEffect(w, q)
  <1> USE ConstantsAssumption DEF TypeOK, PassShape, Holds, InHand, Sends, Unwritten, Keeps,
      rowVars, passVars, ghostVars, keptVars
  <1>0. ASSUME NEW q \in Posts,
               Keeps(w, q) \/ TakesUp(w, q) \/ GivesUp(w, q) \/ GivesBack(w, q) \/ Finishes(w, q)
                 \/ MeetsError(w, q) \/ RecordsError(w, q) \/ Drops(w, q)
        PROVE  PassEffect(w, q)
    BY <1>0, Zenon DEF PassEffect
  <1>1. ASSUME StartPass(w), NEW q \in Posts PROVE Keeps(w, q)
    BY <1>1 DEF StartPass, Goto
  <1>2. ASSUME CountPosted(w), NEW q \in Posts PROVE Keeps(w, q)
    BY <1>2 DEF CountPosted, Goto
  <1>3. ASSUME EndPass(w), NEW q \in Posts PROVE Keeps(w, q)
    BY <1>3 DEF EndPass, Forget, Goto
  <1>4. ASSUME Claim(w), NEW q \in Posts
        PROVE  Keeps(w, q) \/ TakesUp(w, q) \/ GivesUp(w, q)
    <2>1. PICK lost \in SUBSET Posts, mine \in SUBSET Posts : ClaimEffect(w, lost, mine)
      BY <1>4, ClaimFacts
    <2>2. batch[w] = {} /\ current[w] = NoPost /\ q # NoPost /\ pc'[w] \in {"idle", "count"}
      BY <2>1 DEF ClaimEffect
    <2>3. CASE q \in mine
      BY <2>1, <2>2, <2>3 DEF ClaimEffect, TakesUp
    <2>4. CASE q \in lost /\ q \notin mine
      BY <2>1, <2>2, <2>4 DEF ClaimEffect, GivesUp
    <2>5. CASE q \notin lost /\ q \notin mine
      BY <2>1, <2>2, <2>5 DEF ClaimEffect
    <2>6. QED
      BY <2>3, <2>4, <2>5
  <1>5. ASSUME HoldForStop(w), NEW q \in Posts
        PROVE  Keeps(w, q) \/ GivesBack(w, q) \/ Drops(w, q)
    <2>1. /\ pc[w] = "next" /\ current[w] = NoPost /\ q # NoPost
          /\ status' = [x \in Posts |-> IF x \in Held(w) THEN "scheduled" ELSE status[x]]
          /\ Held(w) \subseteq batch[w] /\ \A x \in Held(w) : ~Locked(x)
          /\ batch'[w] = {} /\ current'[w] = NoPost /\ UNCHANGED <<reached, unsure>>
      BY <1>5 DEF HoldForStop, PutBack, Forget, Held
    <2>2. CASE q \in Held(w)
      BY <2>1, <2>2 DEF GivesBack
    <2>3. CASE q \in batch[w] \ Held(w)
      <3>1. status[q] # "publishing"
        BY <2>3 DEF Held
      <3>2. QED
        BY <2>1, <2>3, <3>1 DEF Drops
    <2>4. CASE q \notin batch[w]
      BY <2>1, <2>4
    <2>5. QED
      BY <2>2, <2>3, <2>4
  <1>6. ASSUME NEW p \in Posts, HoldForCap(w, p), NEW q \in Posts
        PROVE  Keeps(w, q) \/ GivesBack(w, q)
    <2>1. CASE q = p
      BY <1>6, <2>1 DEF HoldForCap, PutBack, GivesBack
    <2>2. CASE q # p
      BY <1>6, <2>2 DEF HoldForCap, PutBack
    <2>3. QED
      BY <2>1, <2>2
  <1>7. ASSUME NEW p \in Posts, PickNext(w, p), NEW q \in Posts PROVE Keeps(w, q)
    BY <1>7 DEF PickNext, Goto
  <1>8. ASSUME Relock(w), NEW q \in Posts PROVE Keeps(w, q) \/ Drops(w, q)
    <2>1. CASE q = current[w]
      BY <1>8, <2>1 DEF Relock, StillPublishing, Goto, Drops
    <2>2. CASE q # current[w]
      BY <1>8, <2>2 DEF Relock, Goto
    <2>3. QED
      BY <2>1, <2>2
  <1>9. ASSUME NEW p \in Posts, SendOk(w, p), NEW q \in Posts
        PROVE  Keeps(w, q) \/ Finishes(w, q)
    <2>1. CASE q = p
      BY <1>9, <2>1 DEF SendOk, Answered, Sent, MoveOn, Goto, Finishes
    <2>2. CASE q # p
      BY <1>9, <2>2 DEF SendOk, Answered, Sent, MoveOn, Goto
    <2>3. QED
      BY <2>1, <2>2
  <1>10. ASSUME NEW p \in Posts, SendWait(w, p), NEW q \in Posts
         PROVE  Keeps(w, q) \/ Finishes(w, q)
    <2>1. /\ Sends(w, p) /\ MoveOn(w) /\ Sent(w, p, 0) /\ UNCHANGED unsure
          /\ status' = [status EXCEPT ![p] = "scheduled"] \/ status' = [status EXCEPT ![p] = "failed"]
      BY <1>10 DEF SendWait, Answered, Fail, Defer
    <2>2. CASE q = p
      BY <2>1, <2>2 DEF Sent, MoveOn, Goto, Finishes
    <2>3. CASE q # p
      BY <2>1, <2>3 DEF Sent, MoveOn, Goto
    <2>4. QED
      BY <2>2, <2>3
  <1>11. ASSUME NEW p \in Posts, SendTransient(w, p), NEW q \in Posts
         PROVE  Keeps(w, q) \/ Finishes(w, q)
    <2>1. /\ Sends(w, p) /\ MoveOn(w)
          /\ \/ Sent(w, p, 0) /\ UNCHANGED unsure
             \/ Sent(w, p, 1) /\ unsure' = [unsure EXCEPT ![p] = @ + 1]
          /\ status' = [status EXCEPT ![p] = "scheduled"] \/ status' = [status EXCEPT ![p] = "failed"]
      BY <1>11 DEF SendTransient, Answered, Fail, Defer
    <2>2. CASE q = p
      BY <2>1, <2>2 DEF Sent, MoveOn, Goto, Finishes
    <2>3. CASE q # p
      BY <2>1, <2>3 DEF Sent, MoveOn, Goto
    <2>4. QED
      BY <2>2, <2>3
  <1>12. ASSUME NEW p \in Posts, SendRefused(w, p), NEW q \in Posts
         PROVE  Keeps(w, q) \/ Finishes(w, q)
    <2>1. CASE q = p
      BY <1>12, <2>1 DEF SendRefused, Answered, Fail, Sent, MoveOn, Goto, Finishes
    <2>2. CASE q # p
      BY <1>12, <2>2 DEF SendRefused, Answered, Fail, Sent, MoveOn, Goto
    <2>3. QED
      BY <2>1, <2>2
  <1>13. ASSUME NEW p \in Posts, SendDatabaseError(w, p), NEW q \in Posts
         PROVE  Keeps(w, q) \/ MeetsError(w, q)
    <2>1. CASE q = p
      BY <1>13, <2>1 DEF SendDatabaseError, Answered, Sent, Goto, MeetsError
    <2>2. CASE q # p
      BY <1>13, <2>2 DEF SendDatabaseError, Answered, Sent, Goto
    <2>3. QED
      BY <2>1, <2>2
  <1>14. ASSUME NEW p \in Posts, RecordDatabaseError(w, p), NEW q \in Posts
         PROVE  Keeps(w, q) \/ RecordsError(w, q)
    <2>1. CASE q = p
      BY <1>14, <2>1 DEF RecordDatabaseError, Fail, MoveOn, Goto, RecordsError
    <2>2. CASE q # p
      BY <1>14, <2>2 DEF RecordDatabaseError, Fail, MoveOn, Goto
    <2>3. QED
      BY <2>1, <2>2
  <1> HIDE DEF Keeps
  <1>15. QED
    BY <1>0, <1>1, <1>2, <1>3, <1>4, <1>5, <1>6, <1>7, <1>8, <1>9, <1>10, <1>11, <1>12, <1>13, <1>14,
       Zenon DEF Pass, Sending

\* A publisher that dies lets go of everything; a send it had begun may have
\* reached the platform.
LEMMA CrashEffect ==
  ASSUME TypeOK, PassShape, NEW w \in Publishers, Crash(w)
  PROVE  \A q \in Posts :
            /\ status'[q] = status[q] /\ unsure'[q] = unsure[q] /\ ~Holds(w, q)'
            /\ reached'[q] # reached[q] => Sends(w, q) /\ reached'[q] = reached[q] + 1
  <1> USE ConstantsAssumption DEF TypeOK, PassShape, Crash, Forget, Goto, rowVars, keptVars
  <1>1. ASSUME NEW q \in Posts PROVE status'[q] = status[q] /\ unsure'[q] = unsure[q] /\ ~Holds(w, q)'
    BY DEF Holds
  <1>2. ASSUME NEW q \in Posts, reached'[q] # reached[q]
        PROVE  Sends(w, q) /\ reached'[q] = reached[q] + 1
    BY <1>2 DEF Sends, Sent
  <1>3. QED
    BY <1>1, <1>2

\* What anybody holds, and how far it is, stays as it is when memories do.
LEMMA MemoryKept ==
  ASSUME NEW w, batch'[w] = batch[w], current'[w] = current[w], pc'[w] = pc[w]
  PROVE  \A q : /\ Holds(w, q)' <=> Holds(w, q)
                /\ InHand(w, q)' <=> InHand(w, q)
                /\ Sends(w, q)' <=> Sends(w, q)
  BY DEF Holds, InHand, Sends

\* A pass or a death concerns its publisher's memory alone.
LEMMA OthersKeep ==
  ASSUME TypeOK, PassShape, NEW w \in Publishers, Pass(w) \/ Crash(w), NEW v \in Publishers, v # w
  PROVE  /\ batch'[v] = batch[v] /\ current'[v] = current[v] /\ pc'[v] = pc[v]
         /\ \A q : /\ Holds(v, q)' <=> Holds(v, q)
                   /\ InHand(v, q)' <=> InHand(v, q)
                   /\ Sends(v, q)' <=> Sends(v, q)
  <1>1. batch'[v] = batch[v] /\ current'[v] = current[v] /\ pc'[v] = pc[v]
    BY MemoryChanges DEF MemoryChange
  <1>2. QED
    BY <1>1, MemoryKept

\* A publisher's step keeps the publisher's types.
LEMMA PublishersTypes ==
  ASSUME TypeOK, NEW w \in Publishers, Pass(w) \/ Crash(w)
  PROVE  TypeOK'
  <1>1. [Next]_vars
    BY DEF Next
  <1>2. QED
    BY <1>1, TypeStep

-----------------------------------------------------------------------------
(* Every send has a release behind it.                                      *)

\* One for a post on the schedule.
Waiting(q) == IF status[q] = "scheduled" THEN 1 ELSE 0

\* A step spends nothing, spends the right of one sender, or gives one to w.
SpendsNothing(q) ==
    /\ Senders(q)' \subseteq Senders(q)
    /\ reached'[q] + Waiting(q)' + releases[q] + unsure[q]
         <= reached[q] + Waiting(q) + releases'[q] + unsure'[q]

SpendsOne(w, q) ==
    /\ w \in Senders(q) /\ Senders(q)' \subseteq Senders(q) \ {w}
    /\ reached'[q] + Waiting(q)' + releases[q] + unsure[q]
         <= reached[q] + Waiting(q) + releases'[q] + unsure'[q] + 1

GivesOne(w, q) ==
    /\ Senders(q)' \subseteq Senders(q) \cup {w}
    /\ reached'[q] + Waiting(q)' + releases[q] + unsure[q] + 1
         <= reached[q] + Waiting(q) + releases'[q] + unsure'[q]

Accounted(q) == SpendsNothing(q) \/ \E w \in Publishers : SpendsOne(w, q) \/ GivesOne(w, q)

\* Counting senders before and after.
LEMMA SendersCount ==
  ASSUME NEW S, NEW T, NEW w, IsFiniteSet(S)
  PROVE  /\ Cardinality(S) \in Nat
         /\ T \subseteq S => Cardinality(T) \in Nat /\ Cardinality(T) <= Cardinality(S)
         /\ w \in S /\ T \subseteq S \ {w} => Cardinality(T) \in Nat /\ Cardinality(T) + 1 <= Cardinality(S)
         /\ T \subseteq S \cup {w} => Cardinality(T) \in Nat /\ Cardinality(T) <= Cardinality(S) + 1
  <1>1. Cardinality(S) \in Nat
    BY FS_CardinalityType
  <1>2. ASSUME NEW U, IsFiniteSet(U), T \subseteq U
        PROVE  Cardinality(T) \in Nat /\ Cardinality(U) \in Nat /\ Cardinality(T) <= Cardinality(U)
    BY <1>2, FS_Subset, FS_CardinalityType
  <1>3. ASSUME w \in S, T \subseteq S \ {w}
        PROVE  Cardinality(T) \in Nat /\ Cardinality(T) + 1 <= Cardinality(S)
    <2>1. IsFiniteSet(S \ {w}) /\ Cardinality(S \ {w}) = Cardinality(S) - 1
      BY <1>3, FS_RemoveElement
    <2>2. QED
      BY <1>1, <1>2, <1>3, <2>1
  <1>4. ASSUME T \subseteq S \cup {w}
        PROVE  Cardinality(T) \in Nat /\ Cardinality(T) <= Cardinality(S) + 1
    <2>1. /\ IsFiniteSet(S \cup {w})
          /\ Cardinality(S \cup {w}) = Cardinality(S) \/ Cardinality(S \cup {w}) = Cardinality(S) + 1
      BY FS_AddElement
    <2>2. QED
      BY <1>1, <1>2, <1>4, <2>1
  <1>5. QED
    BY <1>1, <1>2, <1>3, <1>4

\* Steps of these kinds keep the account.
LEMMA AccountKept ==
  ASSUME ShapeInv, SendsAccounted, ShapeInv', \A q \in Posts : Accounted(q)
  PROVE  SendsAccounted'
  <1> SUFFICES ASSUME NEW q \in Posts
               PROVE  reached'[q] + Cardinality(Senders(q)') + Waiting(q)' <= releases'[q] + unsure'[q]
    BY Zenon DEF SendsAccounted, Waiting
  <1>1. /\ reached[q] \in Nat /\ unsure[q] \in Nat /\ releases[q] \in Nat
        /\ reached'[q] \in Nat /\ unsure'[q] \in Nat /\ releases'[q] \in Nat
        /\ Waiting(q) \in 0..1 /\ Waiting(q)' \in 0..1
    BY DEF ShapeInv, ReviewTypeOK, TypeOK, Waiting
  <1>2. reached[q] + Cardinality(Senders(q)) + Waiting(q) <= releases[q] + unsure[q]
    BY Zenon DEF SendsAccounted, Waiting
  <1>3. IsFiniteSet(Senders(q))
    BY ReviewConstants, FS_Subset DEF Senders
  <1>4. PICK m, n : m = Cardinality(Senders(q)) /\ n = Cardinality(Senders(q)')
    OBVIOUS
  <1>5. CASE SpendsNothing(q)
    <2>1. m \in Nat /\ n \in Nat /\ n <= m
      BY <1>3, <1>4, <1>5, SendersCount DEF SpendsNothing
    <2>2. QED
      BY <1>1, <1>2, <1>4, <1>5, <2>1 DEF SpendsNothing
  <1>6. ASSUME NEW w \in Publishers, SpendsOne(w, q)
        PROVE  reached'[q] + n + Waiting(q)' <= releases'[q] + unsure'[q]
    <2>1. m \in Nat /\ n \in Nat /\ n + 1 <= m
      BY <1>3, <1>4, <1>6, SendersCount DEF SpendsOne
    <2>2. QED
      BY <1>1, <1>2, <1>4, <1>6, <2>1 DEF SpendsOne
  <1>7. ASSUME NEW w \in Publishers, GivesOne(w, q)
        PROVE  reached'[q] + n + Waiting(q)' <= releases'[q] + unsure'[q]
    <2>1. m \in Nat /\ n \in Nat /\ n <= m + 1
      BY <1>3, <1>4, <1>7, SendersCount DEF GivesOne
    <2>2. QED
      BY <1>1, <1>2, <1>4, <1>7, <2>1 DEF GivesOne
  <1>8. QED
    BY <1>4, <1>5, <1>6, <1>7 DEF Accounted

\* Every step of a pass, whoever makes it.
LEMMA PassAccounted ==
  ASSUME ShapeInv, NEW w \in Publishers, Pass(w), UNCHANGED <<phase, about, releases>>
  PROVE  \A q \in Posts : Accounted(q)
  <1> SUFFICES ASSUME NEW q \in Posts PROVE Accounted(q)
    OBVIOUS
  <1>1. TypeOK /\ PassShape /\ reached[q] \in Nat /\ unsure[q] \in Nat /\ releases'[q] = releases[q]
        /\ releases[q] \in Nat
    BY DEF ShapeInv, ReviewTypeOK, TypeOK
  <1>0. TypeOK'
    BY <1>1, PublishersTypes
  <1>2. PassEffect(w, q)
    BY <1>1, PassEffects
  <1>3. \A v \in Publishers : v # w => (InHand(v, q)' <=> InHand(v, q))
    BY <1>1, OthersKeep
  <1>4. \A v \in Publishers : Calling(v, q)' <=> Calling(v, q)
    BY DEF Calling
  <1>5. InHand(w, q)' => Holds(w, q)'
    BY DEF InHand, Holds
  <1>6. ~Calling(w, q) \/ ~InHand(w, q)
    <2>1. CASE Calling(w, q)
      BY <2>1, Requests DEF Calling, InHand, ShapeInv, RequestShape
    <2>2. QED
      BY <2>1
  <1>7. w \in Senders(q)' <=> InHand(w, q)' \/ Calling(w, q)
    BY <1>4 DEF Senders
  <1>8. Senders(q)' \subseteq Senders(q) \cup {w} /\ Senders(q)' \ {w} \subseteq Senders(q) \ {w}
    BY <1>3, <1>4 DEF Senders
  <1>9. ASSUME InHand(w, q)' => InHand(w, q) PROVE Senders(q)' \subseteq Senders(q)
    BY <1>3, <1>4, <1>9 DEF Senders
  <1>10. ASSUME InHand(w, q), ~InHand(w, q)'
         PROVE  w \in Senders(q) /\ Senders(q)' \subseteq Senders(q) \ {w}
    BY <1>6, <1>7, <1>8, <1>10 DEF Senders
  <1>11. CASE Keeps(w, q)
    BY <1>1, <1>9, <1>11 DEF Keeps, Unwritten, Accounted, SpendsNothing, Waiting
  <1>12. CASE TakesUp(w, q)
    BY <1>1, <1>8, <1>12 DEF TakesUp, Accounted, GivesOne, Waiting
  <1>13. CASE GivesUp(w, q)
    BY <1>1, <1>5, <1>9, <1>13 DEF GivesUp, Accounted, SpendsNothing, Waiting
  <1>14. CASE GivesBack(w, q)
    <2>1. InHand(w, q) /\ ~InHand(w, q)'
      BY <1>5, <1>14 DEF GivesBack, InHand
    <2>2. QED
      BY <1>1, <1>10, <1>14, <2>1 DEF GivesBack, Accounted, SpendsOne, Waiting
  <1>15. CASE Finishes(w, q)
    <2>1. InHand(w, q) /\ ~InHand(w, q)'
      BY <1>5, <1>15 DEF Finishes, InHand, Sends
    <2>2. reached'[q] \in Nat /\ unsure'[q] \in Nat
      BY <1>0 DEF TypeOK
    <2>3. QED
      BY <1>1, <1>10, <1>15, <2>1, <2>2 DEF Finishes, Accounted, SpendsOne, Waiting
  <1>16. CASE MeetsError(w, q)
    <2>1. InHand(w, q)
      BY <1>16 DEF MeetsError, InHand, Sends
    <2>2. reached'[q] \in Nat
      BY <1>0 DEF TypeOK
    <2>3. QED
      BY <1>1, <1>10, <1>16, <2>1, <2>2 DEF MeetsError, Accounted, SpendsOne, Waiting
  <1>17. CASE RecordsError(w, q)
    BY <1>1, <1>5, <1>9, <1>17 DEF RecordsError, Accounted, SpendsNothing, Waiting
  <1>18. CASE Drops(w, q)
    BY <1>1, <1>5, <1>9, <1>18 DEF Drops, Unwritten, Accounted, SpendsNothing, Waiting
  <1>19. QED
    BY <1>2, <1>11, <1>12, <1>13, <1>14, <1>15, <1>16, <1>17, <1>18, Zenon DEF PassEffect

\* A death spends at most the right of the publisher that died.
LEMMA CrashAccounted ==
  ASSUME ShapeInv, NEW w \in Publishers, Crash(w), UNCHANGED releases,
         \A v \in Publishers, q \in Posts : Calling(v, q)' => Calling(v, q)
  PROVE  \A q \in Posts : Accounted(q)
  <1> SUFFICES ASSUME NEW q \in Posts PROVE Accounted(q)
    OBVIOUS
  <1>1. TypeOK /\ PassShape /\ reached[q] \in Nat /\ unsure[q] \in Nat /\ releases[q] \in Nat
    BY DEF ShapeInv, ReviewTypeOK, TypeOK
  <1>2. /\ status'[q] = status[q] /\ unsure'[q] = unsure[q] /\ releases'[q] = releases[q]
        /\ ~Holds(w, q)'
        /\ reached'[q] # reached[q] => Sends(w, q) /\ reached'[q] = reached[q] + 1
    BY <1>1, CrashEffect
  <1>3. \A v \in Publishers : v # w => (InHand(v, q)' <=> InHand(v, q))
    BY <1>1, OthersKeep
  <1>4. ~InHand(w, q)'
    BY <1>2 DEF InHand, Holds
  <1>5. Senders(q)' \subseteq Senders(q)
    BY <1>3, <1>4 DEF Senders
  <1>6. CASE reached'[q] = reached[q]
    BY <1>1, <1>2, <1>5, <1>6 DEF Accounted, SpendsNothing, Waiting
  <1>7. CASE Sends(w, q) /\ reached'[q] = reached[q] + 1
    <2>1. InHand(w, q)
      BY <1>7 DEF InHand, Sends
    <2>2. w \in Reviewers => phase[w] = "passing"
      BY <1>7, Requests DEF Sends
    <2>3. ~Calling(w, q)
      BY <2>2 DEF Calling
    <2>4. w \in Senders(q) /\ Senders(q)' \subseteq Senders(q) \ {w}
      BY <1>3, <1>4, <2>1, <2>3 DEF Senders
    <2>5. QED
      BY <1>1, <1>2, <1>7, <2>4 DEF Accounted, SpendsOne, Waiting
  <1>8. QED
    BY <1>2, <1>6, <1>7

\* While memories stay as they are, only a request that changes can send more or
\* less; one that is open and not calling adds nothing.
LEMMA CallersChange ==
  ASSUME ShapeInv, UNCHANGED passVars, NEW a \in Reviewers, NEW q \in Posts,
         \A b \in Reviewers : b # a => phase'[b] = phase[b] /\ about'[b] = about[b]
  PROVE  /\ Senders(q)' \subseteq Senders(q) \cup {a}
         /\ phase'[a] # "direct" => Senders(q)' \subseteq Senders(q)
         /\ phase'[a] # "direct" /\ phase[a] = "direct" /\ about[a] = q =>
               a \in Senders(q) /\ Senders(q)' \subseteq Senders(q) \ {a}
         /\ q # about[a] /\ (phase'[a] = "direct" => about'[a] = about[a]) =>
               Senders(q)' \subseteq Senders(q)
  <1>1. \A w : InHand(w, q)' <=> InHand(w, q)
    BY MemoryKept DEF passVars
  <1>2. \A w : w # a => (Calling(w, q)' <=> Calling(w, q))
    BY DEF Calling
  <1>3. a \in Publishers
    BY Requests
  <1>4. ASSUME phase[a] = "direct" PROVE ~InHand(a, q)
    <2>1. pc[a] = "idle" /\ batch[a] = {} /\ current[a] = NoPost /\ q # NoPost
      BY <1>4, Requests
    <2>2. QED
      BY <2>1 DEF InHand
  <1>5. ASSUME phase'[a] # "direct" PROVE ~Calling(a, q)'
    BY <1>5 DEF Calling
  <1>6. ASSUME q # about[a], phase'[a] = "direct" => about'[a] = about[a] PROVE ~Calling(a, q)'
    BY <1>6 DEF Calling
  <1>7. phase[a] = "direct" /\ about[a] = q => Calling(a, q)
    BY DEF Calling
  <1>8. QED
    BY <1>1, <1>2, <1>3, <1>4, <1>5, <1>6, <1>7 DEF Senders

\* The end of a request, by what it did to its post: it sent it at most if it was
\* calling its platform or notes a lost answer, and put it on the schedule only
\* in place of a call, or with a release.
LEMMA ClosingAccounted ==
  ASSUME ShapeInv, ShapeInv', NEW a \in Reviewers, phase[a] # "none", Close(a), UNCHANGED passVars,
         NEW p \in Posts, p = about[a],
         NEW spent \in 0..1,
         spent = 1 => phase[a] = "direct",
         \A q \in Posts : q # p =>
            /\ status'[q] = status[q] /\ reached'[q] = reached[q]
            /\ unsure'[q] = unsure[q] /\ releases'[q] = releases[q],
         reached'[p] + Waiting(p)' + releases[p] + unsure[p]
            <= reached[p] + Waiting(p) + releases'[p] + unsure'[p] + spent
  PROVE  \A q \in Posts : Accounted(q)
  <1> SUFFICES ASSUME NEW q \in Posts PROVE Accounted(q)
    OBVIOUS
  <1>1. /\ phase'[a] = "none"
        /\ \A b \in Reviewers : b # a => phase'[b] = phase[b] /\ about'[b] = about[b]
    BY DEF Close, ShapeInv, ReviewTypeOK
  <1>2. /\ Senders(q)' \subseteq Senders(q)
        /\ phase[a] = "direct" /\ about[a] = q =>
              a \in Senders(q) /\ Senders(q)' \subseteq Senders(q) \ {a}
    BY <1>1, CallersChange
  <1>3. /\ reached[q] \in Nat /\ unsure[q] \in Nat /\ releases[q] \in Nat /\ Waiting(q) \in 0..1
        /\ a \in Publishers
        /\ reached'[q] \in Nat /\ unsure'[q] \in Nat /\ releases'[q] \in Nat /\ Waiting(q)' \in 0..1
    BY Requests DEF ShapeInv, ReviewTypeOK, TypeOK, Waiting
  <1>4. CASE q # p
    <2>1. Waiting(q)' = Waiting(q)
      BY <1>4 DEF Waiting
    <2>2. QED
      BY <1>2, <1>3, <1>4, <2>1 DEF Accounted, SpendsNothing
  <1>5. CASE q = p /\ spent = 1
    BY <1>2, <1>3, <1>5 DEF Accounted, SpendsOne
  <1>6. CASE q = p /\ spent = 0
    BY <1>2, <1>3, <1>6 DEF Accounted, SpendsNothing
  <1>7. QED
    BY <1>4, <1>5, <1>6

\* Every step of a request's own.
LEMMA OwnAccounted ==
  ASSUME ShapeInv, ShapeInv', NEW a \in Reviewers
  PROVE  /\ (\E p \in Posts : OpenRelease(a, p) \/ OpenRefusal(a, p) \/ OpenEdit(a, p))
               => \A q \in Posts : Accounted(q)
         /\ ReleaseDone(a) \/ ReleaseLater(a) \/ ReleaseNow(a) \/ FinishRelease(a)
               => \A q \in Posts : Accounted(q)
         /\ CallPlatform(a) \/ DirectOk(a) \/ DirectWait(a) \/ DirectFail(a)
               => \A q \in Posts : Accounted(q)
         /\ Reject(a) \/ Expire(a) \/ Edit(a) \/ (ReviewerCrash(a) /\ ~Crash(a))
               => \A q \in Posts : Accounted(q)
  <1>0. /\ status \in [Posts -> Statuses] /\ reached \in [Posts -> Nat] /\ unsure \in [Posts -> Nat]
        /\ releases \in [Posts -> Nat] /\ phase \in [Reviewers -> {"none", "opened", "passing", "direct"}]
        /\ phase[a] # "none" => about[a] \in Posts
        /\ a \in Publishers
        /\ phase[a] # "passing" => pc[a] = "idle" /\ batch[a] = {} /\ current[a] = NoPost
        /\ NoPost \notin Posts
    BY Requests DEF ShapeInv, ReviewTypeOK, TypeOK
  <1>1. ASSUME NEW q \in Posts, NEW what \in Asks, Open(a, q, what), NEW x \in Posts PROVE Accounted(x)
    <2>1. /\ phase' = [phase EXCEPT ![a] = "opened"] /\ about' = [about EXCEPT ![a] = q]
          /\ UNCHANGED <<passVars, status, reached, unsure, releases>>
      BY <1>1 DEF Open, vars, rowVars, ghostVars
    <2>2. /\ phase'[a] = "opened"
          /\ \A b \in Reviewers : b # a => phase'[b] = phase[b] /\ about'[b] = about[b]
      BY <1>0, <2>1 DEF ShapeInv, ReviewTypeOK
    <2>3. Senders(x)' \subseteq Senders(x)
      BY <2>1, <2>2, CallersChange
    <2>4. QED
      BY <1>0, <2>1, <2>3 DEF Accounted, SpendsNothing, Waiting
  <1>3. ASSUME ReleaseDone(a) \/ FinishRelease(a) \/ Expire(a), NEW p \in Posts, p = about[a]
        PROVE  \A q \in Posts : Accounted(q)
    <2>1. phase[a] # "none" /\ Close(a) /\ UNCHANGED <<passVars, status, reached, unsure, releases>>
      BY <1>3 DEF ReleaseDone, FinishRelease, Expire, Releasing, Opened, vars, rowVars, ghostVars
    <2>2. QED
      BY <1>0, <1>3, <2>1, ClosingAccounted DEF Waiting
  <1>4. ASSUME ReleaseLater(a), NEW p \in Posts, p = about[a]
        PROVE  \A q \in Posts : Accounted(q)
    <2>1. /\ phase[a] = "opened" /\ Close(a) /\ NoteRelease(p)
          /\ status' = Written(a, "scheduled") /\ UNCHANGED <<passVars, reached, unsure>>
      BY <1>4 DEF ReleaseLater, Releasing, Opened, ghostVars
    <2>2. QED
      BY <1>0, <1>4, <2>1, Writes, ClosingAccounted DEF Waiting, NoteRelease, Statuses
  <1>5. ASSUME DirectOk(a), NEW p \in Posts, p = about[a]
        PROVE  \A q \in Posts : Accounted(q)
    <2>1. /\ phase[a] = "direct" /\ Close(a) /\ status' = [status EXCEPT ![p] = "published"]
          /\ reached' = [reached EXCEPT ![p] = @ + 1] /\ UNCHANGED <<passVars, unsure, releases>>
      BY <1>5 DEF DirectOk
    <2>2. QED
      BY <1>0, <1>5, <2>1, ClosingAccounted DEF Waiting
  <1>6. ASSUME DirectWait(a), NEW p \in Posts, p = about[a]
        PROVE  \A q \in Posts : Accounted(q)
    <2>1. /\ phase[a] = "direct" /\ Close(a) /\ status' = Written(a, "scheduled")
          /\ UNCHANGED <<passVars, reached, unsure, releases>>
      BY <1>6 DEF DirectWait, ghostVars
    <2>2. QED
      BY <1>0, <1>6, <2>1, Writes, ClosingAccounted DEF Waiting, Statuses
  <1>7. ASSUME DirectFail(a), NEW p \in Posts, p = about[a]
        PROVE  \A q \in Posts : Accounted(q)
    <2>1. /\ phase[a] = "direct" /\ Close(a) /\ status' = Written(a, "failed")
          /\ \/ UNCHANGED <<reached, unsure>>
             \/ /\ reached' = [reached EXCEPT ![p] = @ + 1]
                /\ unsure' = [unsure EXCEPT ![p] = @ + 1]
          /\ UNCHANGED <<passVars, releases>>
      BY <1>7 DEF DirectFail
    <2>2. /\ Waiting(p)' <= Waiting(p)
          /\ \A q \in Posts : q # p => status'[q] = status[q]
      BY <1>0, <1>7, <2>1, Writes DEF Waiting, Statuses
    <2>3. QED
      BY <1>0, <1>7, <2>1, <2>2, ClosingAccounted DEF Waiting
  <1>8. ASSUME Reject(a) \/ Edit(a), NEW p \in Posts, p = about[a]
        PROVE  \A q \in Posts : Accounted(q)
    <2>1. /\ phase[a] = "opened" /\ Close(a) /\ UNCHANGED <<passVars, reached, unsure, releases>>
          /\ UNCHANGED status \/ \E value \in {"rejected", "draft"} : status' = Written(a, value)
      BY <1>8 DEF Reject, Edit, Opened, ghostVars
    <2>2. /\ Waiting(p)' <= Waiting(p)
          /\ \A q \in Posts : q # p => status'[q] = status[q]
      <3>1. CASE UNCHANGED status
        BY <1>0, <3>1 DEF Waiting
      <3>2. ASSUME NEW value \in {"rejected", "draft"}, status' = Written(a, value)
            PROVE  /\ Waiting(p)' <= Waiting(p)
                   /\ \A q \in Posts : q # p => status'[q] = status[q]
        BY <1>0, <1>8, <2>1, <3>2, Writes DEF Waiting, Statuses
      <3>3. QED
        BY <2>1, <3>1, <3>2
    <2>3. QED
      BY <1>0, <1>8, <2>1, <2>2, ClosingAccounted DEF Waiting
  <1>9. ASSUME ReviewerCrash(a), ~Crash(a), NEW p \in Posts, p = about[a]
        PROVE  \A q \in Posts : Accounted(q)
    <2>1. /\ phase[a] # "none" /\ Close(a) /\ UNCHANGED <<passVars, status, unsure, releases>>
          /\ \/ UNCHANGED reached
             \/ phase[a] = "direct" /\ reached' = [reached EXCEPT ![p] = @ + 1]
      BY <1>9 DEF ReviewerCrash, rowVars
    <2>2. QED
      BY <1>0, <1>9, <2>1, ClosingAccounted DEF Waiting
  <1>10. ASSUME CallPlatform(a), NEW q \in Posts PROVE Accounted(q)
    <2>1. /\ phase[a] = "opened" /\ phase' = [phase EXCEPT ![a] = "direct"] /\ about[a] \in Posts
          /\ releases' = [releases EXCEPT ![about[a]] = @ + 1]
          /\ UNCHANGED <<passVars, status, reached, unsure, about>>
      BY <1>0, <1>10 DEF CallPlatform, Releasing, Opened, NoteRelease, vars, rowVars, ghostVars
    <2>2. \A b \in Reviewers : b # a => phase'[b] = phase[b] /\ about'[b] = about[b]
      BY <1>0, <2>1
    <2>3. CASE q = about[a]
      <3>1. Senders(q)' \subseteq Senders(q) \cup {a}
        BY <2>1, <2>2, CallersChange
      <3>2. QED
        BY <1>0, <2>1, <2>3, <3>1 DEF Accounted, GivesOne, Waiting
    <2>4. CASE q # about[a]
      <3>1. Senders(q)' \subseteq Senders(q)
        BY <2>1, <2>2, <2>4, CallersChange
      <3>2. QED
        BY <1>0, <2>1, <2>4, <3>1 DEF Accounted, SpendsNothing, Waiting
    <2>5. QED
      BY <2>3, <2>4
  <1>11. ASSUME ReleaseNow(a), NEW q \in Posts PROVE Accounted(q)
    <2>1. PICK lost \in SUBSET Posts : ReleaseEffect(a, lost)
      BY <1>11, ReleaseFacts
    <2>2. PICK mine \in SUBSET {about[a]} :
            /\ batch' = [batch EXCEPT ![a] = mine]
            /\ status' = [x \in Posts |->
                  CASE x \in mine -> "publishing"
                    [] x \in lost -> "failed"
                    [] OTHER      -> status[x]]
      <3> DEFINE taken == IF Written(a, "scheduled")[about[a]] = "scheduled" THEN {about[a]} ELSE {}
      <3>1. /\ batch' = [batch EXCEPT ![a] = taken]
            /\ status' = [x \in Posts |->
                  CASE x \in taken -> "publishing"
                    [] x \in lost  -> "failed"
                    [] OTHER       -> status[x]]
        BY <2>1, Zenon DEF ReleaseEffect
      <3>2. taken \in SUBSET {about[a]}
        OBVIOUS
      <3> HIDE DEF taken
      <3>3. QED
        BY <3>1, <3>2
    <2>3. /\ phase[a] = "opened" /\ phase' = [phase EXCEPT ![a] = "passing"] /\ about[a] \in Posts
          /\ releases' = [releases EXCEPT ![about[a]] = @ + 1]
          /\ UNCHANGED <<current, reached, unsure, about>>
          /\ pc[a] = "idle" /\ current[a] = NoPost
          /\ \A w : w # a => pc'[w] = pc[w]
      BY <1>0, <2>1 DEF ReleaseEffect, Releasing, Opened, NoteRelease, ghostVars, ShapeInv, ReviewTypeOK, TypeOK
    <2>4. \A w \in Publishers : w # a => (InHand(w, q)' <=> InHand(w, q))
      <3>1. ASSUME NEW w \in Publishers, w # a
            PROVE  batch'[w] = batch[w] /\ current'[w] = current[w] /\ pc'[w] = pc[w]
        BY <2>2, <2>3, <3>1 DEF ShapeInv, ReviewTypeOK, TypeOK
      <3>2. QED
        BY <3>1, MemoryKept
    <2>5. \A w : Calling(w, q)' => Calling(w, q)
      BY <1>0, <2>3 DEF Calling
    <2>6. Waiting(q)' <= Waiting(q) /\ Waiting(q) \in 0..1 /\ Waiting(q)' \in 0..1
      BY <2>2 DEF Waiting
    <2>7. CASE q = about[a]
      <3>1. Senders(q)' \subseteq Senders(q) \cup {a}
        BY <2>4, <2>5 DEF Senders
      <3>2. QED
        BY <1>0, <2>3, <2>6, <2>7, <3>1 DEF Accounted, GivesOne
    <2>8. CASE q # about[a]
      <3>1. ~InHand(a, q)'
        BY <1>0, <2>2, <2>3, <2>8 DEF InHand, ShapeInv, ReviewTypeOK, TypeOK
      <3>2. Senders(q)' \subseteq Senders(q)
        BY <2>4, <2>5, <3>1 DEF Senders
      <3>3. QED
        BY <1>0, <2>3, <2>6, <2>8, <3>2 DEF Accounted, SpendsNothing
    <2>9. QED
      BY <2>7, <2>8
  <1>12. phase[a] # "none" => about[a] \in Posts
    BY <1>0
  <1>13. ASSUME NEW p \in Posts, OpenRelease(a, p) \/ OpenRefusal(a, p) \/ OpenEdit(a, p), NEW x \in Posts
         PROVE  Accounted(x)
    BY <1>1, <1>13 DEF OpenRelease, OpenRefusal, OpenEdit, Asks, OnItem, InLibrary
  <1>14. /\ ReleaseDone(a) \/ ReleaseLater(a) \/ FinishRelease(a) \/ Expire(a) \/ Reject(a) \/ Edit(a)
               => phase[a] # "none"
         /\ DirectOk(a) \/ DirectWait(a) \/ DirectFail(a) \/ ReviewerCrash(a) => phase[a] # "none"
    BY DEF ReleaseDone, ReleaseLater, FinishRelease, Expire, Reject, Edit, DirectOk, DirectWait,
           DirectFail, ReviewerCrash, Releasing, Opened
  <1>15. QED
    BY <1>3, <1>4, <1>5, <1>6, <1>7, <1>8, <1>9, <1>10, <1>11, <1>12, <1>13, <1>14

\* What goes on without a reviewer.
LEMMA ElsewhereAccounted ==
  ASSUME ShapeInv, ShapeInv', Elsewhere
  PROVE  \A q \in Posts : Accounted(q)
  <1>1. UNCHANGED <<phase, about, releases>>
    BY DEF Elsewhere, reviewVars
  <1>2. \A w \in Publishers, q \in Posts : Calling(w, q)' <=> Calling(w, q)
    BY <1>1 DEF Calling
  <1>3. ASSUME \/ \E p \in Posts : Cancel(p) \/ Time(p)
               \/ \E k \in StopKinds : Stop(k) \/ Resume(k),
               NEW q \in Posts
        PROVE  Accounted(q)
    <2>1. /\ UNCHANGED <<passVars, reached, unsure>>
          /\ status'[q] = status[q] \/ status'[q] = "rejected"
      <3>1. ASSUME NEW p \in Posts, Cancel(p)
            PROVE  /\ UNCHANGED <<passVars, reached, unsure>>
                   /\ status'[q] = status[q] \/ status'[q] = "rejected"
        BY <3>1 DEF Cancel, ghostVars, ShapeInv, ReviewTypeOK, TypeOK
      <3>2. ASSUME NEW p \in Posts, Time(p)
            PROVE  UNCHANGED <<passVars, reached, unsure, status>>
        BY <3>2 DEF Time, BecomeDue, BecomeStale, DayPasses, ghostVars
      <3>3. ASSUME NEW k \in StopKinds, Stop(k) \/ Resume(k)
            PROVE  UNCHANGED <<passVars, reached, unsure, status>>
        BY <3>3 DEF Stop, Resume, ghostVars, rowVars
      <3>4. QED
        BY <1>3, <3>1, <3>2, <3>3
    <2>2. \A w : InHand(w, q)' <=> InHand(w, q)
      BY <2>1, MemoryKept DEF passVars
    <2>3. Senders(q)' \subseteq Senders(q)
      BY <1>2, <2>2 DEF Senders
    <2>4. reached[q] \in Nat /\ unsure[q] \in Nat /\ releases[q] \in Nat
      BY DEF ShapeInv, ReviewTypeOK, TypeOK
    <2>5. QED
      BY <1>1, <2>1, <2>3, <2>4 DEF Accounted, SpendsNothing, Waiting
  <1>4. ASSUME NEW w \in Publishers \ Reviewers, Pass(w) \/ Crash(w)
        PROVE  \A q \in Posts : Accounted(q)
    BY <1>1, <1>2, <1>4, PassAccounted, CrashAccounted
  <1>5. QED
    BY <1>3, <1>4 DEF Elsewhere

\* Every step keeps the account of every post.
LEMMA StepAccounted ==
  ASSUME ShapeInv, ShapeInv', SendsAccounted, [NextReviewed]_allVars
  PROVE  SendsAccounted'
  <1>1. ASSUME UNCHANGED allVars PROVE SendsAccounted'
    <2>1. \A q \in Posts : Waiting(q)' = Waiting(q)
      BY <1>1 DEF Waiting, allVars, vars, rowVars
    <2>2. \A q \in Posts : Senders(q)' = Senders(q)
      BY <1>1 DEF Senders, InHand, Calling, allVars, vars, passVars, reviewVars
    <2>3. \A q \in Posts : reached'[q] = reached[q] /\ unsure'[q] = unsure[q] /\ releases'[q] = releases[q]
      BY <1>1 DEF allVars, vars, ghostVars, reviewVars
    <2>4. \A q \in Posts : Accounted(q)
      BY <2>1, <2>2, <2>3 DEF Accounted, SpendsNothing, ShapeInv, ReviewTypeOK, TypeOK, Waiting
    <2>5. QED
      BY <2>4, AccountKept
  <1>2. ASSUME NEW a \in Reviewers, ReviewerPass(a) PROVE \A q \in Posts : Accounted(q)
    BY <1>2, Requests, PassAccounted DEF ReviewerPass
  <1>3. ASSUME NEW a \in Reviewers, ReviewerCrash(a), Crash(a) PROVE \A q \in Posts : Accounted(q)
    <2>1. \A v \in Publishers, q \in Posts : Calling(v, q)' => Calling(v, q)
      BY <1>3 DEF ReviewerCrash, Close, Calling, ShapeInv, ReviewTypeOK
    <2>2. QED
      BY <1>3, <2>1, Requests, CrashAccounted DEF ReviewerCrash
  <1>4. ASSUME NEW a \in Reviewers, Review(a) PROVE \A q \in Posts : Accounted(q)
    BY <1>2, <1>3, <1>4, OwnAccounted DEF Review
  <1>5. QED
    BY <1>1, <1>4, ElsewhereAccounted, AccountKept DEF NextReviewed

\* However many requests, publishers, stops, deaths and database errors meet on a
\* post, it reaches its platform at most once for each release of it and for each
\* answer that was lost.
THEOREM SendsHaveReleases == SpecReviewed => []SentAsReleased
  <1>1. ASSUME InitReviewed PROVE SendsAccounted
    <2>1. ASSUME NEW q \in Posts PROVE Senders(q) = {}
      BY <1>1, ConstantsAssumption DEF InitReviewed, InitWith, Senders, InHand, Calling
    <2>2. \A q \in Posts : Cardinality(Senders(q)) = 0
      BY <2>1, FS_EmptySet
    <2>3. ASSUME NEW q \in Posts
          PROVE  reached[q] = 0 /\ unsure[q] = 0 /\ releases[q] = 0 /\ status[q] # "scheduled"
      BY <1>1 DEF InitReviewed, InitWith
    <2>4. QED
      BY <2>2, <2>3 DEF SendsAccounted
  <1>2. ShapeInv /\ ShapeInv' /\ SendsAccounted /\ [NextReviewed]_allVars => SendsAccounted'
    BY StepAccounted
  <1>3. ShapeInv /\ SendsAccounted => SentAsReleased
    <2>1. ASSUME ShapeInv, SendsAccounted, NEW q \in Posts PROVE reached[q] <= releases[q] + unsure[q]
      <3>1. Cardinality(Senders(q)) \in Nat
        BY ReviewConstants, FS_Subset, FS_CardinalityType DEF Senders
      <3>2. reached[q] + Cardinality(Senders(q)) + Waiting(q) <= releases[q] + unsure[q]
        BY <2>1, Zenon DEF SendsAccounted, Waiting
      <3>3. reached[q] \in Nat /\ unsure[q] \in Nat /\ releases[q] \in Nat /\ Waiting(q) \in 0..1
        BY <2>1 DEF ShapeInv, ReviewTypeOK, TypeOK, Waiting
      <3>4. QED
        BY <3>1, <3>2, <3>3
    <2>2. QED
      BY <2>1 DEF SentAsReleased
  <1>4. QED
    BY <1>1, <1>2, <1>3, ShapeInvariance, PTL DEF SpecReviewed

-----------------------------------------------------------------------------
(* A declined post stays back.                                              *)

\* No send of q begins and its row is not written while one is under way; or a
\* free row that is "publishing" is locked for w.
RowSafe(q) ==
    \/ /\ \A v \in Publishers : Sends(v, q)' => Sends(v, q)
       /\ \A v \in Publishers : Sends(v, q)' => status'[q] = status[q]
    \/ \E w \in Publishers :
          /\ status[q] = "publishing" /\ status'[q] = "publishing"
          /\ \A v \in Publishers : Sends(v, q)' => v = w

LEMMA RowsKept ==
  ASSUME SendingRows, \A q \in Posts : RowSafe(q)
  PROVE  SendingRows'
  BY DEF SendingRows, RowSafe

LEMMA PassRows ==
  ASSUME ShapeInv, SendingRows, NEW w \in Publishers, Pass(w)
  PROVE  \A q \in Posts : RowSafe(q)
  <1> SUFFICES ASSUME NEW q \in Posts PROVE RowSafe(q)
    OBVIOUS
  <1>1. TypeOK /\ PassShape
    BY DEF ShapeInv, ReviewTypeOK
  <1>2. PassEffect(w, q)
    BY <1>1, PassEffects
  <1>3. \A v \in Publishers : v # w => (Sends(v, q)' <=> Sends(v, q))
    BY <1>1, OthersKeep
  <1>4. Sends(w, q)' => Holds(w, q)'
    BY DEF Sends, Holds
  <1>5. \A v \in Publishers : Sends(v, q) => Locked(q) /\ status[q] = "publishing"
    BY DEF Locked, SendingRows
  <1>6. \A v \in Publishers : Sends(w, q) /\ Sends(v, q) => v = w
    BY DEF SendingRows
  <1>7. CASE Keeps(w, q)
    BY <1>3, <1>5, <1>7 DEF Keeps, Unwritten, RowSafe
  <1>8. CASE TakesUp(w, q)
    BY <1>3, <1>5, <1>8 DEF TakesUp, RowSafe
  <1>9. CASE GivesUp(w, q) \/ GivesBack(w, q) \/ RecordsError(w, q)
    BY <1>3, <1>4, <1>5, <1>9 DEF GivesUp, GivesBack, RecordsError, RowSafe
  <1>10. CASE Finishes(w, q)
    BY <1>3, <1>4, <1>6, <1>10 DEF Finishes, RowSafe
  <1>11. CASE MeetsError(w, q)
    BY <1>3, <1>11 DEF MeetsError, RowSafe
  <1>12. CASE Drops(w, q)
    BY <1>3, <1>4, <1>12 DEF Drops, Unwritten, RowSafe
  <1>13. QED
    BY <1>2, <1>7, <1>8, <1>9, <1>10, <1>11, <1>12, Zenon DEF PassEffect

\* A request's own steps lock no row, and write only rows nobody has locked.
OwnRow(a, q) ==
    /\ \A v \in Publishers : Sends(v, q)' => Sends(v, q)
    /\ status'[q] # status[q] => ~Locked(q)
    /\ status[q] = "rejected" =>
          \/ status'[q] \in {"rejected", "draft"} /\ reached'[q] = reached[q]
          \/ releases'[q] > releases[q]
          \/ CalledFor(q)

LEMMA OwnRows ==
  ASSUME ShapeInv, NEW a \in Reviewers, Review(a), ~ReviewerPass(a), ~Crash(a)
  PROVE  \A q \in Posts : OwnRow(a, q)
  <1> SUFFICES ASSUME NEW q \in Posts PROVE OwnRow(a, q)
    OBVIOUS
  <1>0. /\ status \in [Posts -> Statuses] /\ reached \in [Posts -> Nat]
        /\ releases \in [Posts -> Nat]
        /\ phase[a] # "none" => about[a] \in Posts
        /\ a \in Publishers
        /\ phase[a] # "passing" => pc[a] = "idle" /\ batch[a] = {} /\ current[a] = NoPost
    BY Requests DEF ShapeInv, ReviewTypeOK, TypeOK
  <1>1. ASSUME UNCHANGED passVars PROVE \A v : Sends(v, q)' => Sends(v, q)
    BY <1>1 DEF passVars, Sends
  <1>2. ASSUME NEW p \in Posts, OpenRelease(a, p) \/ OpenRefusal(a, p) \/ OpenEdit(a, p)
        PROVE  OwnRow(a, q)
    <2>1. UNCHANGED <<passVars, status, reached>>
      BY <1>2 DEF OpenRelease, OpenRefusal, OpenEdit, Open, vars, rowVars, ghostVars
    <2>2. QED
      BY <1>1, <2>1 DEF OwnRow
  <1>3. ASSUME ReleaseDone(a) \/ FinishRelease(a) \/ Expire(a) \/ CallPlatform(a)
        PROVE  OwnRow(a, q)
    <2>1. UNCHANGED <<passVars, status, reached>>
      BY <1>3 DEF ReleaseDone, FinishRelease, Expire, CallPlatform, vars, rowVars, ghostVars
    <2>2. QED
      BY <1>1, <2>1 DEF OwnRow
  <1>4. ASSUME ReleaseLater(a) PROVE OwnRow(a, q)
    <2>1. /\ phase[a] = "opened" /\ ~Locked(about[a]) /\ status' = Written(a, "scheduled")
          /\ NoteRelease(about[a]) /\ UNCHANGED <<passVars, reached>>
      BY <1>4 DEF ReleaseLater, Releasing, Opened, ghostVars
    <2>2. q # about[a] => status'[q] = status[q]
      BY <2>1, Writes DEF Statuses
    <2>3. q = about[a] => releases'[q] > releases[q]
      BY <1>0, <2>1 DEF NoteRelease
    <2>4. QED
      BY <1>1, <2>1, <2>2, <2>3 DEF OwnRow
  <1>5. ASSUME DirectOk(a) \/ DirectWait(a) \/ DirectFail(a) PROVE OwnRow(a, q)
    <2>1. /\ phase[a] = "direct" /\ ~Locked(about[a]) /\ UNCHANGED passVars
          /\ \/ status' = [status EXCEPT ![about[a]] = "published"]
             \/ \E value \in {"scheduled", "failed"} : status' = Written(a, value)
          /\ UNCHANGED reached \/ reached' = [reached EXCEPT ![about[a]] = @ + 1]
      BY <1>5 DEF DirectOk, DirectWait, DirectFail, ghostVars
    <2>2. q # about[a] => status'[q] = status[q] /\ reached'[q] = reached[q]
      BY <1>0, <2>1, Writes DEF Statuses
    <2>3. q = about[a] => CalledFor(q)
      BY <2>1 DEF CalledFor
    <2>4. QED
      BY <1>1, <2>1, <2>2, <2>3 DEF OwnRow
  <1>6. ASSUME Reject(a) \/ Edit(a) PROVE OwnRow(a, q)
    <2>1. /\ phase[a] = "opened" /\ UNCHANGED <<passVars, reached>>
          /\ \/ UNCHANGED status
             \/ ~Locked(about[a]) /\ \E value \in {"rejected", "draft"} : status' = Written(a, value)
      BY <1>6 DEF Reject, Edit, Opened, ghostVars
    <2>2. /\ q # about[a] => status'[q] = status[q]
          /\ status'[q] \in {"rejected", "draft", status[q]}
      BY <1>0, <2>1, Writes DEF Statuses
    <2>3. status'[q] # status[q] => ~Locked(q)
      BY <2>1, <2>2
    <2>4. QED
      BY <1>1, <2>1, <2>2, <2>3 DEF OwnRow
  <1>7. ASSUME ReviewerCrash(a) PROVE OwnRow(a, q)
    <2>1. /\ UNCHANGED <<passVars, status>> /\ phase[a] # "none"
          /\ \/ UNCHANGED reached
             \/ phase[a] = "direct" /\ reached' = [reached EXCEPT ![about[a]] = @ + 1]
      BY <1>7 DEF ReviewerCrash, rowVars
    <2>2. reached'[q] # reached[q] => CalledFor(q)
      BY <1>0, <2>1 DEF CalledFor
    <2>3. QED
      BY <1>1, <2>1, <2>2 DEF OwnRow
  <1>8. ASSUME ReleaseNow(a) PROVE OwnRow(a, q)
    <2>1. PICK lost \in SUBSET Posts : ReleaseEffect(a, lost)
      BY <1>8, ReleaseFacts
    <2>2. /\ pc[a] = "idle" /\ ~Locked(about[a]) /\ about[a] \in Posts
          /\ releases' = [releases EXCEPT ![about[a]] = @ + 1]
          /\ \A x \in lost : status[x] = "publishing" /\ ~Locked(x)
          /\ UNCHANGED <<current, reached>>
          /\ pc'[a] \in {"idle", "count"} /\ \A v : v # a => pc'[v] = pc[v]
      BY <1>0, <2>1 DEF ReleaseEffect, Releasing, Opened, NoteRelease, ghostVars, ShapeInv, ReviewTypeOK, TypeOK
    <2>3. q # about[a] /\ q \notin lost => status'[q] = status[q]
      BY <2>1 DEF ReleaseEffect
    <2>4. \A v \in Publishers : Sends(v, q)' => Sends(v, q)
      BY <2>2 DEF Sends
    <2>5. q = about[a] => releases'[q] > releases[q]
      BY <1>0, <2>2
    <2>6. QED
      BY <2>2, <2>3, <2>4, <2>5 DEF OwnRow
  <1>9. QED
    BY <1>2, <1>3, <1>4, <1>5, <1>6, <1>7, <1>8 DEF Review

\* Pressing, cancelling and time write no row a publisher has locked.
LEMMA PeopleRows ==
  ASSUME ShapeInv,
         \/ \E p \in Posts : Cancel(p) \/ Time(p)
         \/ \E k \in StopKinds : Stop(k) \/ Resume(k)
  PROVE  \A q \in Posts :
            /\ \A v \in Publishers : Sends(v, q)' => Sends(v, q)
            /\ status'[q] # status[q] => ~Locked(q) /\ status[q] = "scheduled" /\ status'[q] = "rejected"
            /\ reached'[q] = reached[q]
  <1> SUFFICES ASSUME NEW q \in Posts
               PROVE  /\ \A v \in Publishers : Sends(v, q)' => Sends(v, q)
                      /\ status'[q] # status[q] =>
                            ~Locked(q) /\ status[q] = "scheduled" /\ status'[q] = "rejected"
                      /\ reached'[q] = reached[q]
    OBVIOUS
  <1>1. ASSUME UNCHANGED passVars PROVE \A v : Sends(v, q)' => Sends(v, q)
    BY <1>1 DEF passVars, Sends
  <1>2. ASSUME NEW p \in Posts, Cancel(p)
        PROVE  /\ UNCHANGED <<passVars, reached>>
               /\ status'[q] # status[q] =>
                     ~Locked(q) /\ status[q] = "scheduled" /\ status'[q] = "rejected"
    BY <1>2 DEF Cancel, Cancellable, ghostVars, ShapeInv, ReviewTypeOK, TypeOK
  <1>3. ASSUME NEW p \in Posts, Time(p)
        PROVE  UNCHANGED <<passVars, reached, status>>
    BY <1>3 DEF Time, BecomeDue, BecomeStale, DayPasses, ghostVars
  <1>4. ASSUME NEW k \in StopKinds, Stop(k) \/ Resume(k)
        PROVE  UNCHANGED <<passVars, reached, status>>
    BY <1>4 DEF Stop, Resume, ghostVars, rowVars
  <1>5. QED
    BY <1>1, <1>2, <1>3, <1>4

\* The death of a publisher frees the row it had locked.
LEMMA CrashRows ==
  ASSUME ShapeInv, NEW w \in Publishers, Crash(w)
  PROVE  \A q \in Posts :
            /\ \A v \in Publishers : Sends(v, q)' => Sends(v, q)
            /\ status'[q] = status[q]
            /\ reached'[q] # reached[q] => Sends(w, q)
  <1>1. TypeOK /\ PassShape
    BY DEF ShapeInv, ReviewTypeOK
  <1>2. ASSUME NEW q \in Posts PROVE \A v \in Publishers : Sends(v, q)' => Sends(v, q)
    <2>1. ~Sends(w, q)'
      BY <1>1, CrashEffect DEF Sends, Holds
    <2>2. QED
      BY <1>1, <2>1, OthersKeep
  <1>3. QED
    BY <1>1, <1>2, CrashEffect

\* One publisher at a time sends a post, and its row says so.
LEMMA RowsStep ==
  ASSUME ShapeInv, SendingRows, [NextReviewed]_allVars
  PROVE  SendingRows'
  <1>1. CASE UNCHANGED allVars
    BY <1>1 DEF SendingRows, Sends, allVars, vars, rowVars, passVars
  <1>2. ASSUME NEW w \in Publishers, Pass(w) PROVE \A q \in Posts : RowSafe(q)
    BY <1>2, PassRows
  <1>3. ASSUME NEW w \in Publishers, Crash(w) PROVE \A q \in Posts : RowSafe(q)
    BY <1>3, CrashRows DEF RowSafe
  <1>4. ASSUME \/ \E p \in Posts : Cancel(p) \/ Time(p)
               \/ \E k \in StopKinds : Stop(k) \/ Resume(k)
        PROVE  \A q \in Posts : RowSafe(q)
    BY <1>4, PeopleRows, Zenon DEF RowSafe, Locked
  <1>5. ASSUME NEW a \in Reviewers, Review(a), ~ReviewerPass(a), ~Crash(a)
        PROVE  \A q \in Posts : RowSafe(q)
    BY <1>5, OwnRows, Zenon DEF RowSafe, OwnRow, Locked
  <1>6. ASSUME NEW a \in Reviewers, Review(a) PROVE \A q \in Posts : RowSafe(q)
    <2>1. a \in Publishers
      BY Requests
    <2>2. ReviewerPass(a) => Pass(a)
      BY DEF ReviewerPass
    <2>3. QED
      BY <1>2, <1>3, <1>5, <1>6, <2>1, <2>2
  <1>7. ASSUME Elsewhere PROVE \A q \in Posts : RowSafe(q)
    BY <1>2, <1>3, <1>4, <1>7 DEF Elsewhere
  <1>8. QED
    BY <1>1, <1>6, <1>7, RowsKept DEF NextReviewed

\* What a pass does to a declined post.
LEMMA PassLeavesRejected ==
  ASSUME ShapeInv, SendingRows, NEW w \in Publishers, Pass(w), NEW q \in Posts, status[q] = "rejected"
  PROVE  /\ reached'[q] = reached[q]
         /\ status'[q] \notin Active \/ PutsBack(q)
  <1>1. TypeOK /\ PassShape /\ ~Sends(w, q)
    BY DEF ShapeInv, ReviewTypeOK, SendingRows
  <1>2. PassEffect(w, q)
    BY <1>1, PassEffects
  <1>3. CASE Keeps(w, q) \/ Drops(w, q)
    BY <1>3 DEF Keeps, Drops, Unwritten, Active
  <1>4. CASE GivesBack(w, q)
    BY <1>4 DEF GivesBack, PutsBack
  <1>5. CASE RecordsError(w, q)
    BY <1>5 DEF RecordsError, Active
  <1>6. ~TakesUp(w, q) /\ ~GivesUp(w, q) /\ ~Finishes(w, q) /\ ~MeetsError(w, q)
    BY <1>1 DEF TakesUp, GivesUp, Finishes, MeetsError
  <1>7. QED
    BY <1>2, <1>3, <1>4, <1>5, <1>6 DEF PassEffect

\* A declined or cancelled post does not go out and is not taken up again, unless
\* somebody releases it, a publisher that had it in hand puts it back, or a direct
\* call was under way when it was declined: for any number of requests.
THEOREM RejectedPostsStayBack == SpecReviewed => RejectedNeverSent
  <1>1. InitReviewed => SendingRows
    BY DEF InitReviewed, InitWith, SendingRows, Sends
  <1>2. ShapeInv /\ SendingRows /\ [NextReviewed]_allVars => SendingRows'
    BY RowsStep
  <1>3. ASSUME ShapeInv, SendingRows, [NextReviewed]_allVars, NEW q \in Posts, status[q] = "rejected"
        PROVE  RejectedStaysBack(q)
    <2>1. CASE UNCHANGED allVars
      BY <1>3, <2>1 DEF RejectedStaysBack, Active, allVars, vars, rowVars, ghostVars
    <2>2. ASSUME NEW w \in Publishers, Pass(w) PROVE RejectedStaysBack(q)
      BY <1>3, <2>2, PassLeavesRejected DEF RejectedStaysBack
    <2>3. ASSUME NEW w \in Publishers, Crash(w) PROVE RejectedStaysBack(q)
      <3>1. ~Sends(w, q)
        BY <1>3 DEF SendingRows
      <3>2. QED
        BY <1>3, <2>3, <3>1, CrashRows DEF RejectedStaysBack, Active
    <2>4. ASSUME \/ \E p \in Posts : Cancel(p) \/ Time(p)
                 \/ \E k \in StopKinds : Stop(k) \/ Resume(k)
          PROVE  RejectedStaysBack(q)
      <3>1. status'[q] = status[q] /\ reached'[q] = reached[q]
        BY <1>3, <2>4, PeopleRows
      <3>2. QED
        BY <1>3, <3>1 DEF RejectedStaysBack, Active
    <2>5. ASSUME NEW a \in Reviewers, Review(a), ~ReviewerPass(a), ~Crash(a) PROVE RejectedStaysBack(q)
      <3>1. OwnRow(a, q)
        BY <1>3, <2>5, OwnRows
      <3>2. QED
        BY <1>3, <3>1 DEF OwnRow, RejectedStaysBack, Active
    <2>6. \A a \in Reviewers : a \in Publishers /\ (ReviewerPass(a) => Pass(a))
      BY ReviewConstants DEF ReviewerPass
    <2>7. QED
      BY <1>3, <2>1, <2>2, <2>3, <2>4, <2>5, <2>6 DEF NextReviewed, Elsewhere
  <1>4. ShapeInv /\ SendingRows /\ [NextReviewed]_allVars => [\A p \in Posts : RejectedStaysBack(p)]_allVars
    BY <1>3 DEF RejectedStaysBack
  <1>5. QED
    BY <1>1, <1>2, <1>4, ShapeInvariance, PTL DEF SpecReviewed, RejectedNeverSent

-----------------------------------------------------------------------------
(* Nothing goes out while its item is pending.                              *)

\* What a request was opened for, and for which post.
SameRequest(a) == asked'[a] = asked[a] /\ about'[a] = about[a]

\* What a request's step does to the requests' memory.
LEMMA ReviewKinds ==
  ASSUME NEW a \in Reviewers, Review(a)
  PROVE  \/ \E p \in Posts, what \in Asks : Open(a, p, what)
         \/ Close(a)
         \/ ReleaseNow(a) \/ CallPlatform(a) \/ ReviewerPass(a)
  BY DEF Review, OpenRelease, OpenRefusal, OpenEdit, Asks, OnItem, InLibrary, ReleaseDone,
         ReleaseLater, FinishRelease, DirectOk, DirectWait, DirectFail, Reject, Expire, Edit,
         ReviewerCrash

\* A request keeps what it is for until it ends; one that opens has done nothing
\* yet, and a release from the library finds a decided item.
LEMMA RequestsKeepAsking ==
  ASSUME ShapeInv, NextReviewed, NEW a \in Reviewers
  PROVE  \/ phase'[a] = "none"
         \/ SameRequest(a) /\ (phase'[a] = phase[a] \/ Releasing(a))
         \/ /\ phase[a] = "none" /\ phase'[a] = "opened"
            /\ asked'[a] = "publish" => item[about'[a]] # "pending"
  <1>0. /\ phase \in [Reviewers -> {"none", "opened", "passing", "direct"}]
        /\ asked \in [Reviewers -> Asks] /\ about \in [Reviewers -> Posts \cup {NoPost}]
    BY DEF ShapeInv, ReviewTypeOK
  <1>1. ASSUME Elsewhere PROVE SameRequest(a) /\ phase'[a] = phase[a]
    BY <1>1 DEF Elsewhere, reviewVars, SameRequest
  <1>2. ASSUME NEW b \in Reviewers, NEW p \in Posts, NEW what \in Asks, Open(b, p, what)
        PROVE  \/ SameRequest(a) /\ phase'[a] = phase[a]
               \/ /\ phase[a] = "none" /\ phase'[a] = "opened"
                  /\ asked'[a] = "publish" => item[about'[a]] # "pending"
    <2>1. CASE a = b
      BY <1>0, <1>2, <2>1 DEF Open, InLibrary
    <2>2. CASE a # b
      BY <1>0, <1>2, <2>2 DEF Open, SameRequest
    <2>3. QED
      BY <2>1, <2>2
  <1>3. ASSUME NEW b \in Reviewers, Close(b)
        PROVE  phase'[a] = "none" \/ (SameRequest(a) /\ phase'[a] = phase[a])
    BY <1>0, <1>3 DEF Close, SameRequest
  <1>4. ASSUME NEW b \in Reviewers, ReleaseNow(b) \/ CallPlatform(b)
        PROVE  SameRequest(a) /\ (phase'[a] = phase[a] \/ Releasing(a))
    BY <1>0, <1>4 DEF ReleaseNow, CallPlatform, SameRequest
  <1>5. ASSUME NEW b \in Reviewers, ReviewerPass(b)
        PROVE  SameRequest(a) /\ phase'[a] = phase[a]
    BY <1>5 DEF ReviewerPass, SameRequest
  <1>6. QED
    BY <1>1, <1>2, <1>3, <1>4, <1>5, ReviewKinds DEF NextReviewed

\* No item opens again.
LEMMA ItemsClose ==
  ASSUME ShapeInv, NextReviewed, NEW q \in Posts, item'[q] = "pending"
  PROVE  item[q] = "pending"
  <1>1. item \in [Posts -> {"pending", "approved", "rejected", "expired"}]
    BY DEF ShapeInv, ReviewTypeOK
  <1>2. ASSUME NEW a \in Reviewers, Approved(a) \/ Declined(a) PROVE item[q] = "pending"
    BY <1>1, <1>2 DEF Approved, Declined, Decide
  <1>3. ASSUME NEW a \in Reviewers, Review(a)
        PROVE  UNCHANGED item \/ Approved(a) \/ Declined(a)
    BY <1>3 DEF Review, OpenRelease, OpenRefusal, OpenEdit, Open, ReleaseDone, ReleaseLater,
            ReleaseNow, ReviewerPass, FinishRelease, CallPlatform, DirectOk, DirectWait, DirectFail,
            Reject, Expire, Edit, ReviewerCrash
  <1>4. Elsewhere => UNCHANGED item
    BY DEF Elsewhere, reviewVars
  <1>5. QED
    BY <1>2, <1>3, <1>4 DEF NextReviewed

LEMMA OnlyReleasesStep ==
  ASSUME ShapeInv, ShapeInv', OnlyReleasesSend, [NextReviewed]_allVars
  PROVE  OnlyReleasesSend'
  <1>1. CASE UNCHANGED allVars
    BY <1>1 DEF OnlyReleasesSend, allVars, reviewVars
  <1>2. ASSUME NextReviewed, NEW a \in Reviewers
        PROVE  /\ phase'[a] \in {"passing", "direct"} => asked'[a] \in {"approve", "publish"}
               /\ phase'[a] # "none" /\ asked'[a] = "publish" => item'[about'[a]] # "pending"
    <2>1. /\ phase'[a] # "none" => about'[a] \in Posts
          /\ phase[a] \in {"passing", "direct"} => asked[a] \in {"approve", "publish"}
          /\ phase[a] # "none" /\ asked[a] = "publish" => item[about[a]] # "pending"
      BY DEF ShapeInv, RequestShape, OnlyReleasesSend
    <2>2. \A q \in Posts : item'[q] = "pending" => item[q] = "pending"
      BY <1>2, ItemsClose
    <2>3. QED
      BY <1>2, <2>1, <2>2, RequestsKeepAsking DEF SameRequest, Releasing, Opened
  <1>3. QED
    BY <1>1, <1>2 DEF OnlyReleasesSend

\* A request whose pass has let go of its post has nothing else to do in it.
LEMMA PassLetGo ==
  ASSUME ShapeInv, NEW a \in Reviewers, phase[a] = "passing", ~Holds(a, about[a])
  PROVE  batch[a] = {} /\ current[a] = NoPost /\ pc[a] \in {"idle", "next"}
  <1>1. /\ batch[a] \subseteq {about[a]} /\ current[a] \in {about[a], NoPost}
        /\ pc[a] # "claim" /\ (pc[a] = "count" => batch[a] # {})
        /\ a \in Publishers
    BY Requests DEF ShapeInv, RequestShape
  <1>2. batch[a] = {} /\ current[a] = NoPost
    BY <1>1 DEF Holds
  <1>3. pc[a] \in Labels /\ pc[a] \notin {"relock", "sending", "undo"}
    BY <1>1, <1>2 DEF ShapeInv, PassShape, ReviewTypeOK, TypeOK
  <1>4. QED
    BY <1>1, <1>2, <1>3 DEF Labels

\* A request touches no other publisher's memory.
LEMMA OthersRequests ==
  ASSUME ShapeInv, NEW b \in Reviewers, Review(b), NEW v \in Publishers, v # b
  PROVE  batch'[v] = batch[v] /\ current'[v] = current[v] /\ pc'[v] = pc[v]
  <1>1. TypeOK /\ PassShape /\ b \in Publishers
    BY Requests DEF ShapeInv, ReviewTypeOK
  <1>2. CASE ReviewerPass(b) \/ Crash(b)
    BY <1>1, <1>2, OthersKeep DEF ReviewerPass
  <1>3. CASE ReleaseNow(b)
    BY <1>1, <1>3 DEF ReleaseNow, Goto, TypeOK
  <1>4. CASE Review(b) /\ ~ReviewerPass(b) /\ ~Crash(b) /\ ~ReleaseNow(b)
    <2>1. UNCHANGED passVars
      BY <1>4 DEF Review, OpenRelease, OpenRefusal, OpenEdit, Open, ReleaseDone, ReleaseLater,
         FinishRelease, CallPlatform, DirectOk, DirectWait, DirectFail, Reject, Expire, Edit,
         ReviewerCrash, vars
    <2>2. QED
      BY <2>1 DEF passVars
  <1>5. QED
    BY <1>2, <1>3, <1>4

\* Such a pass only ends, and the request's copy of the post stays.
LEMMA ApprovalStays ==
  ASSUME ShapeInv, ShapeInv', NextReviewed, crashes' = crashes, NEW q \in Posts,
         NEW a \in Reviewers, WillApprove(a, q), item'[q] = "pending"
  PROVE  WillApprove(a, q)'
  <1>0. /\ about[a] = q /\ asked[a] = "approve" /\ phase[a] = "passing"
        /\ pc[a] \in {"idle", "next"} /\ batch[a] = {} /\ seen[a] # "failed" /\ current[a] = NoPost
        /\ a \in Publishers /\ item \in [Posts -> {"pending", "approved", "rejected", "expired"}]
        /\ phase \in [Reviewers -> {"none", "opened", "passing", "direct"}]
        /\ asked \in [Reviewers -> Asks] /\ about \in [Reviewers -> Posts \cup {NoPost}]
        /\ seen \in [Reviewers -> Statuses] /\ crashes \in Nat
        /\ batch \in [Publishers -> SUBSET Posts] /\ pc \in [Publishers -> Labels]
    BY Requests DEF WillApprove, ShapeInv, ReviewTypeOK, TypeOK, PassShape
  <1>1. ASSUME /\ about'[a] = about[a] /\ asked'[a] = asked[a] /\ phase'[a] = phase[a]
               /\ seen'[a] = seen[a] /\ batch'[a] = batch[a] /\ pc'[a] \in {"idle", "next"}
        PROVE  WillApprove(a, q)'
    BY <1>0, <1>1 DEF WillApprove
  <1>2. CASE Elsewhere
    <2>1. batch'[a] = batch[a] /\ pc'[a] = pc[a]
      BY <1>2, OthersMemory
    <2>2. UNCHANGED <<phase, asked, about, seen>>
      BY <1>2 DEF Elsewhere, reviewVars
    <2>3. QED
      BY <1>0, <1>1, <2>1, <2>2
  <1>3. CASE ReviewerPass(a)
    <2>1. EndPass(a)
      <3>1. pc[a] = "next" /\ Pass(a)
        BY <1>0, <1>3 DEF ReviewerPass
      <3>2. QED
        BY <1>0, <3>1 DEF Pass, StartPass, Claim, CountPosted, HoldForStop, Relock, HoldForCap, PickNext,
           Sending, SendOk, SendWait, SendTransient, SendRefused, SendDatabaseError,
           RecordDatabaseError, Answered, Sends
    <2>2. pc' = [pc EXCEPT ![a] = "idle"] /\ batch' = [batch EXCEPT ![a] = {}]
      BY <2>1 DEF EndPass, Forget, Goto
    <2>3. UNCHANGED <<phase, asked, about, seen>>
      BY <1>0, <1>3, <2>1 DEF ReviewerPass, EndPass
    <2>4. QED
      BY <1>0, <1>1, <2>2, <2>3
  <1>4. CASE FinishRelease(a)
    <2>1. item' = [item EXCEPT ![q] = "approved"]
      BY <1>0, <1>4 DEF FinishRelease, Approved, Decide
    <2>2. QED
      BY <1>0, <2>1
  <1>5. ~ReviewerCrash(a) /\ ~Crash(a)
    BY <1>0 DEF ReviewerCrash, Crash
  <1>6. CASE Review(a) /\ ~ReviewerPass(a) /\ ~FinishRelease(a)
    BY <1>0, <1>5, <1>6 DEF Review, OpenRelease, OpenRefusal, OpenEdit, Open, ReleaseDone, ReleaseLater,
       ReleaseNow, Releasing, Opened, CallPlatform, DirectOk, DirectWait, DirectFail, Reject, Expire, Edit
  <1>7. ASSUME NEW b \in Reviewers, b # a, Review(b) PROVE WillApprove(a, q)'
    <2>1. b \in Publishers /\ about[b] \in Posts \cup {NoPost}
      BY <1>0, Requests
    <2>2. phase'[a] = phase[a] /\ asked'[a] = asked[a] /\ about'[a] = about[a] /\ seen'[a] = seen[a]
      <3>1. ASSUME Close(b)
            PROVE  phase'[a] = phase[a] /\ asked'[a] = asked[a] /\ about'[a] = about[a] /\ seen'[a] = seen[a]
        BY <1>0, <1>7, <3>1 DEF Close
      <3>2. ASSUME NEW p \in Posts, NEW what \in Asks, Open(b, p, what)
            PROVE  phase'[a] = phase[a] /\ asked'[a] = asked[a] /\ about'[a] = about[a] /\ seen'[a] = seen[a]
        BY <1>0, <1>7, <3>2 DEF Open
      <3>3. ASSUME ReleaseNow(b) \/ CallPlatform(b) \/ ReviewerPass(b)
            PROVE  phase'[a] = phase[a] /\ asked'[a] = asked[a] /\ about'[a] = about[a] /\ seen'[a] = seen[a]
        BY <1>0, <1>7, <3>3 DEF ReleaseNow, CallPlatform, ReviewerPass
      <3>4. QED
        BY <1>7, <3>1, <3>2, <3>3, ReviewKinds
    <2>3. batch'[a] = batch[a] /\ pc'[a] = pc[a]
      BY <1>0, <1>7, <2>1, OthersRequests
    <2>4. QED
      BY <1>0, <1>1, <2>2, <2>3
  <1>8. QED
    BY <1>2, <1>3, <1>4, <1>6, <1>7 DEF NextReviewed

\* InApproval is kept when the post's row and its holders are, and by a row that
\* fails, is declined or is a draft again.
LEMMA InApprovalKept ==
  ASSUME NEW q \in Posts, InApproval(q),
         status'[q] \in {status[q], "failed", "rejected", "draft"},
         \A w \in Publishers : Holds(w, q)' => Holds(w, q),
         status'[q] = "publishing" => \A w \in Publishers : Holds(w, q) => Holds(w, q)',
         \A w \in Reviewers : Holds(w, q)' => SameRequest(w)
  PROVE  InApproval(q)'
  BY DEF InApproval, SameRequest

\* A pass of somebody who does not hold the post.
LEMMA PassElsewhere ==
  ASSUME ShapeInv, NEW w \in Publishers, Pass(w), NEW q \in Posts, InApproval(q), ~Holds(w, q),
         \A a \in Reviewers : SameRequest(a)
  PROVE  InApproval(q)'
  <1>1. TypeOK /\ PassShape
    BY DEF ShapeInv, ReviewTypeOK
  <1>2. PassEffect(w, q)
    BY <1>1, PassEffects
  <1>3. \A v \in Publishers : v # w => (Holds(v, q)' <=> Holds(v, q))
    BY <1>1, OthersKeep
  <1>4. ~TakesUp(w, q) /\ ~GivesBack(w, q) /\ ~Finishes(w, q) /\ ~MeetsError(w, q)
    BY DEF InApproval, TakesUp, GivesBack, Finishes, MeetsError, Holds, Sends
  <1>5. ~RecordsError(w, q) /\ ~Drops(w, q)
    BY DEF RecordsError, Drops
  <1>6. CASE Keeps(w, q)
    BY <1>3, <1>6, InApprovalKept DEF Keeps, Unwritten
  <1>7. CASE GivesUp(w, q)
    BY <1>3, <1>7, InApprovalKept DEF GivesUp
  <1>8. QED
    BY <1>2, <1>4, <1>5, <1>6, <1>7 DEF PassEffect

\* A pass of an approval that does.
LEMMA PassOfApproval ==
  ASSUME ShapeInv, ShapeInv', NEW a \in Reviewers, ReviewerPass(a), NEW q \in Posts,
         InApproval(q), Holds(a, q)
  PROVE  InApproval(q)' \/ WillApprove(a, q)'
  <1>1. /\ TypeOK /\ PassShape /\ a \in Publishers /\ Pass(a) /\ phase[a] = "passing"
        /\ about[a] = q /\ asked[a] = "approve"
        /\ phase' = phase /\ asked' = asked /\ about' = about
        /\ seen \in [Reviewers -> Statuses]
    BY Requests DEF ShapeInv, ReviewTypeOK, ReviewerPass, InApproval
  <1>2. PassEffect(a, q)
    BY <1>1, PassEffects
  <1>3. \A v \in Publishers : v # a => (Holds(v, q)' <=> Holds(v, q))
    BY <1>1, OthersKeep
  <1>4. seen'[a] = status'[q]
    <2>1. ~(pc[a] = "next" /\ batch[a] = {})
      <3>1. q # NoPost
        BY ConstantsAssumption
      <3>2. QED
        BY <1>1, <3>1 DEF Holds, PassShape
    <2>2. QED
      BY <1>1, <2>1 DEF ReviewerPass
  <1>5. ASSUME ~Holds(a, q)', status'[q] # "failed" PROVE WillApprove(a, q)'
    <2>1. phase'[a] = "passing" /\ about'[a] = q /\ asked'[a] = "approve"
      BY <1>1
    <2>2. batch'[a] = {} /\ pc'[a] \in {"idle", "next"}
      <3>1. /\ batch'[a] \subseteq {q} /\ current'[a] \in {q, NoPost}
            /\ pc'[a] # "claim" /\ (pc'[a] = "count" => batch'[a] # {})
        BY <1>1 DEF ShapeInv, RequestShape
      <3>2. batch'[a] = {} /\ current'[a] = NoPost
        BY <1>5, <3>1 DEF Holds
      <3>3. pc'[a] \in Labels /\ pc'[a] \notin {"relock", "sending", "undo"}
        BY <1>1, <3>2 DEF ShapeInv, PassShape, ReviewTypeOK, TypeOK
      <3>4. QED
        BY <3>1, <3>2, <3>3 DEF Labels
    <2>3. QED
      BY <1>4, <1>5, <2>1, <2>2 DEF WillApprove
  <1>6. \A b \in Reviewers : SameRequest(b)
    BY <1>1 DEF SameRequest
  <1>7. CASE Keeps(a, q)
    BY <1>3, <1>6, <1>7, InApprovalKept DEF Keeps, Unwritten
  <1>8. CASE MeetsError(a, q)
    BY <1>3, <1>6, <1>8, InApprovalKept DEF MeetsError
  <1>9. CASE GivesBack(a, q)
    BY <1>5, <1>9 DEF GivesBack
  <1>10. ASSUME ~Holds(a, q)', status'[q] = "failed" PROVE InApproval(q)'
    BY <1>3, <1>6, <1>10, InApprovalKept
  <1>11. CASE Finishes(a, q) \/ RecordsError(a, q)
    BY <1>5, <1>10, <1>11 DEF Finishes, RecordsError
  <1>12. CASE Drops(a, q)
    BY <1>3, <1>6, <1>12, InApprovalKept DEF Drops, Unwritten, InApproval
  <1>13. ~TakesUp(a, q) /\ ~GivesUp(a, q)
    BY DEF TakesUp, GivesUp
  <1>14. QED
    BY <1>2, <1>7, <1>8, <1>9, <1>11, <1>12, <1>13 DEF PassEffect

\* The number of deaths only grows.
LEMMA DeathsCount ==
  ASSUME ShapeInv, NextReviewed
  PROVE  crashes' = crashes \/ crashes' = crashes + 1
  <1>1. ASSUME NEW w \in Publishers, Pass(w) PROVE crashes' = crashes
    BY <1>1 DEF Pass, StartPass, Claim, CountPosted, HoldForStop, Relock, EndPass, HoldForCap, PickNext,
       Sending, SendOk, SendWait, SendTransient, SendRefused, SendDatabaseError, RecordDatabaseError, MoveOn
  <1>2. ASSUME NEW w, Crash(w) PROVE crashes' = crashes + 1
    BY <1>2 DEF Crash
  <1>3. CASE Elsewhere
    BY <1>1, <1>2, <1>3 DEF Elsewhere, Cancel, Time, BecomeDue, BecomeStale, DayPasses, Stop, Resume
  <1>4. ASSUME NEW a \in Reviewers, Review(a) PROVE crashes' = crashes \/ crashes' = crashes + 1
    <2>1. a \in Publishers /\ (ReviewerPass(a) => Pass(a))
      BY Requests DEF ReviewerPass
    <2>2. CASE ReviewerPass(a) \/ ReviewerCrash(a)
      BY <1>1, <1>2, <2>1, <2>2 DEF ReviewerCrash
    <2>3. CASE ~ReviewerPass(a) /\ ~ReviewerCrash(a)
      BY <1>4, <2>3 DEF Review, OpenRelease, OpenRefusal, OpenEdit, Open, ReleaseDone, ReleaseLater,
         ReleaseNow, FinishRelease, CallPlatform, DirectOk, DirectWait, DirectFail, Reject, Expire,
         Edit, vars
    <2>4. QED
      BY <2>2, <2>3
  <1>5. QED
    BY <1>3, <1>4 DEF NextReviewed

\* A request that releases q, approves it or finds its item decided.
LEMMA ReleaseDecides ==
  ASSUME ShapeInv, OnlyReleasesSend, NEW a \in Reviewers, NEW q \in Posts, about[a] = q,
         Releasing(a) \/ phase[a] \in {"passing", "direct"}, item[q] = "pending"
  PROVE  asked[a] = "approve" /\ (Approved(a) => item'[q] = "approved")
  <1>1. phase[a] # "none" /\ asked[a] \in {"approve", "publish"}
    BY DEF Releasing, Opened, OnlyReleasesSend
  <1>2. asked[a] = "approve"
    BY <1>1 DEF OnlyReleasesSend
  <1>3. QED
    BY <1>2 DEF Approved, Decide, ShapeInv, ReviewTypeOK

\* A request's own steps keep q in approval, unless they close its item.
LEMMA OwnApproval ==
  ASSUME ShapeInv, OnlyReleasesSend, NEW a \in Reviewers, Review(a), ~ReviewerPass(a),
         crashes' = crashes, NEW q \in Posts, InApproval(q), item[q] = "pending", item'[q] = "pending"
  PROVE  InApproval(q)'
  <1>0. /\ status \in [Posts -> Statuses] /\ a \in Publishers /\ crashes \in Nat
        /\ phase \in [Reviewers -> {"none", "opened", "passing", "direct"}]
        /\ asked \in [Reviewers -> Asks] /\ about \in [Reviewers -> Posts \cup {NoPost}]
        /\ phase[a] # "none" => about[a] \in Posts
        /\ pc[a] = "idle" => batch[a] = {} /\ current[a] = NoPost
        /\ phase[a] # "passing" => pc[a] = "idle"
        /\ NoPost \notin Posts
    BY Requests DEF ShapeInv, ReviewTypeOK, TypeOK
  <1>1. ~ReviewerCrash(a) /\ ~Crash(a)
    BY <1>0 DEF ReviewerCrash, Crash
  <1>2. ASSUME pc[a] = "idle", UNCHANGED passVars,
               \A b \in Reviewers : b # a => SameRequest(b),
               status'[q] \in {status[q], "failed", "rejected", "draft"}
        PROVE  InApproval(q)'
    <2>1. \A w : Holds(w, q)' <=> Holds(w, q)
      BY <1>2, MemoryKept DEF passVars
    <2>2. ~Holds(a, q)
      BY <1>0, <1>2 DEF Holds
    <2>3. QED
      BY <1>2, <2>1, <2>2, InApprovalKept
  <1>3. ASSUME NEW p \in Posts, NEW what \in Asks, Open(a, p, what) PROVE InApproval(q)'
    <2>1. pc[a] = "idle" /\ UNCHANGED <<passVars, status>> /\ \A b \in Reviewers : b # a => SameRequest(b)
      BY <1>0, <1>3 DEF Open, SameRequest, vars, rowVars
    <2>2. QED
      BY <1>2, <2>1
  <1>4. ASSUME NEW p \in Posts, OpenRelease(a, p) \/ OpenRefusal(a, p) \/ OpenEdit(a, p)
        PROVE  InApproval(q)'
    BY <1>3, <1>4 DEF OpenRelease, OpenRefusal, OpenEdit, Asks, OnItem, InLibrary
  <1>5. ASSUME Close(a) PROVE \A b \in Reviewers : b # a => SameRequest(b)
    BY <1>0, <1>5 DEF Close, SameRequest
  <1>6. CASE ReleaseDone(a) \/ FinishRelease(a) \/ Expire(a)
    <2>1. Close(a) /\ pc[a] = "idle" /\ UNCHANGED <<passVars, status>>
      BY <1>0, <1>6 DEF ReleaseDone, FinishRelease, Expire, Releasing, Opened, vars, rowVars
    <2>2. QED
      BY <1>2, <1>5, <2>1
  <1>7. CASE CallPlatform(a)
    <2>1. pc[a] = "idle" /\ UNCHANGED <<passVars, status>> /\ \A b \in Reviewers : SameRequest(b)
      BY <1>0, <1>7 DEF CallPlatform, Releasing, Opened, SameRequest, vars, rowVars
    <2>2. QED
      BY <1>2, <2>1
  <1>8. CASE ReleaseLater(a) \/ DirectOk(a) \/ DirectWait(a)
    <2>1. /\ Close(a) /\ pc[a] = "idle" /\ UNCHANGED passVars /\ Approved(a)
          /\ Releasing(a) \/ phase[a] = "direct"
          /\ status' = Written(a, "scheduled") \/ status' = [status EXCEPT ![about[a]] = "published"]
      BY <1>0, <1>8 DEF ReleaseLater, DirectOk, DirectWait, Releasing, Opened
    <2>2. about[a] # q
      BY <2>1, ReleaseDecides
    <2>3. phase[a] # "none"
      BY <2>1 DEF Releasing, Opened
    <2>4. status'[q] = status[q]
      BY <1>0, <2>1, <2>2, <2>3, Writes DEF Statuses
    <2>5. QED
      BY <1>2, <1>5, <2>1, <2>4
  <1>9. CASE DirectFail(a) \/ Reject(a) \/ Edit(a)
    <2>1. /\ Close(a) /\ phase[a] \in {"direct", "opened"} /\ UNCHANGED passVars
          /\ \/ UNCHANGED status
             \/ \E value \in {"failed", "rejected", "draft"} : status' = Written(a, value)
      BY <1>9 DEF DirectFail, Reject, Edit, Opened
    <2>2. status'[q] \in {status[q], "failed", "rejected", "draft"}
      BY <1>0, <2>1, Writes DEF Statuses
    <2>3. QED
      BY <1>0, <1>2, <1>5, <2>1, <2>2
  <1>10. CASE ReleaseNow(a)
    <2>1. PICK lost \in SUBSET Posts : ReleaseEffect(a, lost)
      BY <1>10, ReleaseFacts
    <2>2. PICK mine \in SUBSET {about[a]} :
            /\ batch' = [batch EXCEPT ![a] = mine]
            /\ status' = [x \in Posts |->
                  CASE x \in mine -> "publishing"
                    [] x \in lost -> "failed"
                    [] OTHER      -> status[x]]
      <3> DEFINE taken == IF Written(a, "scheduled")[about[a]] = "scheduled" THEN {about[a]} ELSE {}
      <3>1. /\ batch' = [batch EXCEPT ![a] = taken]
            /\ status' = [x \in Posts |->
                  CASE x \in taken -> "publishing"
                    [] x \in lost  -> "failed"
                    [] OTHER       -> status[x]]
        BY <2>1, Zenon DEF ReleaseEffect
      <3>2. taken \in SUBSET {about[a]}
        OBVIOUS
      <3> HIDE DEF taken
      <3>3. QED
        BY <3>1, <3>2
    <2>3. /\ Releasing(a) /\ UNCHANGED <<current, asked, about>> /\ pc[a] = "idle"
          /\ batch[a] = {} /\ current[a] = NoPost
      BY <1>0, <2>1 DEF ReleaseEffect, Releasing, Opened
    <2>4. about[a] = q => asked[a] = "approve"
      BY <2>3, ReleaseDecides
    <2>5. \A w \in Publishers : w # a => (Holds(w, q)' <=> Holds(w, q))
      <3>1. ASSUME NEW w \in Publishers, w # a
            PROVE  batch'[w] = batch[w] /\ current'[w] = current[w]
        BY <2>2, <2>3, <3>1 DEF ShapeInv, ReviewTypeOK, TypeOK
      <3>2. QED
        BY <3>1 DEF Holds
    <2>6. Holds(a, q)' <=> q \in mine
      BY <1>0, <2>2, <2>3 DEF Holds, ShapeInv, ReviewTypeOK, TypeOK
    <2>7. CASE q \in mine
      <3>1. about[a] = q
        BY <2>7
      <3>2. q \notin lost
        BY <2>1, <3>1 DEF ReleaseEffect
      <3>3. status'[q] = "publishing"
        BY <2>2, <2>7, <3>2
      <3>4. QED
        BY <1>0, <2>3, <2>4, <2>5, <2>6, <2>7, <3>1, <3>3 DEF InApproval
    <2>8. CASE q \notin mine
      <3>1. status'[q] \in {status[q], "failed"}
        BY <2>2, <2>8
      <3>2. ~Holds(a, q) /\ ~Holds(a, q)' /\ \A b \in Reviewers : SameRequest(b)
        BY <1>0, <2>3, <2>6, <2>8 DEF Holds, SameRequest
      <3>3. QED
        BY <2>5, <3>1, <3>2, InApprovalKept
    <2>9. QED
      BY <2>7, <2>8
  <1>11. QED
    BY <1>1, <1>4, <1>6, <1>7, <1>8, <1>9, <1>10 DEF Review

\* While no process has died, an item is pending only as Undecided says.
LEMMA UndecidedStep ==
  ASSUME ShapeInv, ShapeInv', OnlyReleasesSend, NextReviewed, crashes' = crashes,
         NEW q \in Posts, Undecided(q)
  PROVE  Undecided(q)'
  <1> SUFFICES ASSUME item'[q] = "pending"
               PROVE  InApproval(q)' \/ \E a \in Reviewers : WillApprove(a, q)'
    BY DEF Undecided
  <1>1. item[q] = "pending" /\ crashes \in Nat /\ TypeOK /\ PassShape
    BY ItemsClose DEF ShapeInv, ReviewTypeOK, TypeOK
  <1>2. ASSUME NEW a \in Reviewers, WillApprove(a, q) PROVE WillApprove(a, q)'
    BY <1>2, ApprovalStays
  <1>3. ASSUME InApproval(q), Elsewhere PROVE InApproval(q)'
    <2>1. \A b \in Reviewers : SameRequest(b)
      BY <1>3 DEF Elsewhere, reviewVars, SameRequest
    <2>2. ASSUME \/ \E p \in Posts : Cancel(p) \/ Time(p)
                 \/ \E k \in StopKinds : Stop(k) \/ Resume(k)
          PROVE  InApproval(q)'
      <3>1. status'[q] = status[q]
        BY <1>3, <2>2, PeopleRows DEF InApproval
      <3>2. UNCHANGED passVars
        BY <2>2 DEF Cancel, Time, BecomeDue, BecomeStale, DayPasses, Stop, Resume
      <3>3. \A w : Holds(w, q)' <=> Holds(w, q)
        BY <3>2, MemoryKept DEF passVars
      <3>4. QED
        BY <1>3, <2>1, <3>1, <3>3, InApprovalKept
    <2>3. ASSUME NEW w \in Publishers \ Reviewers, Pass(w) PROVE InApproval(q)'
      BY <1>3, <2>1, <2>3, PassElsewhere DEF InApproval
    <2>4. \A w : ~Crash(w)
      BY <1>1 DEF Crash
    <2>5. QED
      BY <1>3, <2>2, <2>3, <2>4 DEF Elsewhere
  <1>4. ASSUME InApproval(q), NEW a \in Reviewers, Review(a)
        PROVE  InApproval(q)' \/ \E b \in Reviewers : WillApprove(b, q)'
    <2>1. CASE ReviewerPass(a) /\ Holds(a, q)
      BY <1>4, <2>1, PassOfApproval
    <2>2. CASE ReviewerPass(a) /\ ~Holds(a, q)
      <3>1. Pass(a) /\ a \in Publishers /\ \A b \in Reviewers : SameRequest(b)
        BY <2>2, Requests DEF ReviewerPass, SameRequest
      <3>2. QED
        BY <1>4, <2>2, <3>1, PassElsewhere
    <2>3. CASE ~ReviewerPass(a)
      BY <1>1, <1>4, <2>3, OwnApproval
    <2>4. QED
      BY <2>1, <2>2, <2>3
  <1>5. QED
    BY <1>1, <1>2, <1>3, <1>4 DEF Undecided, NextReviewed

\* As long as no process has died, nothing is on the schedule, in a publisher's
\* hands or out while its item is pending and no approval of it is at work: for
\* any number of requests at once.
THEOREM NothingSentWithoutApproval == SpecReviewed => []NothingSentUndecided
  <1>1. InitReviewed => ApprovalsGuard
    BY ConstantsAssumption, ReviewConstants
       DEF InitReviewed, InitWith, ApprovalsGuard, OnlyReleasesSend, Undecided, InApproval, Holds
  <1>2. ASSUME ShapeInv, ShapeInv', ApprovalsGuard, [NextReviewed]_allVars PROVE ApprovalsGuard'
    <2>1. OnlyReleasesSend'
      BY <1>2, OnlyReleasesStep DEF ApprovalsGuard
    <2>2. ASSUME AllAlive', NEW q \in Posts PROVE Undecided(q)'
      <3>1. CASE UNCHANGED allVars
        BY <1>2, <2>2, <3>1 DEF ApprovalsGuard, AllAlive, Undecided, InApproval, WillApprove, Holds,
           allVars, vars, rowVars, passVars, reviewVars
      <3>2. CASE NextReviewed
        <4>1. crashes \in Nat /\ crashes' = 0
          BY <1>2, <2>2 DEF AllAlive, ShapeInv, ReviewTypeOK, TypeOK
        <4>2. crashes' = crashes
          BY <1>2, <3>2, <4>1, DeathsCount
        <4>3. QED
          BY <1>2, <2>2, <3>2, <4>2, UndecidedStep DEF ApprovalsGuard, AllAlive
      <3>3. QED
        BY <1>2, <3>1, <3>2
    <2>3. QED
      BY <2>1, <2>2 DEF ApprovalsGuard
  <1>3. ShapeInv /\ ApprovalsGuard => NothingSentUndecided
    BY DEF ApprovalsGuard, NothingSentUndecided, Undecided, InApproval, WillApprove, Active
  <1>4. QED
    BY <1>1, <1>2, <1>3, ShapeInvariance, PTL DEF SpecReviewed

=============================================================================
