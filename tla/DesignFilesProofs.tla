------------------------- MODULE DesignFilesProofs -------------------------
(***************************************************************************)
(* What can be posted was approved, for any number of requests, workers,   *)
(* pictures and cards.  The invariant says the same of every copy of the   *)
(* row that somebody may still write back.                                 *)
(***************************************************************************)
EXTENDS DesignFiles, TLAPS

\* A new design has one picture, which nobody has approved.
LEMMA FirstState == Init => TypeOK /\ RecordsApproved
  BY DEF Init, TypeOK, RecordsApproved, Recorded, Statuses, Details, Drawn, NoRequest,
         NoDrawing, NoRun, NoFile, NoCard

\* What the writers put into a copy of detail is a detail again, with the same
\* record.
LEMMA Redrawn ==
  ASSUME NEW d \in Details, NEW f \in Nat
  PROVE  /\ [d EXCEPT !.awaited = TRUE] \in Details
         /\ [d EXCEPT !.awaited = FALSE] \in Details
         /\ [d EXCEPT !.picture = f, !.awaited = FALSE] \in Details
         /\ [d EXCEPT !.awaited = FALSE].record = d.record
         /\ [d EXCEPT !.picture = f, !.awaited = FALSE].record = d.record
  BY DEF Details

\* Every write of the row is of values of its columns' types, whoever's copy
\* they come from.
LEMMA TypeKept == TypeOK /\ [Next]_vars => TypeOK'
  <1> SUFFICES ASSUME TypeOK, [Next]_vars PROVE TypeOK'
    OBVIOUS
  <1> USE DEF TypeOK, Statuses, Details, Kinds, NoCard, NoFile
  <1>1. ASSUME NEW r \in Requests, NEW kind \in Kinds, NEW c \in Nat, Open(r, kind, c)
        PROVE TypeOK'
    BY <1>1 DEF Open, rowVars, cardVars
  <1>2. ASSUME NEW r \in Requests, Request(r) PROVE TypeOK'
    <2>1. NoRequest \in [kind : Kinds \cup {"none"}, card : Nat, was : Statuses, had : Details]
      BY DEF NoRequest, Drawn
    <2>2. CASE OpenEdit(r) \/ OpenChanges(r) \/ OpenRestore(r) \/ OpenExport(r) \/ OpenDecision(r)
      BY <1>1, <2>2 DEF OpenEdit, OpenChanges, OpenRestore, OpenExport, OpenDecision
    <2>3. CASE CloseText(r)
      <3>1. detail' \in Details
        BY <2>3, Redrawn DEF CloseText, WriteDetail
      <3> QED BY <2>1, <2>3, <3>1 DEF CloseText, Close, cardVars
    <2>4. CASE CloseApprove(r)
      BY <2>1, <2>4 DEF CloseApprove, Decided, WriteStatus, WriteDetail, Close, rowVars, cardVars
    <2>5. CASE CloseReject(r)
      BY <2>1, <2>5 DEF CloseReject, Decided, WriteStatus, Close
    <2>6. CASE CloseExport(r)
      BY <2>1, <2>6 DEF CloseExport, WriteStatus, Close, cardVars
    <2>7. CASE CloseChanges(r)
      BY <2>1, <2>7 DEF CloseChanges, Close, rowVars
    <2>8. CASE GiveUp(r)
      BY <2>1, <2>8 DEF GiveUp, Close, rowVars, cardVars
    <2> QED BY <1>2, <2>2, <2>3, <2>4, <2>5, <2>6, <2>7, <2>8 DEF Request
  <1>3. ASSUME NEW w \in Workers, BeginRedraw(w) PROVE TypeOK'
    BY <1>3 DEF BeginRedraw, rowVars, cardVars
  <1>4. ASSUME NEW w \in Workers, FinishRedraw(w) \/ FailRedraw(w) \/ LoseRedraw(w) PROVE TypeOK'
    <2>1. drawing[w].had \in Details /\ files + 1 \in Nat
      OBVIOUS
    <2>2. detail' \in Details /\ files' \in Nat
      <3>1. CASE FinishRedraw(w)
        BY <3>1, <2>1, Redrawn DEF FinishRedraw
      <3>2. CASE FailRedraw(w)
        BY <3>2, <2>1, Redrawn DEF FailRedraw
      <3>3. CASE LoseRedraw(w)
        BY <3>3 DEF LoseRedraw
      <3> QED BY <1>4, <3>1, <3>2, <3>3
    <2>3. drawing' \in [Workers -> [busy : BOOLEAN, had : Details]]
      <3>1. NoDrawing \in [busy : BOOLEAN, had : Details]
        BY DEF NoDrawing, Drawn
      <3>2. drawing' = [drawing EXCEPT ![w] = NoDrawing]
        BY <1>4 DEF FinishRedraw, FailRedraw, LoseRedraw, EndRedraw
      <3> QED BY <3>1, <3>2
    <2> QED BY <1>4, <2>2, <2>3 DEF FinishRedraw, FailRedraw, LoseRedraw, EndRedraw, cardVars
  <1>5. CASE BeginRun
    BY <1>5 DEF BeginRun, rowVars, cardVars
  <1>6. CASE SaveRun
    <2>1. run.had \in Details /\ files + 1 \in Nat
      OBVIOUS
    <2>2. detail' \in Details /\ files' \in Nat
      BY <1>6, <2>1, Redrawn DEF SaveRun
    <2> QED BY <1>6, <2>2 DEF SaveRun, QueueCard, NoRun, Drawn
  <1>7. CASE FailRun
    BY <1>7 DEF FailRun, QueueCard, NoRun, Drawn, rowVars
  <1>8. CASE UNCHANGED vars
    BY <1>8 DEF vars, rowVars, cardVars
  <1> QED BY <1>2, <1>3, <1>4, <1>5, <1>6, <1>7, <1>8 DEF Next

\* No step writes a record that does not come from a copy, except the approval,
\* which adds the picture it records to the approved ones.
LEMMA RecordsKept == TypeOK /\ RecordsApproved /\ [Next]_vars => RecordsApproved'
  <1> SUFFICES ASSUME TypeOK, RecordsApproved, [Next]_vars PROVE RecordsApproved'
    OBVIOUS
  <1> USE DEF TypeOK, RecordsApproved, Recorded, Details
  <1>1. ASSUME NEW r \in Requests, NEW kind, NEW c, Open(r, kind, c) PROVE RecordsApproved'
    BY <1>1 DEF Open, rowVars, cardVars
  <1>2. ASSUME NEW r \in Requests, Request(r) PROVE RecordsApproved'
    <2>1. NoRequest.had.record = NoFile
      BY DEF NoRequest, Drawn
    <2>2. CASE OpenEdit(r) \/ OpenChanges(r) \/ OpenRestore(r) \/ OpenExport(r) \/ OpenDecision(r)
      BY <1>1, <2>2 DEF OpenEdit, OpenChanges, OpenRestore, OpenExport, OpenDecision
    <2>3. CASE CloseText(r)
      BY <2>1, <2>3 DEF CloseText, WriteDetail, Close, cardVars
    <2>4. CASE CloseApprove(r)
      BY <2>1, <2>4 DEF CloseApprove, WriteDetail, Close, rowVars
    <2>5. CASE CloseReject(r) \/ CloseExport(r) \/ CloseChanges(r) \/ GiveUp(r)
      BY <2>1, <2>5 DEF CloseReject, CloseExport, CloseChanges, GiveUp, Close, rowVars
    <2> QED BY <1>2, <2>2, <2>3, <2>4, <2>5 DEF Request
  <1>3. ASSUME NEW w \in Workers, BeginRedraw(w) PROVE RecordsApproved'
    BY <1>3 DEF BeginRedraw, rowVars
  <1>4. ASSUME NEW w \in Workers, FinishRedraw(w) \/ FailRedraw(w) \/ LoseRedraw(w)
        PROVE RecordsApproved'
    <2>1. drawing[w].had \in Details /\ files + 1 \in Nat
      OBVIOUS
    <2>2. detail'.record \in {detail.record, drawing[w].had.record}
      BY <1>4, <2>1, Redrawn DEF FinishRedraw, FailRedraw, LoseRedraw
    <2>3. UNCHANGED <<req, run, approved>> /\ drawing' = [drawing EXCEPT ![w] = NoDrawing]
      BY <1>4 DEF FinishRedraw, FailRedraw, LoseRedraw, EndRedraw
    <2> QED BY <2>2, <2>3 DEF NoDrawing, Drawn
  <1>5. CASE BeginRun
    BY <1>5 DEF BeginRun, rowVars
  <1>6. CASE SaveRun
    BY <1>6 DEF SaveRun, QueueCard, NoRun, Drawn
  <1>7. CASE FailRun
    BY <1>7 DEF FailRun, QueueCard, NoRun, Drawn, rowVars
  <1>8. CASE UNCHANGED vars
    BY <1>8 DEF vars, rowVars
  <1> QED BY <1>2, <1>3, <1>4, <1>5, <1>6, <1>7, <1>8 DEF Next

\* The row, its copies and the cards keep their types.
THEOREM TypeCorrect == Spec => []TypeOK
  BY FirstState, TypeKept, PTL DEF Spec

\* A picture that can be posted was approved, whatever requests, redraws and
\* revisions overwrite of each other (social_schedule._design_file).
THEOREM OnlyApprovedIsPosted == Spec => []PostedWasApproved
  <1>1. RecordsApproved => PostedWasApproved
    BY DEF RecordsApproved, Recorded, PostedWasApproved, Postable
  <1> QED BY <1>1, FirstState, TypeKept, RecordsKept, PTL DEF Spec

=============================================================================
