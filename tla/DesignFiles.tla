---------------------------- MODULE DesignFiles ----------------------------
(***************************************************************************)
(* Which picture of a design may leave the workspace.                      *)
(*                                                                         *)
(* A design is one row of marketing_assets.  Its JSON column "detail" names *)
(* the current picture (render_file_id), the picture a person approved     *)
(* (approved_render_file_id), and whether a redraw is awaited              *)
(* (preview_pending).  Requests, redraws and the run of a revision all read *)
(* the row, work, and write the whole column from the copy they read;      *)
(* nothing locks the row in between.  A column is written only if it       *)
(* differs from the copy.  DesignReview has the cards and the jobs in       *)
(* detail; here at most one revision of the design is under way.           *)
(***************************************************************************)
EXTENDS Naturals

CONSTANTS
    Requests,       \* people's requests at work at the same time
    Workers,        \* workers that redraw
    MaxFiles,       \* bound: pictures drawn
    MaxCards,       \* bound: approval cards queued
    MaxRedraws      \* bound: redraws waiting

VARIABLES
    status,         \* AssetStatus of the design
    detail,         \* its detail column
    files,          \* pictures drawn so far; a picture's name is its number
    card,           \* the pending approval card, 0 for none
    cards,          \* cards queued so far
    req,            \* request |-> what it does, on which card, and its copy of the row
    redraws,        \* redraws waiting for a worker
    drawing,        \* worker |-> whether it redraws, and its copy of detail
    run,            \* the revision under way, and its copy of the row
    approved        \* ghost: pictures that were current when a person approved

rowVars  == <<status, detail>>
cardVars == <<card, cards>>
vars     == <<rowVars, files, cardVars, req, redraws, drawing, run, approved>>

NoFile   == 0
NoCard   == 0
Statuses == {"draft", "approved", "exported", "rejected"}
Released == {"approved", "exported"}
Kinds    == {"edit", "restore", "approve", "reject", "changes", "export"}
Details  == [picture : Nat, record : Nat, awaited : BOOLEAN]

Drawn     == [picture |-> 1, record |-> NoFile, awaited |-> FALSE]
NoRequest == [kind |-> "none", card |-> NoCard, was |-> "draft", had |-> Drawn]
NoDrawing == [busy |-> FALSE, had |-> Drawn]
NoRun     == [phase |-> "none", was |-> "draft", had |-> Drawn]

\* A job's first version: a draft with its picture and one pending card.
Init ==
    /\ status = "draft" /\ detail = Drawn /\ files = 1
    /\ card = 1 /\ cards = 1
    /\ req = [r \in Requests |-> NoRequest]
    /\ redraws = 0
    /\ drawing = [w \in Workers |-> NoDrawing]
    /\ run = NoRun
    /\ approved = {}

-----------------------------------------------------------------------------
\* Editing and asking for changes lock the card (_lock_pending) until they end.
Holds(r)   == req[r].kind \in {"edit", "changes"}
Locked(c)  == c # NoCard /\ \E q \in Requests : Holds(q) /\ req[q].card = c

\* A request reads the row.
Open(r, kind, c) ==
    /\ req[r].kind = "none"
    /\ req' = [req EXCEPT ![r] = [kind |-> kind, card |-> c, was |-> status, had |-> detail]]
    /\ UNCHANGED <<rowVars, files, cardVars, redraws, drawing, run, approved>>

OpenEdit(r)    == card # NoCard /\ ~Locked(card) /\ status # "exported" /\ Open(r, "edit", card)
OpenChanges(r) == card # NoCard /\ ~Locked(card) /\ status # "exported" /\ Open(r, "changes", card)
OpenRestore(r) == status \notin Released /\ Open(r, "restore", NoCard)
OpenExport(r)  == status = "approved" /\ Open(r, "export", NoCard)

\* From the card, or from the library, which takes the pending card if there is one.
OpenDecision(r) == \E kind \in {"approve", "reject"} : Open(r, kind, card)

Doing(r, kind) == req[r].kind = kind
Close(r)       == req' = [req EXCEPT ![r] = NoRequest]

\* The columns, once a request has written them from its copy.
WriteStatus(r, value) == status' = IF value # req[r].was THEN value ELSE status
WriteDetail(r, value) == detail' = IF value # req[r].had THEN value ELSE detail

\* edit_creative_text and restore_creative_text: new text, and a redraw of it.
CloseText(r) ==
    /\ Doing(r, "edit") \/ Doing(r, "restore")
    /\ redraws < MaxRedraws
    /\ WriteDetail(r, [req[r].had EXCEPT !.awaited = TRUE])
    /\ redraws' = redraws + 1
    /\ Close(r)
    /\ UNCHANGED <<status, files, cardVars, drawing, run, approved>>

\* A decision closes the card it read; another may be pending by then.
Decided(r) ==
    /\ ~Locked(req[r].card)
    /\ card' = IF card = req[r].card THEN NoCard ELSE card
    /\ UNCHANGED cards

\* release(): an exported design stays as it is; otherwise the design is
\* approved with the picture the request read (_record_approved_design).
CloseApprove(r) ==
    /\ Doing(r, "approve") /\ Decided(r)
    /\ IF req[r].was = "exported"
       THEN UNCHANGED rowVars
       ELSE /\ WriteStatus(r, "approved")
            /\ WriteDetail(r, [req[r].had EXCEPT !.record = req[r].had.picture])
    /\ approved' = approved \cup {req[r].had.picture}
    /\ Close(r)
    /\ UNCHANGED <<files, redraws, drawing, run>>

CloseReject(r) ==
    /\ Doing(r, "reject") /\ Decided(r)
    /\ IF req[r].was = "exported" THEN UNCHANGED status ELSE WriteStatus(r, "rejected")
    /\ Close(r)
    /\ UNCHANGED <<detail, files, redraws, drawing, run, approved>>

\* Downloading the text from the library marks the design as exported.
CloseExport(r) ==
    /\ Doing(r, "export") /\ WriteStatus(r, "exported") /\ Close(r)
    /\ UNCHANGED <<detail, files, cardVars, redraws, drawing, run, approved>>

\* request_changes: the card is superseded and a job is queued.
CloseChanges(r) ==
    /\ Doing(r, "changes")
    /\ card' = NoCard
    /\ run' = [run EXCEPT !.phase = "queued"]
    /\ Close(r)
    /\ UNCHANGED <<rowVars, files, cards, redraws, drawing, approved>>

\* Refused text, a stop, a deadlock the database resolves, a dead process:
\* the request ends with nothing written.
GiveUp(r) ==
    /\ req[r].kind # "none" /\ Close(r)
    /\ UNCHANGED <<rowVars, files, cardVars, redraws, drawing, run, approved>>

-----------------------------------------------------------------------------
(* redraw(): the picture is drawn from the copy of the row read first.       *)

BeginRedraw(w) ==
    /\ redraws > 0 /\ ~drawing[w].busy
    /\ redraws' = redraws - 1
    /\ drawing' = [drawing EXCEPT ![w] = [busy |-> TRUE, had |-> detail]]
    /\ UNCHANGED <<rowVars, files, cardVars, req, run, approved>>

EndRedraw(w) ==
    /\ drawing[w].busy
    /\ drawing' = [drawing EXCEPT ![w] = NoDrawing]
    /\ UNCHANGED <<status, cardVars, req, redraws, run, approved>>

\* The pending card's payload is written too, so its lock is waited for.
FinishRedraw(w) ==
    /\ EndRedraw(w) /\ ~Locked(card) /\ files < MaxFiles
    /\ files' = files + 1
    /\ detail' = [drawing[w].had EXCEPT !.picture = files + 1, !.awaited = FALSE]

\* _redraw_failed.
FailRedraw(w) ==
    /\ EndRedraw(w)
    /\ detail' = [drawing[w].had EXCEPT !.awaited = FALSE]
    /\ UNCHANGED files

\* The worker dies, or a time limit ends it.
LoseRedraw(w) == EndRedraw(w) /\ UNCHANGED <<detail, files>>

-----------------------------------------------------------------------------
(* The run of a revision.                                                   *)

BeginRun ==
    /\ run.phase = "queued"
    /\ run' = [phase |-> "running", was |-> status, had |-> detail]
    /\ UNCHANGED <<rowVars, files, cardVars, req, redraws, drawing, approved>>

\* queue_revision.
QueueCard ==
    /\ cards < MaxCards
    /\ cards' = cards + 1 /\ card' = cards + 1
    /\ run' = NoRun
    /\ UNCHANGED <<req, redraws, drawing, approved>>

\* _persist: the new picture on the design, and a card for it.
SaveRun ==
    /\ run.phase = "running" /\ files < MaxFiles
    /\ QueueCard
    /\ files' = files + 1
    /\ detail' = [run.had EXCEPT !.picture = files + 1, !.awaited = FALSE]
    /\ status' = IF run.was = "rejected" THEN "draft" ELSE status

\* _after_failed_revision: the previous version goes back into the queue.
FailRun ==
    /\ run.phase \in {"queued", "running"}
    /\ QueueCard
    /\ UNCHANGED <<rowVars, files>>

-----------------------------------------------------------------------------
Request(r) ==
    \/ OpenEdit(r) \/ OpenChanges(r) \/ OpenRestore(r) \/ OpenExport(r) \/ OpenDecision(r)
    \/ CloseText(r) \/ CloseApprove(r) \/ CloseReject(r) \/ CloseExport(r)
    \/ CloseChanges(r) \/ GiveUp(r)

Next ==
    \/ \E r \in Requests : Request(r)
    \/ \E w \in Workers : BeginRedraw(w) \/ FinishRedraw(w) \/ FailRedraw(w) \/ LoseRedraw(w)
    \/ BeginRun \/ SaveRun \/ FailRun

Spec == Init /\ [][Next]_vars

-----------------------------------------------------------------------------
(* Properties.                                                              *)

TypeOK ==
    /\ status \in Statuses
    /\ detail \in Details
    /\ files \in Nat /\ card \in Nat /\ cards \in Nat /\ redraws \in Nat
    /\ req \in [Requests -> [kind : Kinds \cup {"none"}, card : Nat, was : Statuses, had : Details]]
    /\ drawing \in [Workers -> [busy : BOOLEAN, had : Details]]
    /\ run \in [phase : {"none", "queued", "running"}, was : Statuses, had : Details]
    /\ approved \subseteq Nat

\* design_files and released_render_ids: the picture that is downloaded.
Download == IF detail.record # NoFile THEN detail.record ELSE detail.picture

\* _design_file: the picture that can be posted, or none.
Postable == IF detail.record = detail.picture THEN detail.record ELSE NoFile

\* Whatever requests, redraws and revisions overwrite of each other, a picture
\* that can be posted to a network is one somebody approved.
PostedWasApproved ==
    status \in Released /\ Postable # NoFile => Postable \in approved

\* Every picture on record as approved, in the row and in the copies of it that
\* may yet be written back, was approved.
Recorded(d) == d.record \in approved \cup {NoFile}

RecordsApproved ==
    /\ Recorded(detail)
    /\ \A r \in Requests : Recorded(req[r].had)
    /\ \A w \in Workers : Recorded(drawing[w].had)
    /\ Recorded(run.had)

\* "a later redraw never changes what is downloaded" (creative.py): once a
\* design is released, what is downloaded is a picture somebody approved.
DownloadsStayApproved == status \in Released => Download \in approved

=============================================================================
