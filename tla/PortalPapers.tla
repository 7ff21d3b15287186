---------------------------- MODULE PortalPapers ----------------------------
(***************************************************************************)
(* The papers of one case between the client's portal, which uploads them   *)
(* and says what is wanted (views/onboarding_views.py,                      *)
(* views/onboarding_start_contact.py), and the office, which gets a review  *)
(* task for each upload and judges it (services/document_workflow.py,       *)
(* services/tasks.py, use_cases/documents.py, views/documents.py).          *)
(*                                                                         *)
(* An upload, a rejection and the verification of all papers are several    *)
(* statements, and a verification or a deletion trusts the row its request  *)
(* read.  A prompt request does it all at once; a slow one, of which one is *)
(* under way at a time, stops in the middle.                                *)
(***************************************************************************)
EXTENDS Naturals, FiniteSets

CONSTANTS
    NumSheets,   \* papers uploaded in a behaviour
    Moves        \* the stages the staff move the case to

ASSUME PortalAssumption ==
    /\ NumSheets \in Nat
    /\ Moves \subseteq {"mos_package_ready", "needs_correction", "submitted_in_mos", "fingerprints",
                       "waiting_decision", "decision_received"}

VARIABLES
    sheet,       \* the papers, in the order of their uploading
    stage,       \* the status of the questionnaire
    purposeSet,  \* the case or the questionnaire has a purpose
    desk         \* the slow request

papersVars == <<sheet, stage, purposeSet, desk>>

Sheets == 1..NumSheets

(* On the list of the purpose, and uploaded besides it.                      *)
Wanted == {"photo"}
Kinds == Wanted \cup {"other"}

OpenForAnswers == {"client_filling", "needs_correction"}
OpenForPapers ==
    OpenForAnswers \cup {"client_completed", "submitted_in_mos", "fingerprints", "waiting_decision"}
Stages == OpenForPapers \cup {"mos_package_ready", "decision_received"}

(* passed: the staff closed its task without a word on it, brought it in or   *)
(* took their word back, or the request that uploaded it died.               *)
NoSheet == [kind |-> "none", live |-> FALSE, verdict |-> "none", expired |-> FALSE, task |-> "none", passed |-> FALSE]

Quiet == [at |-> "idle", of |-> {}, seen |-> FALSE]

PapersTypeOK ==
    /\ sheet \in [Sheets -> [kind : Kinds \cup {"none"}, live : BOOLEAN, verdict : {"none", "verified", "rejected"},
                             expired : BOOLEAN, task : {"none", "open", "done"}, passed : BOOLEAN]]
    /\ stage \in Stages /\ purposeSet \in BOOLEAN
    /\ desk.at \in {"idle", "saved", "deleting", "toggling", "rejected", "sweeping"}
    /\ desk.of \subseteq Sheets /\ desk.seen \in BOOLEAN

PapersInit ==
    /\ sheet = [i \in Sheets |-> NoSheet]
    /\ stage = "client_filling" /\ purposeSet \in BOOLEAN
    /\ desk = Quiet

Live == {i \in Sheets : sheet[i].live}
Unused == {i \in Sheets : sheet[i].kind = "none"}

(* order_by("-uploaded_at").                                                 *)
Newest(k) == {i \in Live : sheet[i].kind = k /\ \A j \in Live : sheet[j].kind = k => j <= i}

OnlySheets == UNCHANGED <<stage, purposeSet>>
Prompt == OnlySheets /\ UNCHANGED desk

(* A slow request begins with what it read or wrote, and goes on.            *)
Stops(at, of, seen) == desk = Quiet /\ desk' = [at |-> at, of |-> of, seen |-> seen] /\ OnlySheets
GoesOnAfter(at) == desk.at = at /\ desk' = Quiet /\ OnlySheets

(* Rows an uncommitted update has locked.                                    *)
Free(i) == desk.at # "sweeping" \/ i \notin desk.of

Writes(i, row) == Free(i) /\ sheet' = [sheet EXCEPT ![i] = row]

-----------------------------------------------------------------------------
(* The client.                                                              *)
NewSheet(k, byStaff) == [NoSheet EXCEPT !.kind = k, !.live = TRUE, !.passed = byStaff]

NextSheet == CHOOSE i \in Unused : \A j \in Unused : i <= j

\* fault: an open review task of the client is taken for the paper's own
TaskedOnce(i) == [sheet[i] EXCEPT !.task = IF \E j \in Sheets : sheet[j].task = "open" THEN @ ELSE "open"]

(* create_auto_task: of this document, unless one is open.                   *)
Tasked(i) == [sheet[i] EXCEPT !.task = "open"]

(* onboarding_document_upload.                                               *)
UploadPaper(k) ==
    /\ Unused # {} /\ stage \in OpenForPapers
    /\ Writes(NextSheet, [NewSheet(k, FALSE) EXCEPT !.task = "open"])
    /\ Prompt

(* _save_client_document has committed ...                                   *)
SavePaper(k) ==
    /\ Unused # {} /\ stage \in OpenForPapers
    /\ Writes(NextSheet, NewSheet(k, FALSE))
    /\ Stops("saved", {NextSheet}, FALSE)

(* ... when create_auto_task looks for a task and makes one.                 *)
RaiseTask == GoesOnAfter("saved") /\ \E i \in desk.of : Writes(i, Tasked(i))

UploadDies == GoesOnAfter("saved") /\ \E i \in desk.of : Writes(i, [sheet[i] EXCEPT !.passed = TRUE])

(* onboarding_document_delete: not a verified one, as read; its task stays.  *)
MayDelete(i) == i \in Live /\ sheet[i].verdict # "verified" /\ stage \in OpenForPapers

ReadForDeletion(i) == MayDelete(i) /\ Stops("deleting", {i}, FALSE) /\ UNCHANGED sheet

DeleteOwn == GoesOnAfter("deleting") /\ \E i \in desk.of : Writes(i, [sheet[i] EXCEPT !.live = FALSE])

-----------------------------------------------------------------------------
(* The office.                                                              *)
StaffUploads(k) == Unused # {} /\ Writes(NextSheet, NewSheet(k, TRUE)) /\ Prompt

(* close_auto_task.                                                          *)
TaskClosed(row) == [row EXCEPT !.task = IF @ = "open" THEN "done" ELSE @]

(* toggle_client_document_verification of a row read as verified or not.     *)
Toggled(row, seen) ==
    IF seen
    THEN [row EXCEPT !.verdict = IF @ = "verified" THEN "none" ELSE @, !.passed = @ \/ row.verdict # "rejected"]
    ELSE [TaskClosed(row) EXCEPT !.verdict = "verified"]

Toggle(i) == i \in Live /\ Writes(i, Toggled(sheet[i], sheet[i].verdict = "verified")) /\ Prompt

ReadForToggle(i) == i \in Live /\ Stops("toggling", {i}, sheet[i].verdict = "verified") /\ UNCHANGED sheet

ToggleLate == GoesOnAfter("toggling") /\ \E i \in desk.of : Writes(i, Toggled(sheet[i], desk.seen))

(* reject_document writes the reason ...                                     *)
Rejected(row) == [row EXCEPT !.verdict = "rejected"]

Reject(i) == i \in Live /\ Writes(i, TaskClosed(Rejected(sheet[i]))) /\ Prompt

RejectSlowly(i) == i \in Live /\ Writes(i, Rejected(sheet[i])) /\ Stops("rejected", {i}, FALSE)

(* ... and closes the task, if it comes to that.                             *)
CloseRejected ==
    /\ GoesOnAfter("rejected")
    /\ \E i \in desk.of : Writes(i, sheet[i]) \/ Writes(i, TaskClosed(sheet[i]))

(* verify_all_client_documents: one update over what nobody has judged and   *)
(* has not expired, then every review task of the client is closed, those of *)
(* papers that expired, or came in between, as well.                         *)
Sweepable == {i \in Live : sheet[i].verdict = "none" /\ ~sheet[i].expired}

Swept(of) ==
    sheet' = [i \in Sheets |->
        IF i \in of THEN [TaskClosed(sheet[i]) EXCEPT !.verdict = "verified"]
        ELSE [TaskClosed(sheet[i]) EXCEPT !.passed = @ \/ sheet[i].task = "open"]]

VerifyAllPapers == desk.at # "sweeping" /\ Sweepable # {} /\ Swept(Sweepable) /\ Prompt

SweepUpdate == Sweepable # {} /\ Stops("sweeping", Sweepable, FALSE) /\ UNCHANGED sheet

SweepClose == GoesOnAfter("sweeping") /\ Swept(desk.of)

(* complete_task_for_client.                                                 *)
FinishTask(i) ==
    /\ sheet[i].task = "open"
    /\ sheet' = [sheet EXCEPT ![i].task = "done", ![i].passed = TRUE]
    /\ Prompt

(* Deleting by staff, which is archiving, or by the client at once.          *)
ArchivePaperOf(i) == i \in Live /\ Writes(i, [sheet[i] EXCEPT !.live = FALSE]) /\ Prompt

RestorePaper(i) ==
    /\ sheet[i].kind # "none" /\ ~sheet[i].live
    /\ Writes(i, [sheet[i] EXCEPT !.live = TRUE])
    /\ Prompt

SheetExpires(i) ==
    /\ i \in Live /\ ~sheet[i].expired /\ sheet[i].kind \in Wanted
    /\ sheet' = [sheet EXCEPT ![i].expired = TRUE]
    /\ Prompt

-----------------------------------------------------------------------------
(* The client completes the questionnaire, with or without a purpose, or the *)
(* staff move it on (Questionnaire, CaseStages).                             *)
StageMoves ==
    /\ \/ stage \in OpenForAnswers /\ stage' = "client_completed"
       \/ stage' \in Moves \ {stage}
    /\ UNCHANGED <<sheet, purposeSet, desk>>

PurposeIsSet == ~purposeSet /\ purposeSet' = TRUE /\ UNCHANGED <<sheet, stage, desk>>

-----------------------------------------------------------------------------
(* What the portal says.  _build_start_context lists the papers of the       *)
(* purpose, judged by the newest of each kind ...                            *)
Listed == IF purposeSet THEN Wanted ELSE {}
Lacking == {k \in Listed : Newest(k) = {}}
Refused == {k \in Listed : \E i \in Newest(k) : sheet[i].verdict = "rejected"}

(* ... and what the client is asked to do.                                   *)
ActionItems ==
    (IF Lacking # {} THEN {"missing"} ELSE {}) \cup (IF Refused # {} THEN {"rejected"} ELSE {})
        \cup (IF ~purposeSet /\ stage \in OpenForAnswers THEN {"purpose"} ELSE {})
        \cup (IF stage = "needs_correction" THEN {"correction"} ELSE {})

(* get_case_onboarding_step; owed: the case has an unpaid payment; invited:  *)
(* it has a day for the fingerprints.                                        *)
CaseStep(owed, invited) ==
    CASE stage = "client_filling" -> 2
      [] stage \in {"client_completed", "needs_correction"} -> IF ~purposeSet \/ Lacking # {} THEN 3 ELSE 4
      [] stage = "mos_package_ready" -> IF owed THEN 5 ELSE 6
      [] stage = "submitted_in_mos" -> IF invited THEN 8 ELSE 7
      [] stage = "fingerprints" -> 8
      [] stage = "waiting_decision" -> 9
      [] stage = "decision_received" -> 10

-----------------------------------------------------------------------------
ClientNext ==
    \/ \E k \in Kinds : UploadPaper(k) \/ SavePaper(k)
    \/ RaiseTask \/ UploadDies \/ DeleteOwn
    \/ \E i \in Sheets : ReadForDeletion(i)

ClerkNext ==
    \/ \E k \in Kinds : StaffUploads(k)
    \/ \E i \in Sheets :
        \/ Toggle(i) \/ ReadForToggle(i) \/ Reject(i) \/ RejectSlowly(i) \/ FinishTask(i)
        \/ ArchivePaperOf(i) \/ RestorePaper(i) \/ SheetExpires(i)
    \/ ToggleLate \/ CloseRejected \/ VerifyAllPapers \/ SweepUpdate \/ SweepClose

PapersNext == ClientNext \/ ClerkNext \/ StageMoves \/ PurposeIsSet

PapersSpec == PapersInit /\ [][PapersNext]_papersVars

-----------------------------------------------------------------------------
(* A paper nobody has judged is in the hands of the office.                  *)
OfficeKnows ==
    \A i \in Live :
        \/ sheet[i].verdict # "none" \/ sheet[i].task = "open" \/ sheet[i].passed
        \/ desk.at = "saved" /\ i \in desk.of
        \/ desk.at = "sweeping" /\ i \in desk.of

(* The timeline and the list agree: a case waits for papers if and only if   *)
(* the client is asked for some, or for the purpose that names them, which a *)
(* completed questionnaire without one does not.                             *)
TimelineAgrees ==
    stage \in {"client_completed", "needs_correction"} /\ (purposeSet \/ stage \in OpenForAnswers) =>
        \A owed, invited \in BOOLEAN : CaseStep(owed, invited) = 3 <=> {"missing", "purpose"} \cap ActionItems # {}

(* Of every paper the case wants somebody knows what is next: the client's   *)
(* page asks for it, the office has a task to look at it or has decided, or  *)
(* passed it over; and what the timeline says is what the page asks for      *)
(* (services/tasks.py, use_cases/documents.py,                               *)
(* views/onboarding_start_contact.py, services/onboarding_progress.py).      *)
PapersAreSeen ==
    /\ OfficeKnows /\ TimelineAgrees
    /\ \A k \in Listed :
        \/ {"missing", "rejected"} \cap ActionItems # {}
        \/ \E i \in Newest(k) : sheet[i].verdict = "verified" \/ sheet[i].task = "open" \/ sheet[i].passed
        \/ desk.at \in {"saved", "sweeping"}
=============================================================================
