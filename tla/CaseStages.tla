------------------------------ MODULE CaseStages ------------------------------
(***************************************************************************)
(* The workflow stage of one case and the dates it rests on.  Two kinds of *)
(* writers share the row: the case form, which saves under a version       *)
(* number (clients/views/cases.py, services/locking.py), and the review of *)
(* the questionnaire and the letters, which write single columns and leave *)
(* the version alone (admin_mos_review.py, document_workflow.py).          *)
(***************************************************************************)
EXTENDS Naturals, FiniteSets

CONSTANTS
    Staff,       \* members of staff, each with one request or form at a time
    MaxSaves,    \* bound: versions of the row
    MaxWrites    \* bound: writes that leave the version alone

ASSUME StagesAssumption == MaxSaves \in Nat /\ MaxWrites \in Nat

VARIABLES
    row,       \* the case row
    owes,      \* a pending or partial payment exists
    complete,  \* every required document of the checklist is there
    desk,      \* the form or the request each member of staff has before them
    written    \* what the last write of the row rested on

stagesVars == <<row, owes, complete, desk, written>>

Stages == {"new_client", "document_collection", "application_submitted",
           "fingerprints", "waiting_decision", "decision_received", "closed"}

Position == [new_client |-> 0, document_collection |-> 1,
             application_submitted |-> 2, fingerprints |-> 3,
             waiting_decision |-> 4, decision_received |-> 5, closed |-> 6]

Dates == {"submission", "fingerprints", "decision"}

(* The date a forward step into a stage asks for. *)
Needs(stage) ==
    CASE stage = "fingerprints" -> {"submission"}
      [] stage = "waiting_decision" -> {"fingerprints"}
      [] stage \in {"decision_received", "closed"} -> {"decision"}
      [] OTHER -> {}

Row == [stage: Stages, dates: SUBSET Dates, version: 1..MaxSaves + 1]

Step == {"idle", "form", "posted", "review", "letter"}

(* shown: the row as loaded, or what the form posts; overtaken: another   *)
(* form was saved since; stale: what the form was checked against changed. *)
Desk == [step: Step, shown: Row, overtaken: BOOLEAN, stale: BOOLEAN]

Written == [by: {"nobody", "form", "review", "letter"}, stale: BOOLEAN,
            overtaken: BOOLEAN, writes: 0..MaxWrites]

NewRow == [stage |-> "new_client", dates |-> {}, version |-> 1]

EmptyDesk == [step |-> "idle", shown |-> NewRow, overtaken |-> FALSE, stale |-> FALSE]

StagesTypeOK ==
    /\ row \in Row
    /\ owes \in BOOLEAN
    /\ complete \in BOOLEAN
    /\ desk \in [Staff -> Desk]
    /\ written \in Written

\* fault: the dates of the stages are not asked for
TransitionAllowedUndated(case, from, to) ==
    \/ Position[to] <= Position[from]
    \/ /\ to = "application_submitted" => complete
       /\ to = "closed" => ~owes

(* validate_case_workflow_transition: back and sideways is free; forward    *)
(* needs the documents, the date of the stage, and no debt to close.        *)
TransitionAllowed(case, from, to) ==
    \/ Position[to] <= Position[from]
    \/ /\ to = "application_submitted" => complete
       /\ Needs(to) \subseteq case.dates
       /\ to = "closed" => ~owes

StagesInit ==
    /\ row = NewRow
    /\ owes = FALSE
    /\ complete = FALSE
    /\ desk = [s \in Staff |-> EmptyDesk]
    /\ written = [by |-> "nobody", stale |-> FALSE, overtaken |-> FALSE, writes |-> 0]

Load(s, step) ==
    desk' = [desk EXCEPT ![s] = [EmptyDesk EXCEPT !.step = step, !.shown = row]]

Leave(s) == desk' = [desk EXCEPT ![s] = EmptyDesk]

(* Everybody else's checks are out of date after a change of the row, of the *)
(* payments or of the documents.                                             *)
Outdated(desks, s) ==
    [d \in Staff |-> IF d = s THEN EmptyDesk
                     ELSE [desks[d] EXCEPT !.stale = @ \/ desks[d].step = "posted"]]

-----------------------------------------------------------------------------
(* The case form *)

OpenForm(s) ==
    /\ desk[s].step = "idle"
    /\ row.version <= MaxSaves
    /\ Load(s, "form")
    /\ UNCHANGED <<row, owes, complete, written>>

(* What a member of staff may type: a stage, with or without the date it *)
(* needs, or a date cleared.                                             *)
Typed(shown) ==
    {[shown EXCEPT !.stage = stage] : stage \in Stages}
    \union {[shown EXCEPT !.stage = stage, !.dates = @ \union Needs(stage)] : stage \in Stages}
    \union {[shown EXCEPT !.dates = @ \ {d}] : d \in Dates}

(* CaseForm.clean: the typed values, the decision date too, are laid over   *)
(* the row as it is at the POST, and the step from its stage is validated.  *)
PostForm(s, next) ==
    /\ desk[s].step = "form"
    /\ TransitionAllowed(next, row.stage, next.stage)
    /\ desk' = [desk EXCEPT ![s].step = "posted", ![s].shown = next]
    /\ UNCHANGED <<row, owes, complete, written>>

(* The columns CaseUpdateView names in changes_dict and the whitelist lets  *)
(* through: the decision date is not among them.                            *)
FormColumns(next) ==
    [row EXCEPT !.stage = next.stage,
                !.dates = (next.dates \ {"decision"}) \union (@ \intersect {"decision"}),
                !.version = @ + 1]

\* fault: the version is not compared
AnyVersion(s) == TRUE

(* _update_instance_with_locking: UPDATE ... WHERE version = the version of *)
(* the form.                                                                *)
VersionMatches(s) == desk[s].shown.version = row.version

SaveForm(s) ==
    /\ desk[s].step = "posted"
    /\ VersionMatches(s)
    /\ row.version <= MaxSaves
    /\ row' = FormColumns(desk[s].shown)
    /\ written' = [written EXCEPT !.by = "form", !.stale = desk[s].stale,
                                  !.overtaken = desk[s].overtaken]
    /\ desk' = Outdated([d \in Staff |->
                           [desk[d] EXCEPT !.overtaken = desk[d].step \in {"form", "posted"}]], s)
    /\ UNCHANGED <<owes, complete>>

(* Another version: the form comes back with the message. *)
RefuseForm(s) ==
    /\ desk[s].step = "posted"
    /\ ~VersionMatches(s)
    /\ Leave(s)
    /\ UNCHANGED <<row, owes, complete, written>>

-----------------------------------------------------------------------------
(* Writers that leave the version alone *)

LoadReview(s) ==
    /\ desk[s].step = "idle"
    /\ written.writes < MaxWrites
    /\ Load(s, "review")
    /\ UNCHANGED <<row, owes, complete, written>>

(* A write of single columns of the row as it is now. *)
Write(s, by, new) ==
    /\ row' = new
    /\ written' = [by |-> by, stale |-> desk[s].shown # row, overtaken |-> FALSE,
                   writes |-> written.writes + 1]
    /\ desk' = Outdated(desk, s)
    /\ written.writes < MaxWrites
    /\ UNCHANGED <<owes, complete>>

(* transition_case_workflow on the case the request has loaded. *)
Transition(s, stage) ==
    /\ TransitionAllowed(desk[s].shown, desk[s].shown.stage, stage)
    /\ Write(s, "review", [row EXCEPT !.stage = stage])

MarkSubmitted(s) ==
    /\ desk[s].step = "review"
    /\ Transition(s, "application_submitted")

(* The appointment may be over already: then the case waits for a decision. *)
MarkFingerprints(s) ==
    /\ desk[s].step = "review"
    /\ \/ Transition(s, "fingerprints")
       \/ /\ "fingerprints" \in desk[s].shown.dates
          /\ Transition(s, "waiting_decision")

MarkWaiting(s) ==
    /\ desk[s].step = "review"
    /\ "fingerprints" \in desk[s].shown.dates
    /\ Transition(s, "waiting_decision")

MarkDecision(s) ==
    /\ desk[s].step = "review"
    /\ "decision" \in desk[s].shown.dates
    /\ Transition(s, "decision_received")

(* The reviewer leaves without one of these, or the step is refused. *)
EndReview(s) ==
    /\ desk[s].step \in {"review", "letter", "form"}
    /\ Leave(s)
    /\ UNCHANGED <<row, owes, complete, written>>

(* confirm_wezwanie_document and the end of a letter's OCR job: the case is *)
(* loaded with the document ...                                             *)
LoadLetter(s) ==
    /\ desk[s].step = "idle"
    /\ written.writes < MaxWrites
    /\ Load(s, "letter")
    /\ UNCHANGED <<row, owes, complete, written>>

(* ... and gets the dates of the letter, the decision's only while the case *)
(* waits for one and a reviewer confirms.                                   *)
DecisionWritable(case) ==
    /\ case.stage \in {"waiting_decision", "decision_received", "closed"}
    /\ case.stage = "waiting_decision" => "fingerprints" \in case.dates

ApplyLetter(s, dates, confirmed) ==
    LET case == desk[s].shown
        new == (dates \ case.dates)
                 \ (IF confirmed /\ DecisionWritable(case) THEN {} ELSE {"decision"})
    IN
    /\ desk[s].step = "letter"
    /\ dates \subseteq {"fingerprints", "decision"}
    /\ new # {}
    /\ Write(s, "letter", [row EXCEPT !.dates = @ \union new])

-----------------------------------------------------------------------------
(* What the steps depend on: payments and documents come and go. *)
ChecksOutdated ==
    desk' = [d \in Staff |-> [desk[d] EXCEPT !.stale = @ \/ desk[d].step = "posted"]]

PaymentsChange ==
    /\ owes' = ~owes
    /\ ChecksOutdated
    /\ UNCHANGED <<row, complete, written>>

DocumentsChange ==
    /\ complete' = ~complete
    /\ ChecksOutdated
    /\ UNCHANGED <<row, owes, written>>

StagesNext ==
    \/ \E s \in Staff :
          \/ OpenForm(s)
          \/ \E next \in Typed(desk[s].shown) : PostForm(s, next)
          \/ SaveForm(s)
          \/ RefuseForm(s)
          \/ LoadReview(s)
          \/ MarkSubmitted(s)
          \/ MarkFingerprints(s)
          \/ MarkWaiting(s)
          \/ MarkDecision(s)
          \/ EndReview(s)
          \/ LoadLetter(s)
          \/ \E dates \in SUBSET {"fingerprints", "decision"}, c \in BOOLEAN :
                ApplyLetter(s, dates, c)
    \/ PaymentsChange
    \/ DocumentsChange

StagesSpec == StagesInit /\ [][StagesNext]_stagesVars

-----------------------------------------------------------------------------
(* A form is never saved over another form that was saved after it was       *)
(* opened, however the reviews and letters between them change the row: only *)
(* what leaves the version alone can be lost (locking.py:76-108).            *)
FormsNeverOverwriteForms == ~(written.by = "form" /\ written.overtaken)

(* A forward step leaves the case with what the stage asks for, as long as   *)
(* its author knew the row, the payments and the documents as they are: the  *)
(* date of the stage, and no debt on a closed case.  The exception is the    *)
(* decision date typed into the form, which is validated and not saved       *)
(* (workflow.py:36-96, views/cases.py:155-165).                              *)
ForwardStepsHaveTheirDates ==
    [][Position[row'.stage] > Position[row.stage] =>
         \/ written'.stale
         \/ /\ Needs(row'.stage) \ {"decision"} \subseteq row'.dates
            /\ written'.by = "review" => Needs(row'.stage) \subseteq row'.dates
            /\ row'.stage = "closed" => ~owes
            /\ row'.stage = "application_submitted" => complete]_stagesVars

(* A case enters "decision_received" with a known decision date when nobody *)
(* else has touched it (docs/BUSINESS_WORKFLOW.md:12).                      *)
DecisionDateIsKnown ==
    [][row'.stage = "decision_received" /\ row.stage # "decision_received"
         /\ ~written'.stale => "decision" \in row'.dates]_stagesVars
=============================================================================
