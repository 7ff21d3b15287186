--------------------------- MODULE ReminderPasses ---------------------------
(***************************************************************************)
(* Payments and the reminders about one client's file: the staff's forms,  *)
(* the signals of a saved payment, and the passes of update_reminders that *)
(* run over the whole file, possibly several at once.                      *)
(***************************************************************************)
EXTENDS Naturals, Sequences, FiniteSets

CONSTANTS
    Passes,      \* processes that run update_reminders
    Scopes,      \* the sections a pass is asked for ("--only")
    Total,       \* the price of the service
    Offered,     \* the forms that are sent
    MaxEdits     \* changes by the staff, the client and the calendar

ASSUME RemindersAssumption ==
    /\ IsFiniteSet(Passes) /\ Passes # {}
    /\ Scopes # {}
    /\ Total \in Nat \ {0}
    /\ Offered \subseteq [status : {"pending", "partial", "paid", "refunded"}, paid : 0..(Total + 1), due : {"later", "now"}]
    /\ MaxEdits \in Nat

VARIABLES
    pay,         \* the payment's row
    payRem,      \* its reminder (OneToOne): none, active, done
    doc,         \* the expiry of a document: far, near, archived
    docRem,      \* the document's reminder (OneToOne)
    stay,        \* the legal stay ends soon and the case is at an early stage
    stayRows,    \* active "legal_stay" reminders of the case
    req,         \* a custom requirement: none, wanted, answered
    reqRows,     \* its reminders (a ForeignKey: nothing makes them unique)
    reqOn,       \* they are active
    waiting,     \* no decision long after the fingerprints
    task,        \* an open "fingerprints_followup" task
    manyCases,   \* the client has another active case
    pass,        \* where each pass is
    edits,       \* changes made so far
    misled,      \* the last form was answered "saved" and was not
    raced,       \* a pass wrote a payment's reminder it had decided on before a change
    overlapped   \* two passes were about to create the same reminder

fileVars == <<pay, payRem, doc, docRem, stay, stayRows, req, reqRows, reqOn, waiting, task>>
passVars == <<pass, raced, overlapped>>
remindersVars == <<fileVars, passVars, manyCases, edits, misled>>

Statuses == {"pending", "partial", "paid", "refunded"}
RemStates == {"none", "active", "done"}

Sections == <<"documents", "payments", "legal-stay", "custom", "fingerprints">>
SectionNames == {Sections[i] : i \in DOMAIN Sections}

NoPayment == [there |-> FALSE, archived |-> FALSE, status |-> "pending", paid |-> 0, due |-> "later"]
Idle == [at |-> "idle", saw |-> FALSE, only |-> {}]

RemindersInit ==
    /\ pay = NoPayment /\ payRem = "none"
    /\ doc \in {"far", "near"} /\ docRem = "none"
    /\ stay \in BOOLEAN /\ stayRows = 0
    /\ req = "none" /\ reqRows = 0 /\ reqOn = FALSE
    /\ waiting \in BOOLEAN /\ task = FALSE
    /\ manyCases \in BOOLEAN
    /\ pass = [p \in Passes |-> Idle]
    /\ edits = 0 /\ misled = FALSE
    /\ raced = FALSE /\ overlapped = FALSE

-----------------------------------------------------------------------------
(* Payments.                                                                *)

(* fault: a partial payment may be of the whole price *)
CleanAllowsWholePartial(f) ==
    /\ f.paid <= Total
    /\ f.status = "paid" => f.paid = Total
    /\ f.status = "pending" => f.paid = 0
    /\ f.status = "partial" => f.paid > 0

(* Payment.clean: what a form may say. *)
Clean(f) ==
    /\ f.paid <= Total
    /\ f.status = "paid" => f.paid = Total
    /\ f.status = "partial" => f.paid \in 1..(Total - 1)
    /\ f.status = "pending" => f.paid = 0

(* The check constraints of the table. *)
Storable(f) ==
    /\ f.paid <= Total
    /\ f.status # "pending" \/ f.paid = 0
    /\ f.status # "paid" \/ f.paid = Total
    /\ f.status # "partial" \/ (f.paid > 0 /\ f.paid < Total)

(* PAYMENT_INTEGRITY_RULES: what audit_payment_integrity would report. *)
Issues(f) ==
    {i \in {"exceeds", "pending_paid", "mismatch", "out_of_range"} :
        \/ i = "exceeds" /\ f.paid > Total
        \/ i = "pending_paid" /\ f.status = "pending" /\ f.paid # 0
        \/ i = "mismatch" /\ f.status = "paid" /\ f.paid # Total
        \/ i = "out_of_range" /\ f.status = "partial" /\ (f.paid = 0 \/ f.paid >= Total)}

Unpaid(row) == row.there /\ ~row.archived /\ row.status \in {"pending", "partial"}
Owed(row) == Unpaid(row) /\ row.due = "now"

Off(rem) == IF rem = "none" THEN "none" ELSE "done"

(* fault: the signal leaves the reminder of a settled payment *)
SyncedRemKept(row) == IF row.archived THEN Off(payRem) ELSE IF Owed(row) THEN "active" ELSE payRem

(* sync_payment_reminder_on_save, in the transaction that saves the payment. *)
SyncedRem(row) == IF row.archived THEN Off(payRem) ELSE IF Owed(row) THEN "active" ELSE "none"

Row(f, archived) ==
    [there |-> TRUE, archived |-> archived, status |-> f.status, paid |-> f.paid, due |-> f.due]

FormOf(row) == [status |-> row.status, paid |-> row.paid, due |-> row.due]

RemindersTypeOK ==
    /\ pay \in [there : BOOLEAN, archived : BOOLEAN, status : Statuses, paid : 0..Total, due : {"later", "now"}]
    /\ pay.there => Storable(FormOf(pay)) /\ Issues(FormOf(pay)) = {}
    /\ payRem \in RemStates /\ docRem \in RemStates
    /\ doc \in {"far", "near", "archived"} /\ req \in {"none", "wanted", "answered"}
    /\ {stay, reqOn, waiting, task, manyCases, raced, overlapped, misled} \subseteq BOOLEAN
    /\ {stayRows, reqRows} \subseteq 0..Cardinality(Passes)
    /\ \A p \in Passes :
        /\ pass[p].at \in SectionNames \union {"idle"} /\ pass[p].only \in Scopes \union {{}}
        /\ pass[p].saw \in BOOLEAN
    /\ edits \in 0..MaxEdits

Edit == edits < MaxEdits /\ edits' = edits + 1

OnlyPayments == UNCHANGED <<doc, docRem, stay, stayRows, req, reqRows, reqOn, waiting, task, passVars, manyCases>>

(* fault: the form is not validated *)
AddPaymentUnchecked(f) ==
    /\ Edit /\ ~pay.there
    /\ pay' = Row(f, FALSE)
    /\ payRem' = SyncedRem(pay')
    /\ misled' = FALSE
    /\ OnlyPayments

(* add_payment: the form makes a new object, so every field differs and is saved. *)
AddPayment(f) ==
    /\ Edit /\ ~pay.there /\ Clean(f)
    /\ pay' = Row(f, FALSE)
    /\ payRem' = SyncedRem(pay')
    /\ misled' = FALSE
    /\ OnlyPayments

(* PaymentForm(request.POST, instance=payment).is_valid() writes the form's  *)
(* values into the instance it is given.                                     *)
Instance(f) == f

(* _set_payment_fields: the fields in which the instance differs from the form. *)
Changed(instance, f) == {k \in DOMAIN f : instance[k] # f[k]}

(* edit_payment and update_payment_for_client: saves only if a field changed. *)
EditPayment(f) ==
    /\ Edit /\ pay.there /\ ~pay.archived /\ Clean(f)
    /\ IF Changed(Instance(f), f) # {}
       THEN pay' = Row(f, FALSE) /\ payRem' = SyncedRem(pay')
       ELSE UNCHANGED <<pay, payRem>>
    /\ misled' = (pay' # Row(f, FALSE))
    /\ OnlyPayments

(* The admin's form saves the row it shows, archived ones too. *)
AdminSavesPayment(f) ==
    /\ Edit /\ pay.there /\ Clean(f)
    /\ pay' = Row(f, pay.archived)
    /\ payRem' = SyncedRem(pay')
    /\ misled' = FALSE
    /\ OnlyPayments

(* delete_payment: SoftDeleteModel.archive and Payment.on_archive. *)
DeletePayment ==
    /\ Edit /\ pay.there /\ ~pay.archived
    /\ pay' = [pay EXCEPT !.archived = TRUE]
    /\ payRem' = Off(payRem)
    /\ misled' = FALSE
    /\ OnlyPayments

(* restore_client_payment: on_restore switches the reminder of a partial payment on. *)
RestorePayment ==
    /\ Edit /\ pay.there /\ pay.archived
    /\ pay' = [pay EXCEPT !.archived = FALSE]
    /\ payRem' = IF pay.status = "partial" /\ payRem # "none" THEN "active" ELSE payRem
    /\ misled' = FALSE
    /\ OnlyPayments

DueDateArrives ==
    /\ Edit /\ pay.there /\ pay.due = "later"
    /\ pay' = [pay EXCEPT !.due = "now"]
    /\ misled' = FALSE
    /\ UNCHANGED payRem /\ OnlyPayments

-----------------------------------------------------------------------------
(* The rest of the file.                                                    *)

DocumentChanges ==
    /\ Edit
    /\ \/ doc = "far" /\ doc' = "near"
       \/ doc = "near" /\ doc' = "archived"
    /\ UNCHANGED <<pay, payRem, docRem, stay, stayRows, req, reqRows, reqOn, waiting, task, passVars, manyCases, misled>>

(* The case leaves the early stages; nobody switches its reminder off. *)
CaseIsSubmitted ==
    /\ Edit /\ stay /\ stay' = FALSE
    /\ UNCHANGED <<pay, payRem, doc, docRem, stayRows, req, reqRows, reqOn, waiting, task, passVars, manyCases, misled>>

DecisionArrives ==
    /\ Edit /\ waiting /\ waiting' = FALSE
    /\ UNCHANGED <<pay, payRem, doc, docRem, stay, stayRows, req, reqRows, reqOn, task, passVars, manyCases, misled>>

(* sync_custom_document_requirement_reminder, while its rows are one at most. *)
RequirementSynced(want) ==
    /\ reqRows' = IF want /\ reqRows = 0 THEN 1 ELSE reqRows
    /\ reqOn' = (want /\ reqRows' > 0)

(* add_client_document_requirement, and the upload that answers it. *)
RequirementChanges ==
    /\ Edit
    /\ \/ req = "none" /\ req' = "wanted" /\ RequirementSynced(TRUE)
       \/ req = "wanted" /\ req' = "answered" /\ RequirementSynced(FALSE)
    /\ UNCHANGED <<pay, payRem, doc, docRem, stay, stayRows, waiting, task, passVars, manyCases, misled>>

(* reminder_action: "deactivate" keeps the row, "delete" does not. *)
StaffDismisses ==
    /\ Edit
    /\ \/ /\ payRem = "active" /\ payRem' \in {"done", "none"}
          /\ UNCHANGED <<docRem, stayRows, reqRows, reqOn>>
       \/ /\ docRem = "active" /\ docRem' \in {"done", "none"}
          /\ UNCHANGED <<payRem, stayRows, reqRows, reqOn>>
       \/ /\ stayRows > 0 /\ stayRows' = stayRows - 1
          /\ UNCHANGED <<payRem, docRem, reqRows, reqOn>>
       \/ /\ reqRows > 0 /\ reqRows' = reqRows - 1 /\ reqOn' = (reqOn /\ reqRows' > 0)
          /\ UNCHANGED <<payRem, docRem, stayRows>>
    /\ UNCHANGED <<pay, doc, stay, req, waiting, task, passVars, manyCases, misled>>

-----------------------------------------------------------------------------
(* A pass: handle() of update_reminders, section by section.                *)

Position(at) == CHOOSE i \in DOMAIN Sections : Sections[i] = at

(* The sections of handle() that "--only" leaves in the pass, after position i. *)
Later(i, only) == {j \in DOMAIN Sections : j > i /\ Sections[j] \in only}

Start(i, only) ==
    IF Later(i, only) = {} THEN "idle"
    ELSE Sections[CHOOSE j \in Later(i, only) : \A k \in Later(i, only) : j <= k]

Ends(p) == pass' = [pass EXCEPT ![p] = Idle]

(* On to the next section, or to the end of the command. *)
GoesOn(p) ==
    LET next == Start(Position(pass[p].at), pass[p].only)
    IN  IF next = "idle" THEN Ends(p)
        ELSE pass' = [pass EXCEPT ![p].at = next, ![p].saw = FALSE]

(* The section's query found something to write. *)
Finds(p) == pass' = [pass EXCEPT ![p].saw = TRUE]

(* Any exception ends the whole command. *)
Aborts(p) == Ends(p)

Reading(p, section) == pass[p].at = section /\ ~pass[p].saw
Writing(p, section) == pass[p].at = section /\ pass[p].saw

(* update_reminders_cron, the daily slot of the automation loop, or the      *)
(* button of the reminder page: each keeps others of its own kind out at     *)
(* best (a cache key of fifteen minutes), never those of another kind.       *)
StartPass(p, only) ==
    /\ pass[p] = Idle
    /\ pass' = [pass EXCEPT ![p] = [at |-> Start(0, only), saw |-> FALSE, only |-> only]]
    /\ UNCHANGED <<fileVars, manyCases, edits, misled, raced, overlapped>>

PassCrashes(p) ==
    /\ Edit /\ pass[p] # Idle
    /\ pass' = [pass EXCEPT ![p] = Idle]
    /\ UNCHANGED <<fileVars, raced, overlapped, manyCases, misled>>

SomeoneElseWrites(p, section) == \E q \in Passes \ {p} : Writing(q, section)

Unedited == UNCHANGED <<manyCases, edits, misled>>

(* create_document_reminders: expiring documents that have no reminder ... *)
FindDocuments(p) ==
    /\ Reading(p, "documents")
    /\ IF doc = "near" /\ docRem = "none" THEN Finds(p) ELSE GoesOn(p)
    /\ UNCHANGED <<fileVars, raced, overlapped>> /\ Unedited

(* ... get one with a plain create: a second one is an IntegrityError. *)
RemindOfDocuments(p) ==
    /\ Writing(p, "documents")
    /\ IF docRem = "none" THEN docRem' = "active" /\ GoesOn(p)
       ELSE UNCHANGED docRem /\ Aborts(p)
    /\ UNCHANGED <<pay, payRem, doc, stay, stayRows, req, reqRows, reqOn, waiting, task, raced, overlapped>>
    /\ Unedited

(* fault: only payments that have no reminder are found *)
FindPaymentsWithoutReminder(p) ==
    /\ Reading(p, "payments")
    /\ IF Owed(pay) /\ payRem = "none" THEN Finds(p) ELSE GoesOn(p)
    /\ UNCHANGED <<fileVars, raced, overlapped>> /\ Unedited

(* create_payment_reminders: due payments without an active reminder ... *)
FindPayments(p) ==
    /\ Reading(p, "payments")
    /\ IF Owed(pay) /\ payRem # "active" THEN Finds(p) ELSE GoesOn(p)
    /\ UNCHANGED <<fileVars, raced, overlapped>> /\ Unedited

(* ... get theirs created or switched on, whatever became of the payment. *)
RemindOfPayments(p) ==
    /\ Writing(p, "payments")
    /\ payRem' = "active"
    /\ raced' = (raced \/ ~Owed(pay))
    /\ GoesOn(p)
    /\ UNCHANGED <<pay, doc, docRem, stay, stayRows, req, reqRows, reqOn, waiting, task, overlapped>>
    /\ Unedited

(* send_legal_stay_notifications: the e-mail names no case, and the log of   *)
(* the e-mail cannot choose one for a client who has several (EmailLog.save). *)
LegalMailFails == stay /\ manyCases

(* fault: a reminder is created although one is active *)
FindLegalStaysAnyway(p) ==
    /\ Reading(p, "legal-stay")
    /\ IF ~stay THEN GoesOn(p)
       ELSE IF LegalMailFails \/ stayRows > 1 THEN Aborts(p)
       ELSE Finds(p)
    /\ overlapped' = (overlapped \/ SomeoneElseWrites(p, "legal-stay"))
    /\ UNCHANGED <<fileVars, raced>> /\ Unedited

(* The mails, then create_legal_stay_reminders: update_or_create looks up the active one,    *)
(* which raises when there are two ...                                       *)
FindLegalStays(p) ==
    /\ Reading(p, "legal-stay")
    /\ IF ~stay THEN GoesOn(p)
       ELSE IF LegalMailFails \/ stayRows > 1 THEN Aborts(p)
       ELSE IF stayRows = 0 THEN Finds(p)
       ELSE GoesOn(p)
    /\ overlapped' = (overlapped \/ SomeoneElseWrites(p, "legal-stay"))
    /\ UNCHANGED <<fileVars, raced>> /\ Unedited

(* ... and creates it: no constraint makes it the only one. *)
RemindOfLegalStay(p) ==
    /\ Writing(p, "legal-stay")
    /\ stayRows' = stayRows + 1
    /\ GoesOn(p)
    /\ UNCHANGED <<pay, payRem, doc, docRem, stay, req, reqRows, reqOn, waiting, task, raced, overlapped>>
    /\ Unedited

(* sync_custom_document_requirement_reminders: the requirement's reminders   *)
(* are switched off, or the one there is is switched on ...                  *)
SyncRequirements(p) ==
    /\ Reading(p, "custom")
    /\ IF req = "wanted" /\ reqRows = 0 THEN Finds(p) /\ UNCHANGED reqOn
       ELSE IF req = "wanted" /\ reqRows > 1 THEN Aborts(p) /\ UNCHANGED reqOn
       ELSE GoesOn(p) /\ reqOn' = (req = "wanted")
    /\ UNCHANGED <<pay, payRem, doc, docRem, stay, stayRows, req, reqRows, waiting, task, raced, overlapped>>
    /\ Unedited

(* ... or one is created. *)
RemindOfRequirement(p) ==
    /\ Writing(p, "custom")
    /\ reqRows' = reqRows + 1 /\ reqOn' = TRUE
    /\ GoesOn(p)
    /\ UNCHANGED <<pay, payRem, doc, docRem, stay, stayRows, req, waiting, task, raced, overlapped>>
    /\ Unedited

(* create_fingerprints_followup_tasks: closes what is decided, then opens    *)
(* a task for the case that still waits, in one transaction.                 *)
FollowUpFingerprints(p) ==
    /\ Reading(p, "fingerprints")
    /\ task' = waiting
    /\ GoesOn(p)
    /\ UNCHANGED <<pay, payRem, doc, docRem, stay, stayRows, req, reqRows, reqOn, waiting, raced, overlapped>>
    /\ Unedited

PassStep(p) ==
    \/ FindDocuments(p) \/ RemindOfDocuments(p)
    \/ FindPayments(p) \/ RemindOfPayments(p)
    \/ FindLegalStays(p) \/ RemindOfLegalStay(p)
    \/ SyncRequirements(p) \/ RemindOfRequirement(p)
    \/ FollowUpFingerprints(p)

RemindersNext ==
    \/ \E f \in Offered : AddPayment(f) \/ EditPayment(f) \/ AdminSavesPayment(f)
    \/ DeletePayment \/ RestorePayment \/ DueDateArrives
    \/ DocumentChanges \/ CaseIsSubmitted \/ DecisionArrives
    \/ RequirementChanges \/ StaffDismisses
    \/ \E p \in Passes :
        \/ PassCrashes(p) \/ PassStep(p)
        \/ \E only \in Scopes : StartPass(p, only)

RemindersSpec == RemindersInit /\ [][RemindersNext]_remindersVars

-----------------------------------------------------------------------------
(* Nobody is reminded of a payment that is settled, refunded or deleted,     *)
(* unless a pass had decided to before it was (signals.py, update_reminders, *)
(* models/payment.py on_archive and on_restore).                             *)
RemindersMatchDebts == payRem = "active" => Unpaid(pay) \/ raced

(* A case has one active legal-stay reminder at most, unless two passes      *)
(* looked for it at once: nothing in the database forbids the second one,    *)
(* and every pass after it fails (update_reminders.py:373).                  *)
OneLegalStayReminder == stayRows <= 1 \/ overlapped

(* A payment that is due and owed gets an active reminder, after whatever    *)
(* failed, was dismissed or was restored without it: never is one owed from  *)
(* some time on and no reminder active.                                      *)
DebtsAreChased == []<>(payRem = "active" \/ ~Owed(pay))

(* update_reminders.py:395 of the follow-up tasks: "No human intervention is *)
(* required either to raise or to clear the alert."                          *)
StaleCasesAreChased == waiting ~> (task \/ ~waiting)

(* The message of edit_payment: what the form said is what is stored.        *)
EditsAreSaved == ~misled
=============================================================================
