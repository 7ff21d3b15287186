----------------------------- MODULE Recognition -----------------------------
(***************************************************************************)
(* What the readers of uploaded papers write: the month of a ZUS report    *)
(* (clients/services/document_workflow_zus.py), the number of a passport   *)
(* (document_job_processors.py) and what a confirmed wezwanie puts on its  *)
(* case (document_workflow_wezwanie.py).  A reader loads its rows when it  *)
(* claims the job and writes minutes later, while the staff types the same *)
(* fields.  Leases and retries are OcrJobs', the names of employers those  *)
(* of Employers.                                                           *)
(***************************************************************************)
EXTENDS Naturals, FiniteSets

CONSTANTS
    Sheets,      \* the papers one client may upload
    Scanners,    \* workers and requests that read or confirm at one time
    NumFiles,    \* the client's cases; case 1 is the oldest
    Months,      \* the months reports are for
    Slots,       \* the kinds of paper uploaded
    MaxTries,    \* DEFAULT_JOB_MAX_ATTEMPTS
    Blank        \* a field with nothing in it

AllSlots == {"rca", "history", "policy", "passport", "rental", "company", "wezwanie"}

ASSUME RecognitionAssumption ==
    /\ NumFiles \in Nat \ {0}
    /\ MaxTries \in Nat \ {0}
    /\ Slots \subseteq AllSlots
    /\ Blank \notin Months \union {"staff", "paper"}

Files == 1..NumFiles

(* What can be seen on a paper: nothing, no field of interest, a number (of  *)
(* the passport, or the letter P of a wezwanie), a policy, a ZUS             *)
(* registration form, a report of no legible month, or a month.              *)
Prints(slot) ==
    CASE slot = "rca" -> {"blurred", "policy", "registration", "report"} \union Months
      [] slot = "history" -> {"blurred", "report"} \union Months
      [] slot = "policy" -> {"blurred", "policy"}
      [] slot \in {"passport", "wezwanie"} -> {"blurred", "plain", "number"}
      [] slot \in {"rental", "company"} -> {"blurred", "plain"}

Months0 == Months \union {Blank}

Forms == {"zus", "insurance", "passport", "rental", "company", "wezwanie"}

VARIABLES
    sheet,       \* Document by paper, with its job; "none" before the upload
    passport,    \* Client.passport_num: blank, typed by staff, or read
    purpose,     \* Case.application_purpose, by case
    scan         \* what each reader or request has loaded

recognitionVars == <<sheet, passport, purpose, scan>>

NoSheet ==
    [slot |-> "none", file |-> 1, print |-> "plain", month |-> Blank, live |-> FALSE,
     read |-> "skipped", told |-> Blank, awaits |-> FALSE,
     job |-> "none", form |-> "wezwanie", tries |-> 0]

NoScan ==
    [at |-> "idle", sheet |-> Blank, form |-> "wezwanie", month |-> Blank,
     passport |-> Blank, purpose |-> Blank, told |-> Blank, behind |-> {}]

Entry == {Blank, "staff", "paper"}

RecognitionTypeOK ==
    /\ sheet \in [Sheets ->
          [slot : Slots \union {"none"}, file : Files,
           print : {"blurred", "plain", "number", "policy", "registration", "report"} \union Months,
           month : Months0, live : BOOLEAN,
           read : {"skipped", "pending", "success", "failed"}, told : Months0,
           awaits : BOOLEAN, job : {"none", "pending", "processing", "completed", "failed"},
           form : Forms, tries : 0..MaxTries]]
    /\ passport \in Entry
    /\ purpose \in [Files -> Entry]
    /\ scan \in [Scanners ->
          [at : {"idle", "reading", "assign", "finish", "confirming"},
           sheet : Sheets \union {Blank}, form : Forms, month : Months0,
           passport : Entry, purpose : Entry, told : Months0,
           behind : SUBSET {"passport", "purpose", "month"}]]

RecognitionInit ==
    /\ sheet = [s \in Sheets |-> NoSheet]
    /\ passport = Blank
    /\ purpose = [c \in Files |-> Blank]
    /\ scan = [w \in Scanners |-> NoScan]

(* A live paper that is the client's report for the month.                   *)
IsReport(s, slot, month) == sheet[s].live /\ sheet[s].slot = slot /\ sheet[s].month = month

(* unique_zus_rca_period_per_case would refuse the month.                    *)
Refused(s, c, month) ==
    \E r \in Sheets \ {s} : IsReport(r, "rca", month) /\ sheet[r].file = c

(* Every other reader the test holds for now works on an older row.          *)
Outdate(field, readers) ==
    [w \in Scanners |-> IF scan[w].at # "idle" /\ w \in readers
                        THEN [scan[w] EXCEPT !.behind = @ \union {field}]
                        ELSE scan[w]]

-----------------------------------------------------------------------------
(* DocumentUploadForm and upload_client_document.  Only a report has a       *)
(* month; the form looks for another report of the oldest case, the database *)
(* for one of the same case.  A report without a month is read as a policy.  *)
JobType(slot, month) ==
    CASE slot = "history" -> "zus"
      [] slot = "rca" /\ month # Blank -> "zus"
      [] slot = "rca" /\ month = Blank -> "insurance"
      [] slot = "policy" -> "insurance"
      [] OTHER -> slot

MayUpload(s, slot, c, month) ==
    month # Blank => /\ slot = "rca"
                     /\ ~Refused(s, c, month)
                     /\ ~Refused(s, 1, month)

UploadSheet(s, slot, c, month, print, parse) ==
    /\ sheet[s] = NoSheet
    /\ MayUpload(s, slot, c, month)
    /\ parse \/ slot = "wezwanie"
    /\ sheet' = [sheet EXCEPT ![s] =
          [NoSheet EXCEPT !.slot = slot, !.file = c, !.print = print, !.month = month,
                          !.live = TRUE,
                          !.read = IF parse THEN "pending" ELSE "skipped",
                          !.job = IF parse THEN "pending" ELSE "none",
                          !.form = JobType(slot, month)]]
    /\ UNCHANGED <<passport, purpose, scan>>

DeleteSheet(s) ==
    /\ sheet[s].live
    /\ sheet' = [sheet EXCEPT ![s].live = FALSE]
    /\ UNCHANGED <<passport, purpose, scan>>

(* The staff types or clears a passport number or a purpose.                 *)
EnterPassport(value) ==
    /\ passport' = value
    /\ scan' = Outdate("passport", Scanners)
    /\ UNCHANGED <<sheet, purpose>>

EnterPurpose(c, value) ==
    /\ purpose' = [purpose EXCEPT ![c] = value]
    /\ scan' = Outdate("purpose", {w \in Scanners : scan[w].at # "idle" /\ sheet[scan[w].sheet].file = c})
    /\ UNCHANGED <<sheet, passport>>

-----------------------------------------------------------------------------
(* process_document_processing_job: the job is claimed under its lock; the   *)
(* document and the client loaded with it are what the reader works on.      *)
LoadRows(w, s, at) ==
    scan' = [scan EXCEPT ![w] =
        [at |-> at, sheet |-> s, form |-> sheet[s].form, month |-> sheet[s].month,
         passport |-> passport, purpose |-> purpose[sheet[s].file],
         told |-> Blank, behind |-> {}]]

ClaimSheet(w, s) ==
    /\ scan[w].at = "idle"
    /\ sheet[s].job = "pending" /\ sheet[s].tries < MaxTries
    /\ sheet' = [sheet EXCEPT ![s].job = "processing", ![s].tries = @ + 1]
    /\ LoadRows(w, s, "reading")
    /\ UNCHANGED <<passport, purpose>>

AfterFailure(s) == IF sheet[s].tries < MaxTries THEN "pending" ELSE "failed"

(* reclaim_stale_document_jobs: the reader that had the lease goes on.       *)
LoseLease(s) ==
    /\ sheet[s].job = "processing"
    /\ sheet' = [sheet EXCEPT ![s].job = AfterFailure(s)]
    /\ UNCHANGED <<passport, purpose, scan>>

Reads(w) == scan[w].at = "reading"
Paper(w) == sheet[scan[w].sheet]
PutDown(w) == scan' = [scan EXCEPT ![w] = NoScan]

(* _finalize_failed_document_job: only if the job is still being processed.  *)
FailDocument(w) ==
    LET s == scan[w].sheet IN
    /\ IF sheet[s].job = "processing" /\ sheet[s].live
       THEN sheet' = [sheet EXCEPT ![s].read = "failed", ![s].awaits = FALSE,
                                   ![s].job = AfterFailure(s)]
       ELSE UNCHANGED sheet
    /\ PutDown(w)
    /\ UNCHANGED <<passport, purpose>>

(* The key of what an earlier reading stored, or of the address a lease is   *)
(* compared with, is away.                                                   *)
KeyIsAway(w) == Reads(w) /\ FailDocument(w)

(* No text, or the parser raises: only a wezwanie is tried again, the other  *)
(* readers end the job, whoever has it.                                      *)
Illegible(w) ==
    LET s == scan[w].sheet IN
    /\ Reads(w) /\ Paper(w).print = "blurred"
    /\ IF scan[w].form = "wezwanie"
       THEN FailDocument(w)
       ELSE /\ sheet' = [sheet EXCEPT ![s].read = "failed", ![s].job = "failed"]
            /\ PutDown(w)
            /\ UNCHANGED <<passport, purpose>>

(* A company's paper, a lease or a policy: a payload and its warnings.       *)
ReadToEnd(w) ==
    /\ Reads(w) /\ Paper(w).print # "blurred"
    /\ scan' = [scan EXCEPT ![w].at = "finish"]
    /\ UNCHANGED <<sheet, passport, purpose>>

ReadCompany(w) == scan[w].form = "company" /\ ReadToEnd(w)

ReadLease(w) == scan[w].form = "rental" /\ ReadToEnd(w)

ReadPolicy(w) ==
    /\ scan[w].form = "insurance"
    /\ Paper(w).slot = "policy" \/ Paper(w).print = "policy"
    /\ ReadToEnd(w)

\* fault: the number read is taken whatever the profile says
LacksNumberAnyway(w) == Paper(w).print = "number"

(* _process_passport_doc_job_internal: missing from the client as loaded.    *)
LacksNumber(w) == Paper(w).print = "number" /\ scan[w].passport = Blank

ReadPassport(w) ==
    /\ Reads(w) /\ scan[w].form = "passport" /\ Paper(w).print # "blurred"
    /\ IF LacksNumber(w)
       THEN passport' = "paper" /\ scan' = [Outdate("passport", Scanners \ {w})
                                              EXCEPT ![w].at = "finish"]
       ELSE UNCHANGED passport /\ scan' = [scan EXCEPT ![w].at = "finish"]
    /\ UNCHANGED <<sheet, purpose>>

-----------------------------------------------------------------------------
(* _process_zus_doc_job_internal, to which a report that was taken for a     *)
(* policy is handed on.                                                      *)
ReadsZus(w) ==
    /\ Reads(w) /\ Paper(w).print # "blurred"
    /\ \/ scan[w].form = "zus"
       \/ scan[w].form = "insurance" /\ Paper(w).slot = "rca" /\ Paper(w).print # "policy"

(* The month of the row is written; the row of another reader grows old.     *)
WriteMonth(w, month) ==
    /\ sheet' = [sheet EXCEPT ![scan[w].sheet].month = month]
    /\ scan' = [Outdate("month", {v \in Scanners \ {w} : scan[v].sheet = scan[w].sheet})
                  EXCEPT ![w].at = "finish", ![w].told = month]

ReadRegistration(w) ==
    /\ ReadsZus(w) /\ Paper(w).print = "registration"
    /\ IF scan[w].month # Blank
       THEN WriteMonth(w, Blank)
       ELSE UNCHANGED sheet /\ scan' = [scan EXCEPT ![w].at = "finish"]
    /\ UNCHANGED <<passport, purpose>>

(* The month staff chose stands before the month that is read.  A month the  *)
(* row lacks is looked for among the client's papers of the kind, of any     *)
(* case.                                                                     *)
FoundMonth(w) ==
    IF scan[w].month # Blank THEN scan[w].month
    ELSE IF Paper(w).print \in Months THEN Paper(w).print ELSE Blank

HasDuplicate(w) ==
    \E r \in Sheets \ {scan[w].sheet} : IsReport(r, Paper(w).slot, FoundMonth(w))

ReadMonth(w) ==
    /\ ReadsZus(w) /\ Paper(w).print # "registration"
    /\ scan' = [scan EXCEPT ![w].at = IF \/ FoundMonth(w) = scan[w].month
                                         \/ HasDuplicate(w)
                                      THEN "finish" ELSE "assign",
                            ![w].told = scan[w].month]
    /\ UNCHANGED <<sheet, passport, purpose>>

\* fault: the instance keeps the month the database has refused
AssignMonthUnsaved(w) ==
    /\ scan[w].at = "assign"
    /\ IF Paper(w).slot = "rca" /\ ~(Paper(w).live /\ Refused(scan[w].sheet, Paper(w).file, FoundMonth(w)))
       THEN WriteMonth(w, FoundMonth(w))
       ELSE UNCHANGED sheet /\ scan' = [scan EXCEPT ![w].at = "finish", ![w].told = FoundMonth(w)]
    /\ UNCHANGED <<passport, purpose>>

(* Document.save drops the month of any paper but a report; a report that    *)
(* came meanwhile makes the database refuse it.                              *)
AssignMonth(w) ==
    /\ scan[w].at = "assign"
    /\ IF Paper(w).slot = "rca" /\ ~(Paper(w).live /\ Refused(scan[w].sheet, Paper(w).file, FoundMonth(w)))
       THEN WriteMonth(w, FoundMonth(w))
       ELSE UNCHANGED sheet /\ scan' = [scan EXCEPT ![w].at = "finish"]
    /\ UNCHANGED <<passport, purpose>>

(* _finalize_successful_ocr_job and _finalize_successful_company_job: the    *)
(* job ends, whoever has it, and the payload is stored.                      *)
FinishSheet(w) ==
    LET s == scan[w].sheet IN
    /\ scan[w].at = "finish"
    /\ sheet' = [sheet EXCEPT ![s].read = "success", ![s].told = scan[w].told,
                              ![s].job = "completed"]
    /\ PutDown(w)
    /\ UNCHANGED <<passport, purpose>>

-----------------------------------------------------------------------------
(* A wezwanie waits for the staff to confirm what was read.                  *)
ReadWezwanie(w) ==
    LET s == scan[w].sheet IN
    /\ Reads(w) /\ scan[w].form = "wezwanie" /\ Paper(w).print # "blurred"
    /\ IF sheet[s].job = "processing" /\ sheet[s].live
       THEN sheet' = [sheet EXCEPT ![s].read = "success", ![s].awaits = TRUE,
                                   ![s].job = "completed"]
       ELSE UNCHANGED sheet
    /\ PutDown(w)
    /\ UNCHANGED <<passport, purpose>>

(* confirm_wezwanie_document: the document and its case are loaded, the      *)
(* document is saved, and then the case by the fields that differ.  Nothing  *)
(* asks whether the document still waits.                                    *)
ConfirmRead(w, s) ==
    /\ scan[w].at = "idle"
    /\ sheet[s].live /\ sheet[s].slot = "wezwanie"
    /\ LoadRows(w, s, "confirming")
    /\ sheet' = [sheet EXCEPT ![s].awaits = FALSE, ![s].read = "success"]
    /\ UNCHANGED <<passport, purpose>>

(* _apply_status_code_purpose: empty on the case as loaded.                  *)
FillsPurpose(w, given) == given /\ scan[w].purpose = Blank

ConfirmSave(w, given) ==
    LET c == Paper(w).file IN
    /\ scan[w].at = "confirming"
    /\ purpose' = IF FillsPurpose(w, given) THEN [purpose EXCEPT ![c] = "paper"] ELSE purpose
    /\ scan' = [IF FillsPurpose(w, given)
                THEN Outdate("purpose", {v \in Scanners \ {w} : scan[v].at # "idle" /\ sheet[scan[v].sheet].file = c})
                ELSE scan EXCEPT ![w] = NoScan]
    /\ UNCHANGED <<sheet, passport>>

UploadNext(papers, offered) ==
    \E s \in papers, slot \in Slots :
        \E print \in Prints(slot) :
            /\ <<slot, print>> \in offered
            /\ \E c \in Files, month \in Months0, parse \in BOOLEAN :
                  UploadSheet(s, slot, c, month, print, parse)

QueueNext ==
    \E s \in Sheets : DeleteSheet(s) \/ LoseLease(s) \/ \E w \in Scanners : ClaimSheet(w, s)

ReaderNext ==
    \E w \in Scanners :
        \/ ReadCompany(w) \/ ReadLease(w) \/ ReadPolicy(w) \/ ReadPassport(w) \/ ReadWezwanie(w)
        \/ ReadRegistration(w) \/ ReadMonth(w) \/ AssignMonth(w) \/ FinishSheet(w)

FailureNext == \E w \in Scanners : KeyIsAway(w) \/ Illegible(w)

NumberEntryNext == \E value \in {Blank, "staff"} : EnterPassport(value)

PurposeNext ==
    \/ \E c \in Files, value \in {Blank, "staff"} : EnterPurpose(c, value)
    \/ \E w \in Scanners :
          (\E s \in Sheets : ConfirmRead(w, s)) \/ (\E given \in BOOLEAN : ConfirmSave(w, given))

RecognitionNext ==
    \/ UploadNext(Sheets, {p \in Slots \X UNION {Prints(slot) : slot \in Slots} : p[2] \in Prints(p[1])})
    \/ QueueNext \/ ReaderNext \/ FailureNext
    \/ NumberEntryNext \/ PurposeNext

RecognitionSpec == RecognitionInit /\ [][RecognitionNext]_recognitionVars

-----------------------------------------------------------------------------
(* What the staff typed gives way to what was read off a paper only where a  *)
(* reader or a confirmation had loaded the row before it was typed: nothing  *)
(* locks or versions the client or the case while a paper is being read      *)
(* (document_job_processors.py:236-241, document_workflow_wezwanie.py:115).  *)
StaffEntriesStand ==
    [][/\ passport = "staff" /\ passport' = "paper" =>
             \E w \in Scanners : scan[w].form = "passport" /\ scan'[w] # scan[w]
                                 /\ "passport" \in scan[w].behind
       /\ \A c \in Files : purpose[c] = "staff" /\ purpose'[c] = "paper" =>
             \E w \in Scanners : scan[w].at = "confirming" /\ scan'[w] # scan[w]
                                 /\ "purpose" \in scan[w].behind]_recognitionVars

ReportsStandAlone ==
    \A s, r \in Sheets :
        /\ s # r /\ sheet[s].live /\ sheet[r].live
        /\ sheet[s].slot = "rca" /\ sheet[r].slot = "rca"
        /\ sheet[s].file = sheet[r].file
        => sheet[s].month = Blank \/ sheet[s].month # sheet[r].month

RegistrationHasNoMonth ==
    \A s \in Sheets : sheet[s].read = "success" /\ sheet[s].print = "registration"
                      => sheet[s].month = Blank

(* No two live reports of a case are for one month; a registration form that *)
(* was read in a report's place has none; and the month a stored payload     *)
(* calls the saved one is the month of the row, unless a second reader of    *)
(* the paper wrote it (document.py:255-263, document_workflow_zus.py:75-109, *)
(* document_job_processors.py:463-486).                                      *)
MonthsAreTrue ==
    /\ [](ReportsStandAlone /\ RegistrationHasNoMonth)
    /\ [][\A w \in Scanners :
             scan[w].at = "finish" /\ scan'[w].at = "idle" /\ "month" \notin scan[w].behind
             => sheet'[scan[w].sheet].told = sheet'[scan[w].sheet].month]_recognitionVars
=============================================================================
