----------------------------- MODULE Checklist -----------------------------
(***************************************************************************)
(* Which papers of a client are still missing.  Two builders answer: one   *)
(* for a case (services/case_context.py) and an older one for the whole    *)
(* client (models/_client_checklist.py), of which dashboards, reminders    *)
(* and health alerts read now the one and now the other.                   *)
(*                                                                         *)
(* "form" stands for the documents that a purpose requires, "zus" for the  *)
(* monthly one of which one month may be missing, and "wish" for the type  *)
(* of a document the office asks one client for.                           *)
(***************************************************************************)
EXTENDS Naturals

CONSTANT NumPapers    \* uploaded documents at a time

VARIABLES papers,     \* the rows of Document that are not archived
          wniosek,    \* a submission with the attachments entered in it
          wish,       \* a requirement of this client only
          optional,   \* the catalog says that "form" is not required
          dossiers    \* what the lists read of the cases

checklistVars == <<papers, wniosek, wish, optional, dossiers>>

Types == {"form", "zus", "wish"}
Names == {"form", "other"}              \* what staff enter as attachments
DossierIds == {1, 2}
Purpose == {"work", ""}
ClientPurpose == "work"

Paper == [of : DossierIds, type : Types, status : {"pending", "approved", "rejected", "expired"}]
NoPaper == [type |-> "none"]
Submission == [of : DossierIds, names : SUBSET Names \ {{}}, coded : BOOLEAN]
NoSubmission == [names |-> {}]
Wish == [of : DossierIds, required : BOOLEAN]
NoWish == [of |-> 0]
Dossier == [state : {"none", "open", "archived"}, purpose : Purpose, waiting : BOOLEAN]

ChecklistInit ==
    /\ papers = [i \in 1..NumPapers |-> NoPaper]
    /\ wniosek = NoSubmission
    /\ wish = NoWish
    /\ optional = FALSE
    /\ dossiers = [c \in DossierIds |->
           [state |-> IF c = 1 THEN "open" ELSE "none", purpose |-> IF c = 1 THEN ClientPurpose ELSE "", waiting |-> FALSE]]
-----------------------------------------------------------------------------
(* The two builders. *)

Stored == {papers[i] : i \in DOMAIN papers} \ {NoPaper}
PapersOf(c) == {p \in Stored : p.of = c}
OpenDossiers == {c \in DossierIds : dossiers[c].state = "open"}
SingleActive(c) == OpenDossiers = {c}

(* What the catalog and the built-in list require for a purpose.             *)
RequiredFor(purpose) ==
    IF purpose = "" THEN {} ELSE IF optional THEN {"zus"} ELSE {"form", "zus"}

(* A month is expected and no verified document is for it.                   *)
MissingZusMonths(c) ==
    /\ dossiers[c].waiting
    /\ \A p \in PapersOf(c) : ~(p.type = "zus" /\ p.status = "approved")

(* The code an attachment was stored with, or is read as now.                *)
CodeOf(name, purpose) == IF name = "form" /\ (wniosek.coded \/ purpose # "") THEN "form" ELSE ""
Codes(purpose) == {CodeOf(n, purpose) : n \in wniosek.names} \ {""}
Customs(purpose) == {n \in wniosek.names : CodeOf(n, purpose) = ""}

HasValid(here, code) == \E p \in here : p.type = code /\ p.status \in {"approved", "pending"}
Uploaded(here, code) == \E p \in here : p.type = code

CodeRow(code, here, submitted, missing) ==
    [row |-> code, uploaded |-> Uploaded(here, code), submitted |-> code \in submitted,
     complete |-> ~(code = "zus" /\ missing) /\ (HasValid(here, code) \/ code \in submitted)]
WishRow(here) ==
    [row |-> "requirement", uploaded |-> Uploaded(here, "wish"), submitted |-> FALSE,
     complete |-> HasValid(here, "wish") \/ ~wish.required]
CustomRow(name) == [row |-> name, uploaded |-> FALSE, submitted |-> TRUE, complete |-> TRUE]

\* fault: the case's list counts the submissions of the client
AnySubmission(c) == wniosek # NoSubmission

SubmissionIsOf(c) == wniosek # NoSubmission /\ wniosek.of = c

BuildCaseDocumentChecklist(c) ==
    LET purpose == dossiers[c].purpose
        here == PapersOf(c)
        submitted == IF SubmissionIsOf(c) THEN Codes(purpose) ELSE {}
    IN  {CodeRow(k, here, submitted, MissingZusMonths(c)) :
             k \in RequiredFor(purpose) \cup submitted \cup {p.type : p \in here}}
        \cup {WishRow(here) : w \in {wish} \cap [of : {c}, required : BOOLEAN]}
        \cup {CustomRow(n) : n \in IF SubmissionIsOf(c) THEN Customs(purpose) ELSE {}}

\* fault: the client's list does not look for the code of an attachment again
StoredCodes == IF wniosek # NoSubmission /\ wniosek.coded THEN {"form"} ELSE {}

ClientCodes == IF wniosek # NoSubmission THEN Codes(ClientPurpose) ELSE {}

BuildDocumentChecklist ==
    LET missing == \E c \in DossierIds : SingleActive(c) /\ MissingZusMonths(c)
    IN  {CodeRow(k, Stored, ClientCodes, missing) :
             k \in RequiredFor(ClientPurpose) \cup ClientCodes \cup {p.type : p \in Stored}}
        \cup {WishRow(Stored) : w \in {wish} \ {NoWish}}
        \cup {CustomRow(n) : n \in {n \in wniosek.names : CodeOf(n, ClientPurpose) \notin ClientCodes}}
-----------------------------------------------------------------------------
(* Staff. *)

OnlyPapers == UNCHANGED <<wniosek, wish, optional, dossiers>>

(* The month of a "zus" paper is taken in one case at a time: the form looks *)
(* at the case opened first, the database at the case of the paper.          *)
MonthTaken(c) == \E p \in PapersOf(c) : p.type = "zus"
FirstOpen == CHOOSE c \in OpenDossiers : \A d \in OpenDossiers : c <= d

AddDocument(i, c, type) ==
    /\ papers[i] = NoPaper
    /\ c \in OpenDossiers
    /\ type = "wish" => wish # NoWish
    /\ type = "zus" => ~MonthTaken(FirstOpen) /\ ~MonthTaken(c)
    /\ papers' = [papers EXCEPT ![i] = [of |-> c, type |-> type, status |-> "pending"]]
    /\ OnlyPapers

SetStatus(i, status) ==
    /\ papers[i] # NoPaper
    /\ papers' = [papers EXCEPT ![i].status = IF @ = "expired" THEN @ ELSE status]
    /\ OnlyPapers

ToggleVerification(i) == SetStatus(i, IF papers[i].status = "approved" THEN "pending" ELSE "approved")
RejectPaper(i) == SetStatus(i, "rejected")

PaperExpires(i) ==
    /\ papers[i].type = "form"
    /\ papers' = [papers EXCEPT ![i].status = "expired"]
    /\ OnlyPapers

VerifyAllDocuments ==
    /\ papers' = [i \in DOMAIN papers |->
           IF papers[i] # NoPaper /\ papers[i].status = "pending" THEN [papers[i] EXCEPT !.status = "approved"] ELSE papers[i]]
    /\ OnlyPapers

DeletePaper(i) ==
    /\ papers[i] # NoPaper
    /\ papers' = [papers EXCEPT ![i] = NoPaper]
    /\ OnlyPapers

(* Attachments are matched against the catalog of the case's purpose.        *)
CreateWniosekSubmission(c, names) ==
    /\ SingleActive(c)
    /\ wniosek = NoSubmission
    /\ wniosek' = [of |-> c, names |-> names, coded |-> "form" \in names /\ dossiers[c].purpose # ""]
    /\ UNCHANGED <<papers, wish, optional, dossiers>>

DeleteWniosekAttachment(n) ==
    /\ n \in wniosek.names
    /\ wniosek' = IF wniosek.names = {n} THEN NoSubmission ELSE [wniosek EXCEPT !.names = @ \ {n}]
    /\ UNCHANGED <<papers, wish, optional, dossiers>>

AddClientRequirement(c, required) ==
    /\ SingleActive(c)
    /\ wish = NoWish
    /\ wish' = [of |-> c, required |-> required]
    /\ UNCHANGED <<papers, wniosek, optional, dossiers>>

(* The office's checklist is saved with or without "form".                   *)
SyncDocumentChecklist ==
    /\ optional' = ~optional
    /\ UNCHANGED <<papers, wniosek, wish, dossiers>>

SetDossier(c, dossier) ==
    /\ dossiers[c] # dossier
    /\ dossiers' = [dossiers EXCEPT ![c] = dossier]
    /\ UNCHANGED <<papers, wniosek, wish, optional>>

(* A later case has no purpose until staff choose one.  The first one stays  *)
(* open.                                                                     *)
OpenDossier(c) == dossiers[c].state = "none" /\ SetDossier(c, [dossiers[c] EXCEPT !.state = "open"])
ArchiveDossier(c) == c \in OpenDossiers \ {1} /\ SetDossier(c, [dossiers[c] EXCEPT !.state = "archived"])
RestoreDossier(c) == dossiers[c].state = "archived" /\ SetDossier(c, [dossiers[c] EXCEPT !.state = "open"])
ChoosePurpose(c, purpose) == c \in OpenDossiers /\ SetDossier(c, [dossiers[c] EXCEPT !.purpose = purpose])
AwaitDecision == SetDossier(1, [dossiers[1] EXCEPT !.waiting = TRUE])

ChecklistNext ==
    \/ \E i \in 1..NumPapers :
        \/ \E c \in DossierIds, type \in Types : AddDocument(i, c, type)
        \/ ToggleVerification(i) \/ RejectPaper(i) \/ PaperExpires(i) \/ DeletePaper(i)
    \/ VerifyAllDocuments
    \/ \E c \in DossierIds :
        \/ \E names \in SUBSET Names \ {{}} : CreateWniosekSubmission(c, names)
        \/ \E required \in BOOLEAN : AddClientRequirement(c, required)
        \/ OpenDossier(c) \/ ArchiveDossier(c) \/ RestoreDossier(c)
        \/ \E purpose \in Purpose : ChoosePurpose(c, purpose)
    \/ \E n \in Names : DeleteWniosekAttachment(n)
    \/ SyncDocumentChecklist
    \/ AwaitDecision

ChecklistSpec == ChecklistInit /\ [][ChecklistNext]_checklistVars
-----------------------------------------------------------------------------
ChecklistTypeOK ==
    /\ papers \in [1..NumPapers -> Paper \cup {NoPaper}]
    /\ wniosek \in Submission \cup {NoSubmission}
    /\ wish \in Wish \cup {NoWish}
    /\ optional \in BOOLEAN
    /\ dossiers \in [DossierIds -> Dossier]

(* Nothing of the client belongs to another case.                            *)
AllOf(c) ==
    /\ \A p \in Stored : p.of = c
    /\ SubmissionIsOf(c) \/ wniosek = NoSubmission
    /\ wish.of \in {0, c}

(* As long as a client has one case, of the client's own purpose, and        *)
(* nothing was ever stored with another, the two builders give the same rows,*)
(* complete or not: what the dashboards count as missing is what the case's  *)
(* page shows (build_document_checklist, build_case_document_checklist).     *)
ListsAgree ==
    \A c \in DossierIds :
        SingleActive(c) /\ AllOf(c) /\ dossiers[c].purpose = ClientPurpose
            => BuildDocumentChecklist = BuildCaseDocumentChecklist(c)

(* No row of a case's list is complete, or becomes so, because of something  *)
(* that is stored with another case, so an application is not submitted on   *)
(* the strength of another one's papers (build_case_document_checklist).     *)
NothingBorrowed ==
    \A c \in DossierIds :
        \A r \in BuildCaseDocumentChecklist(c) :
            r.complete =>
                \/ \E p \in PapersOf(c) : /\ p.status \in {"approved", "pending"}
                                         /\ p.type = IF r.row = "requirement" THEN "wish" ELSE r.row
                \/ r.row \in wniosek.names /\ wniosek.of = c
                \/ r.row = "requirement" /\ wish.of = c /\ ~wish.required
=============================================================================
