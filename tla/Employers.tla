------------------------------ MODULE Employers ------------------------------
(***************************************************************************)
(* The employer of one work case: proposals from the case form, the        *)
(* questionnaire and read documents, the decisions of the staff about      *)
(* them, and the history of confirmed employers                            *)
(* (clients/services/employers.py).                                        *)
(***************************************************************************)
EXTENDS Naturals, FiniteSets

CONSTANTS
    Companies,   \* the employers that can be proposed
    Documents,   \* source documents; a proposal may also come without one
    Readers,     \* requests and workers that propose at the same time
    Offered,     \* the decisions the staff takes
    NoCompany, Form

Decisions == {"confirmed", "same", "ocr_error", "needs_info", "deferred"}

ASSUME EmployersAssumption ==
    /\ NoCompany \notin Companies
    /\ Form \notin Documents
    /\ Offered \subseteq Decisions

VARIABLES
    company,     \* Case.company
    assigned,    \* the company of the active CaseEmployerAssignment
    standing,    \* the case is at work, closed (or of another purpose), or archived
    candidates,  \* EmployerChangeCandidate by its fingerprint: source, employer
    reviews,     \* the sources with an open "employer_review" task
    reader,      \* what each reader is about to do, and on what it has read
    drift,       \* the history was left out, left behind or written from an old case
    twins        \* employers proposed twice by overlapping readers

employersVars == <<company, assigned, standing, candidates, reviews, reader, drift, twins>>

Sources == Documents \union {Form}

Unresolved == {"pending", "needs_info", "deferred"}

(* A reader holds the company of the case as it was loaded, to compare and   *)
(* perhaps to write into the history; or its proposal.                       *)
Idle == [at |-> "idle"]
Reading == [at : {"loaded"}, case : Companies \union {NoCompany}]
Writing == [at : {"ending", "creating"}, case : Companies]
Proposing == [at : {"proposing"}, source : Sources, employer : Companies]

EmployersTypeOK ==
    /\ company \in Companies \union {NoCompany}
    /\ assigned \in Companies \union {NoCompany}
    /\ standing \in {"work", "closed", "archived"}
    /\ candidates \in [Sources \X Companies -> Decisions \union {"absent", "pending"}]
    /\ reviews \in SUBSET Sources
    /\ reader \in [Readers -> {Idle} \union Reading \union Writing \union Proposing]
    /\ drift \in BOOLEAN
    /\ twins \in SUBSET Companies

UnresolvedOf(e) == {s \in Sources : candidates[<<s, e>>] \in Unresolved}

(* create_auto_task: an open task blocks another one for the same document; *)
(* without a document any open task of the kind does.                       *)
WithTask(s) == IF s = Form /\ reviews # {} THEN reviews ELSE reviews \union {s}

(* close_auto_task: without a document it closes all tasks of the kind. *)
WithoutTask(s) == IF s = Form THEN {} ELSE reviews \ {s}

(* A case made with the form gets its first assignment there; one made from  *)
(* its client or by the intake has a company and no history.                 *)
EmployersInit ==
    /\ company \in Companies \union {NoCompany}
    /\ assigned \in {company, NoCompany}
    /\ standing = "work"
    /\ candidates = [c \in Sources \X Companies |-> "absent"]
    /\ reviews = {}
    /\ reader = [r \in Readers |-> Idle]
    /\ drift = (assigned # company)
    /\ twins = {}

-----------------------------------------------------------------------------
(* propose_employer, before the lock, on the case as its caller has loaded   *)
(* it: with a job's document, the questionnaire, a review page or the form.  *)

Goes(r, step) == reader' = [reader EXCEPT ![r] = step]

(* A case out of work returns at once, so it need not be loaded. *)
LoadCase(r) ==
    /\ reader[r] = Idle
    /\ standing = "work"
    /\ Goes(r, [at |-> "loaded", case |-> company])
    /\ UNCHANGED <<company, assigned, standing, candidates, reviews, drift, twins>>

Loaded(r) == reader[r].at = "loaded"

(* ensure_assignment, for the employer of the loaded case: the active row is *)
(* read, without a lock or a transaction, and left alone if it names him.    *)
ProposeKnown(r) ==
    /\ Loaded(r) /\ reader[r].case # NoCompany
    /\ Goes(r, IF assigned = reader[r].case THEN Idle
               ELSE [at |-> IF assigned = NoCompany THEN "creating" ELSE "ending",
                     case |-> reader[r].case])
    /\ UNCHANGED <<company, assigned, standing, candidates, reviews, drift, twins>>

(* Who is about to end the row that has just been ended only has the new one *)
(* left to write.                                                            *)
RowEnded(readers) ==
    [r \in Readers |-> IF readers[r].at = "ending" THEN [readers[r] EXCEPT !.at = "creating"] ELSE readers[r]]

(* The case has another company by now than the one loaded. *)
Overtaken(r) == reader[r].case # company

EndActive(r) ==
    /\ reader[r].at = "ending"
    /\ assigned' = NoCompany
    /\ drift' = (company # NoCompany /\ (drift \/ Overtaken(r)))
    /\ reader' = RowEnded(reader)
    /\ UNCHANGED <<company, standing, candidates, reviews, twins>>

(* One active row per case: the database refuses a second. *)
CreateAssignment(r) ==
    /\ reader[r].at = "creating"
    /\ IF assigned = NoCompany
       THEN assigned' = reader[r].case /\ drift' = Overtaken(r)
       ELSE UNCHANGED <<assigned, drift>>
    /\ Goes(r, Idle)
    /\ UNCHANGED <<company, standing, candidates, reviews, twins>>

(* An undecided candidate is enough, a paper may name nobody, and a process  *)
(* may end between two statements.                                           *)
Stops(r) ==
    /\ reader[r] # Idle
    /\ Goes(r, Idle)
    /\ UNCHANGED <<company, assigned, standing, candidates, reviews, drift, twins>>

\* fault: the undecided candidates are not looked at
WantedAgain(r, e) == reader[r].case # e

(* Another employer than the loaded case has, with no undecided candidate. *)
Wanted(r, e) == reader[r].case # e /\ UnresolvedOf(e) = {}

ProposeRead(r, s, e) ==
    /\ Loaded(r)
    /\ Wanted(r, e)
    /\ Goes(r, [at |-> "proposing", source |-> s, employer |-> e])
    /\ UNCHANGED <<company, assigned, standing, candidates, reviews, drift, twins>>

(* Under the lock of the case: the case is looked at again, the candidates *)
(* of other sources are not; get_or_create on the fingerprint.  What this    *)
(* transaction or a review's finds written beside it undoes it whole.        *)
ProposeInsert(r) ==
    LET s == reader[r].source
        e == reader[r].employer
    IN
    /\ reader[r].at = "proposing"
    /\ IF standing = "work" /\ company = e
       THEN assigned' = e /\ drift' = FALSE
       ELSE UNCHANGED <<assigned, drift>>
    /\ reader' = [(IF assigned' = assigned THEN reader ELSE RowEnded(reader)) EXCEPT ![r] = Idle]
    /\ IF standing = "work" /\ company # e /\ candidates[<<s, e>>] = "absent"
       THEN /\ candidates' = [candidates EXCEPT ![<<s, e>>] = "pending"]
            /\ reviews' = WithTask(s)
            /\ twins' = IF \E q \in Readers \ {r} : reader[q].at = "proposing" /\ reader[q].employer = e
                        THEN twins \union {e} ELSE twins
       ELSE UNCHANGED <<candidates, reviews, twins>>
    /\ UNCHANGED <<company, standing>>

-----------------------------------------------------------------------------
(* The staff.                                                               *)

(* review_employer_candidate, with the candidate and the case locked. *)
Reviewable(s, e, decision) ==
    /\ candidates[<<s, e>>] \in Unresolved
    /\ standing # "archived"
    /\ decision = "confirmed" => standing = "work"
    /\ decision = "same" => company # NoCompany

Review(s, e, decision) ==
    /\ Reviewable(s, e, decision)
    /\ candidates' = [candidates EXCEPT ![<<s, e>>] = decision]
    /\ IF decision = "confirmed"
       THEN company' = e /\ assigned' = e /\ drift' = FALSE /\ reader' = RowEnded(reader)
       ELSE UNCHANGED <<company, assigned, drift, reader>>
    /\ reviews' = IF decision \in {"needs_info", "deferred"} THEN reviews ELSE WithoutTask(s)
    /\ UNCHANGED <<standing, twins>>

(* CaseUpdateView saves the company.  The "previous" company is read from    *)
(* the instance the form has already filled in, so ensure_assignment is not  *)
(* reached (if the company changes again before the case is read back, the   *)
(* request goes on as a reader); ensure_employer_capture_task at the end.    *)
SaveCaseForm(c) ==
    /\ company' = c
    /\ drift' = (assigned # c)
    /\ reviews' = IF standing = "work" /\ c = NoCompany THEN WithTask(Form) ELSE reviews
    /\ UNCHANGED <<assigned, standing, candidates, reader, twins>>

(* The stage, the purpose or the archive flag of the case changes. *)
CaseChanges ==
    /\ standing' \in {"work", "closed", "archived"} \ {standing}
    /\ UNCHANGED <<company, assigned, candidates, reviews, reader, drift, twins>>

HistoryStep(r) == ProposeKnown(r) \/ EndActive(r) \/ CreateAssignment(r)

ProposalStep(r, named) ==
    \/ LoadCase(r) \/ ProposeInsert(r) \/ Stops(r)
    \/ \E s \in Sources, e \in Companies : <<s, e>> \in named /\ ProposeRead(r, s, e)

OfficeStep ==
    \/ \E s \in Sources, e \in Companies, decision \in Offered : Review(s, e, decision)
    \/ \E c \in Companies \union {NoCompany} : SaveCaseForm(c)
    \/ CaseChanges

EmployersNext ==
    \/ \E r \in Readers : HistoryStep(r) \/ ProposalStep(r, Sources \X Companies)
    \/ OfficeStep

EmployersSpec == EmployersInit /\ [][EmployersNext]_employersVars

-----------------------------------------------------------------------------
(* The staff has one undecided candidate per employer, however many sources  *)
(* name it, unless two sources were read at the same time; and the history's *)
(* active row departs from the company of the case only by a case made       *)
(* without one, by the case form, or by a reader writing the company of a    *)
(* case that has another one by now: what the staff confirms is in both, and *)
(* readers that overlap on the current case, stop between two statements or  *)
(* are refused by the constraint leave it there (employers.py:33-52, 91-167, *)
(* 198-210, models/employer.py:28-32).                                       *)
OneDecisionPerEmployer ==
    /\ \A e \in Companies : Cardinality(UnresolvedOf(e)) > 1 => e \in twins
    /\ assigned # company => drift
=============================================================================
