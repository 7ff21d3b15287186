------------------------------- MODULE MCCases -------------------------------
(***************************************************************************)
(* The life of a case, for TLC: its archive, its stages, its employer,     *)
(* what the staff is told of it, what is read off its papers, and the ZUS  *)
(* reports it owes.  They share no state here, so a behaviour is one of    *)
(* one part; the variable part, chosen in Init, says of which.  Attention  *)
(* has four parts, one for each group of rows its views read; Recognition  *)
(* has three: two reports of one client, one paper of any kind beside the  *)
(* number the staff types, and one wezwanie beside the purpose it types.   *)
(* Employers has two: the history, with forms that name any employer, and  *)
(* the proposals of one employer from every source.                        *)
(***************************************************************************)
EXTENDS Archive, CaseStages, Employers, Attention, Recognition, ZusMonths

VARIABLE part

deskVars == <<archiveVars, stagesVars, employersVars, attentionVars>>
paperVars == <<recognitionVars, zusVars>>
caseVars == <<deskVars, paperVars, part>>

Desks == {"stay", "numbers", "debts", "hearing"}
Scans == {"reports", "papers", "summons"}
Offices == {"history", "proposals"}

MCMonth(y, m) == [year |-> y, month |-> m]
MCDecember == MCMonth(2025, 12)
MCZusPapers == {<<"rca", MCMonth(2025, 11)>>, <<"rca", MCMonth(2026, 1)>>,
                <<"policy", MCMonth(2025, 11)>>, <<"policy", MCMonth(2025, 12)>>}

ASSUME SomeSheet == Sheets # {}
OneSheet == {CHOOSE s \in Sheets : TRUE}

ASSUME SomeCompany == Companies # {}
OneCompany == {CHOOSE e \in Companies : TRUE}

Init ==
    /\ ArchiveInit
    /\ StagesInit
    /\ EmployersInit
    /\ AttentionInit
    /\ RecognitionInit
    /\ ZusInit
    /\ part \in {"archive", "stages", "zus"} \union Offices \union Desks \union Scans
    /\ part \notin Offices => company = NoCompany

DeskNext ==
    \/ /\ part = "archive" /\ ArchiveNextStep
       /\ UNCHANGED <<stagesVars, employersVars, attentionVars>>
    \/ /\ part = "stages" /\ StagesNext
       /\ UNCHANGED <<archiveVars, employersVars, attentionVars>>
    \/ /\ part \in Offices
       /\ \/ OfficeStep
          \/ \E r \in Readers :
                \/ part = "history" /\ (HistoryStep(r) \/ ProposalStep(r, {Form} \X Companies))
                \/ part = "proposals" /\ ProposalStep(r, Sources \X OneCompany)
       /\ UNCHANGED <<archiveVars, stagesVars, attentionVars>>
    \/ /\ \/ part \in Desks /\ CaseNext
          \/ part = "stay" /\ (StayNext \/ \E d \in Dossiers : OpenQuestionnaire(d))
          \/ part = "numbers" /\ NumberNext
          \/ part = "debts" /\ DebtNext
          \/ part = "hearing" /\ HearingNext
       /\ UNCHANGED <<archiveVars, stagesVars, employersVars>>

PaperNext ==
    \/ /\ part = "zus" /\ ZusNext
       /\ UNCHANGED recognitionVars
    \/ /\ \/ part = "reports" /\ UploadNext(Sheets, {"rca"} \X ({"registration"} \union Months))
          \/ part = "papers" /\ UploadNext(OneSheet, ((Slots \ {"wezwanie"}) \X {"blurred", "plain", "number", "policy", "report"})
                                                     \union ({"history"} \X Months))
          \/ part = "papers" /\ NumberEntryNext
          \/ part = "summons" /\ UploadNext(OneSheet, {"wezwanie"} \X {"blurred", "plain", "number"})
          \/ part = "summons" /\ PurposeNext
          \/ part \in Scans /\ (QueueNext \/ ReaderNext)
          \/ part \in {"papers", "summons"} /\ FailureNext
       /\ UNCHANGED zusVars

Next ==
    /\ UNCHANGED part
    /\ \/ DeskNext /\ UNCHANGED paperVars
       \/ PaperNext /\ UNCHANGED deskVars

Spec == Init /\ [][Next]_caseVars

(* Every request on the archive is run to its end. *)
ArchiveFairness ==
    \A w \in Clerks :
        SF_caseVars(/\ part = "archive" /\ Continue(w)
                    /\ UNCHANGED <<stagesVars, employersVars, attentionVars, paperVars, part>>)

FairSpec == Spec /\ ArchiveFairness

(* The rows of the parts have their types (models/case.py, models/task.py,   *)
(* models/employer.py, models/document.py).                                  *)
TypeOK ==
    /\ ArchiveTypeOK /\ StagesTypeOK /\ EmployersTypeOK /\ AttentionTypeOK
    /\ RecognitionTypeOK /\ ZusTypeOK
=============================================================================
