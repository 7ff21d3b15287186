------------------------------ MODULE Attention ------------------------------
(***************************************************************************)
(* What the staff is told of one client, and where: the alerts and the     *)
(* checks of the client's page (clients/models/_client_health.py), the     *)
(* counted filters of the navigation bar (clients/services/attention.py)   *)
(* and the list of the working day (clients/services/workday.py).  Each    *)
(* asks its own questions of the same rows: some of the one open case,     *)
(* some of every case, some of the number and some of its hash.            *)
(*                                                                         *)
(* A view is the set of the kinds of trouble it shows.  The handlers here  *)
(* are those that change what a view reads; each is one transaction.       *)
(***************************************************************************)
EXTENDS Naturals, FiniteSets

CONSTANT NumDossiers   \* case ids of the client

ASSUME AttentionAssumption == NumDossiers \in Nat \ {0}

VARIABLES
    person,    \* the columns and e-mails of the client the views read
    dossier    \* the cases with the rows filed under them

attentionVars == <<person, dossier>>

Dossiers == 1..NumDossiers

(* Dates count only against today: missing, within the warning, beyond it.  *)
Until == {"none", "near", "far"}

Person == [basis: Until, appointment: BOOLEAN, failed: BOOLEAN,
           erasure: {"none", "running", "closing", "late"}]

(* number and hash are whether the two columns are filled; "numbered" is a  *)
(* new card whose number the client gave; task is the open automatic task   *)
(* "case_number_missing" by its title, late once its date is past.          *)
Dossier == [state: {"none", "open", "archived"},
            stage: {"document_collection", "waiting_decision", "closed"},
            submitted: BOOLEAN, prints: {"none", "held", "owes_zus"},
            number: BOOLEAN, hash: BOOLEAN, mos: BOOLEAN, stay: Until,
            card: {"none", "no", "yes", "numbered"}, wezwanie: BOOLEAN,
            paper: {"none", "valid", "expiring", "expired"}, awaiting: BOOLEAN,
            unpaid: BOOLEAN, task: {"none", "ask", "check"}, late: BOOLEAN]

NewDossier == [state |-> "none", stage |-> "document_collection", submitted |-> FALSE,
               prints |-> "none", number |-> FALSE, hash |-> FALSE, mos |-> FALSE,
               stay |-> "none", card |-> "none", wezwanie |-> FALSE, paper |-> "none",
               awaiting |-> FALSE, unpaid |-> FALSE, task |-> "none", late |-> FALSE]

AttentionTypeOK ==
    /\ person \in Person
    /\ dossier \in [Dossiers -> Dossier]

-----------------------------------------------------------------------------
(* What the views ask *)

Filed == {d \in Dossiers : dossier[d].state # "none"}
OpenDossiers == {d \in Dossiers : dossier[d].state = "open"}

(* resolve_single_active_case: the one open case, none when several are. *)
Single == Cardinality(OpenDossiers) = 1
TheCase == CHOOSE d \in OpenDossiers : TRUE

Numbered == Single /\ dossier[TheCase].number
Held == Single /\ dossier[TheCase].prints # "none"
OwesZus == Single /\ dossier[TheCase].stage = "waiting_decision"
                  /\ dossier[TheCase].prints = "owes_zus"

(* Several open cases, or none, read as a new client. *)
EffectiveStage == IF Single THEN dossier[TheCase].stage ELSE "new_client"

HasSubmittedCase ==
    \E d \in OpenDossiers : dossier[d].submitted \/ dossier[d].stage # "document_collection"

LegalStay ==
    IF person.basis # "none" THEN person.basis
    ELSE IF Single THEN dossier[TheCase].stay ELSE "none"

Shown(kind, reason) == IF reason THEN {kind} ELSE {}

(* with_health_stats counts rows of the client, whatever case they are in. *)
HealthStats ==
    LET rows == Filed IN
    Shown("ocr", \E d \in rows : dossier[d].awaiting)
    \union Shown("expired", \E d \in rows : dossier[d].paper = "expired")
    \union Shown("expiring", \E d \in rows : dossier[d].paper = "expiring")
    \union Shown("payments", \E d \in rows : dossier[d].unpaid)
    \union Shown("tasks", \E d \in rows : dossier[d].task # "none" /\ dossier[d].late)

-----------------------------------------------------------------------------
(* The alerts of the client's page *)

StayAlert ==
    Shown("legal_stay",
          /\ EffectiveStage \in {"new_client", "document_collection"}
          /\ ~HasSubmittedCase
          /\ LegalStay = "near")

(* A letter of the authority is looked at with its own case. *)
WezwanieAlert ==
    Shown("wezwanie", \E d \in Filed : dossier[d].wezwanie /\ ~dossier[d].number)

(* The new card only when the client has exactly one MOS record. *)
NewCardAlert ==
    Shown("new_card",
          LET records == {d \in Filed : dossier[d].mos}
          IN  /\ Cardinality(records) = 1
              /\ \A d \in records : dossier[d].card \in {"yes", "numbered"}
              /\ ~Numbered)

HearingAlerts ==
    Shown("letter", Held /\ ~person.appointment) \union Shown("zus", OwesZus)

ErasureAlert == Shown("erasure", person.erasure \in {"closing", "late"})

Alerts == HealthStats \union StayAlert \union WezwanieAlert \union NewCardAlert
              \union HearingAlerts \union ErasureAlert
              \union Shown("emails", person.failed)

-----------------------------------------------------------------------------
(* The checks of the client's page: those that are not green *)

StayCheck == Shown("legal_stay", ~HasSubmittedCase /\ LegalStay # "far")

PaperChecks ==
    (HealthStats \intersect {"ocr", "payments", "tasks"})
    \union Shown("validity", HealthStats \intersect {"expired", "expiring"} # {})

NumberCheck == Shown("number", ~Numbered /\ \E d \in Filed : dossier[d].wezwanie)

OpenChecks == StayCheck \union PaperChecks \union NumberCheck \union HearingAlerts
                  \union ErasureAlert

(* The check an alert belongs to, for the kinds that have one. *)
CheckOf == [legal_stay |-> "legal_stay", ocr |-> "ocr", expired |-> "validity",
            expiring |-> "validity", payments |-> "payments", tasks |-> "tasks",
            letter |-> "letter", zus |-> "zus", erasure |-> "erasure"]

-----------------------------------------------------------------------------
(* The counted filters of the navigation bar *)

(* Joined over every case of the client, the archived ones included. *)
StayBadge ==
    Shown("legal_stay",
          /\ \E d \in Filed : dossier[d].stage = "document_collection" /\ ~dossier[d].submitted
          /\ \/ person.basis = "near"
             \/ person.basis = "none" /\ \E d \in Filed : dossier[d].stay = "near")

NumberBadges ==
    Shown("wezwanie", \E d \in Filed : dossier[d].wezwanie /\ ~dossier[d].hash)
    \union Shown("new_card",
                 /\ \E d \in Filed : ~dossier[d].hash
                 /\ \E d \in Filed : dossier[d].card \in {"yes", "numbered"})

LetterBadge ==
    Shown("letter", ~person.appointment /\ \E d \in Filed : dossier[d].prints # "none")

(* The filters repeat the conditions of with_health_stats for themselves. *)
PaperBadges ==
    Shown("expired", \E d \in Filed : dossier[d].paper = "expired")
    \union Shown("expiring", \E d \in Filed : dossier[d].paper = "expiring")
    \union Shown("ocr", \E d \in Filed : dossier[d].awaiting)

DebtBadges ==
    Shown("payments", \E d \in Filed : dossier[d].unpaid)
    \union Shown("tasks", \E d \in Filed : dossier[d].task # "none" /\ dossier[d].late)

Badges == PaperBadges \union DebtBadges \union StayBadge \union NumberBadges \union LetterBadge
              \union Shown("emails", person.failed)

-----------------------------------------------------------------------------
(* The list of the working day: rows of open cases only *)

WorkdayRows ==
    Shown("tasks", \E d \in OpenDossiers : dossier[d].task # "none" /\ dossier[d].late)
    \union Shown("payments", \E d \in OpenDossiers : dossier[d].unpaid)
    \union Shown("zus", \E d \in OpenDossiers :
                    dossier[d].stage = "waiting_decision" /\ dossier[d].prints = "owes_zus")

WorkdayNewCards ==
    Shown("new_card",
          \E d \in OpenDossiers : dossier[d].card \in {"yes", "numbered"} /\ ~dossier[d].hash)

Workday == WorkdayRows \union WorkdayNewCards

(* _is_stay_expiring_soon puts every entry of the client first. *)
Urgent ==
    /\ ~(Single /\ dossier[TheCase].stage = "closed")
    /\ LegalStay = "near"

-----------------------------------------------------------------------------
(* Cases *)

AttentionInit ==
    /\ person = [basis |-> "none", appointment |-> FALSE, failed |-> FALSE,
                 erasure |-> "none"]
    /\ dossier = [d \in Dossiers |->
                     IF d = 1 THEN [NewDossier EXCEPT !.state = "open"] ELSE NewDossier]

Change(d, row) == dossier' = [dossier EXCEPT ![d] = row] /\ UNCHANGED person

(* The row after Case.save, which refreshes the hash when the number is      *)
(* among the saved columns, and closes the task of a case with a number      *)
(* whatever was saved.                                                       *)
Saved(row, numberSaved) ==
    [row EXCEPT !.hash = IF numberSaved THEN row.number ELSE @,
                !.task = IF row.number THEN "none" ELSE @,
                !.late = IF row.number THEN FALSE ELSE @]

\* fault: the versioned update leaves the hash of the number as it was
LockedStale(row) == row

(* The row after the versioned UPDATE, which bypasses Case.save: it sets the *)
(* hash itself and closes no task.                                           *)
Locked(row) == [row EXCEPT !.hash = row.number]

CreateDossier(d, numbered) ==
    /\ dossier[d].state = "none"
    /\ \A e \in Dossiers : e < d => dossier[e].state # "none"
    /\ Change(d, Saved([NewDossier EXCEPT !.state = "open", !.number = numbered], TRUE))

ArchiveDossier(d) ==
    /\ dossier[d].state = "open"
    /\ Change(d, Saved([dossier[d] EXCEPT !.state = "archived"], FALSE))

RestoreDossier(d) ==
    /\ dossier[d].state = "archived"
    /\ Change(d, Saved([dossier[d] EXCEPT !.state = "open"], FALSE))

(* The case form; it is offered for an archived case too. *)
EditDossier(d, stage, submitted) ==
    /\ d \in Filed
    /\ Change(d, Locked([dossier[d] EXCEPT !.stage = stage, !.submitted = submitted]))

EditNumber(d, numbered) ==
    /\ d \in Filed
    /\ Change(d, Locked([dossier[d] EXCEPT !.number = numbered]))

-----------------------------------------------------------------------------
(* Stay *)

SetBasis(until) ==
    /\ person' = [person EXCEPT !.basis = until]
    /\ UNCHANGED dossier

(* The client's questionnaire exists from the first visit of its case's link. *)
OpenQuestionnaire(d) ==
    /\ dossier[d].state = "open"
    /\ ~dossier[d].mos
    /\ Change(d, [dossier[d] EXCEPT !.mos = TRUE])

AnswerStay(d, until) ==
    /\ dossier[d].state = "open" /\ dossier[d].mos
    /\ Change(d, [dossier[d] EXCEPT !.stay = until])

StayNext ==
    \/ \E until \in Until : SetBasis(until)
    \/ \E d \in Dossiers, until \in Until : AnswerStay(d, until)
    \/ \E d \in Dossiers, stage \in {"document_collection", "waiting_decision", "closed"},
          submitted \in BOOLEAN : EditDossier(d, stage, submitted)

-----------------------------------------------------------------------------
(* Numbers *)

UploadWezwanie(d) ==
    /\ dossier[d].state = "open"
    /\ Change(d, [dossier[d] EXCEPT !.wezwanie = TRUE])

(* What is read from a letter, or confirmed by the staff, is saved with the  *)
(* case in the named columns.                                                *)
ReadNumber(d) ==
    /\ dossier[d].state = "open" /\ dossier[d].wezwanie
    /\ Change(d, Saved([dossier[d] EXCEPT !.number = TRUE], TRUE))

(* The client's answer on a new card, with the task for it: a new one unless *)
(* one is open, whose title follows the latest number the client gave.       *)
AnswerNewCard(d, card) ==
    /\ dossier[d].state = "open" /\ dossier[d].mos
    /\ LET task == CASE card = "numbered" -> "check"
                      [] card = "yes" /\ dossier[d].task = "none" -> "ask"
                      [] OTHER -> dossier[d].task
       IN  Change(d, [dossier[d] EXCEPT !.card = card, !.task = task])

TaskRunsLate(d) ==
    /\ dossier[d].task # "none"
    /\ Change(d, [dossier[d] EXCEPT !.late = TRUE])

CompleteNumberTask(d) ==
    /\ dossier[d].state = "open" /\ dossier[d].task # "none"
    /\ Change(d, [dossier[d] EXCEPT !.task = "none", !.late = FALSE])

NumberNext ==
    \E d \in Dossiers :
        \/ UploadWezwanie(d) \/ ReadNumber(d) \/ TaskRunsLate(d) \/ CompleteNumberTask(d)
        \/ OpenQuestionnaire(d)
        \/ \E numbered \in BOOLEAN : EditNumber(d, numbered)
        \/ \E card \in {"no", "yes", "numbered"} : AnswerNewCard(d, card)

-----------------------------------------------------------------------------
(* Papers and debts *)

(* A new paper awaits its confirmation when the reader found fields in it. *)
UploadPaper(d, paper, awaiting) ==
    /\ dossier[d].state = "open" /\ dossier[d].paper = "none"
    /\ Change(d, [dossier[d] EXCEPT !.paper = paper, !.awaiting = awaiting])

ConfirmPaper(d) ==
    /\ dossier[d].awaiting
    /\ Change(d, [dossier[d] EXCEPT !.awaiting = FALSE])

DeletePaper(d) ==
    /\ dossier[d].paper # "none"
    /\ Change(d, [dossier[d] EXCEPT !.paper = "none", !.awaiting = FALSE])

(* Days pass: a paper comes within its week, then past its date. *)
PaperAges(d) ==
    /\ dossier[d].paper \in {"valid", "expiring"}
    /\ Change(d, [dossier[d] EXCEPT !.paper = IF @ = "valid" THEN "expiring" ELSE "expired"])

PaymentFallsDue(d) ==
    /\ dossier[d].state = "open"
    /\ Change(d, [dossier[d] EXCEPT !.unpaid = TRUE])

Pay(d) ==
    /\ dossier[d].unpaid
    /\ Change(d, [dossier[d] EXCEPT !.unpaid = FALSE])

DeliveryFails(failed) ==
    /\ person' = [person EXCEPT !.failed = failed]
    /\ UNCHANGED dossier

AskErasure ==
    /\ person.erasure = "none"
    /\ person' = [person EXCEPT !.erasure = "running"]
    /\ UNCHANGED dossier

(* _erasure_deadline_state: 30 days, the last week of them with a warning. *)
ErasureClock ==
    /\ person.erasure \in {"running", "closing"}
    /\ person' = [person EXCEPT !.erasure = IF @ = "running" THEN "closing" ELSE "late"]
    /\ UNCHANGED dossier

DebtNext ==
    \/ \E d \in Dossiers :
          \/ ConfirmPaper(d) \/ DeletePaper(d) \/ PaperAges(d)
          \/ PaymentFallsDue(d) \/ Pay(d)
          \/ \E awaiting \in BOOLEAN : UploadPaper(d, "valid", awaiting)
    \/ \E failed \in BOOLEAN : DeliveryFails(failed)
    \/ AskErasure \/ ErasureClock

-----------------------------------------------------------------------------
(* The hearing and the months of insurance after it *)

SetPrints(d, prints) ==
    /\ d \in Filed
    /\ Change(d, Locked([dossier[d] EXCEPT !.prints = prints]))

(* The appointment letter is logged for the client, whatever case it is for. *)
SendAppointment ==
    /\ \E d \in OpenDossiers : dossier[d].prints # "none"
    /\ person' = [person EXCEPT !.appointment = TRUE]
    /\ UNCHANGED dossier

MonthPasses(d) ==
    /\ dossier[d].prints = "held"
    /\ Change(d, [dossier[d] EXCEPT !.prints = "owes_zus"])

UploadZus(d) ==
    /\ dossier[d].state = "open" /\ dossier[d].prints = "owes_zus"
    /\ Change(d, [dossier[d] EXCEPT !.prints = "held"])

HearingNext ==
    \/ SendAppointment
    \/ \E d \in Dossiers :
          \/ MonthPasses(d) \/ UploadZus(d)
          \/ \E prints \in {"none", "held"} : SetPrints(d, prints)
          \/ \E stage \in {"document_collection", "waiting_decision", "closed"} :
                EditDossier(d, stage, dossier[d].submitted)

CaseNext ==
    \E d \in Dossiers :
        \/ ArchiveDossier(d) \/ RestoreDossier(d)
        \/ \E numbered \in BOOLEAN : CreateDossier(d, numbered)

AttentionNext == CaseNext \/ StayNext \/ NumberNext \/ DebtNext \/ HearingNext

AttentionSpec == AttentionInit /\ [][AttentionNext]_attentionVars

-----------------------------------------------------------------------------
(* Properties *)

BadgeKinds == {"legal_stay", "ocr", "expired", "expiring", "payments", "tasks",
               "emails", "letter", "wezwanie", "new_card"}

(* The badges count every client whose page warns: of papers, debts, tasks  *)
(* and letters always, of the stay and the appointment once a case is open; *)
(* a new card only for a client of one case, since the page asks for the    *)
(* number of "the" case and has none with two.                              *)
AlertsAreCounted(alerts, badges) ==
    /\ alerts \intersect (BadgeKinds \ {"legal_stay", "letter", "new_card"})
         = badges \intersect (BadgeKinds \ {"legal_stay", "letter", "new_card"})
    /\ OpenDossiers # {} => alerts \intersect {"legal_stay", "letter"} \subseteq badges
    /\ Filed = OpenDossiers /\ Single =>
          alerts \intersect BadgeKinds = badges

(* What the day's list shows is counted, and of one case it shows it all. *)
WorkdayIsCounted(listed, alerts, badges) ==
    /\ listed \ {"zus"} \subseteq badges
    /\ Filed = OpenDossiers /\ Single =>
          /\ listed \ {"zus"} = badges \intersect {"tasks", "payments", "new_card"}
          /\ "zus" \in listed <=> "zus" \in alerts

(* No check is green beside its own alert: a letter without a number is the  *)
(* check's business while its case is open.  A stay that is about to end     *)
(* puts the client first.                                                    *)
ChecksFollowAlerts(alerts, checks) ==
    /\ \A kind \in alerts \intersect DOMAIN CheckOf : CheckOf[kind] \in checks
    /\ (\E d \in OpenDossiers : dossier[d].wezwanie /\ ~dossier[d].number)
          => "number" \in checks
    /\ "legal_stay" \in alerts => Urgent

(* The same rows give the same news wherever the staff looks (build_health_  *)
(* alerts, build_automatic_checks, apply_client_attention_filter and         *)
(* build_workday_context), as far as each of them can know.                  *)
ViewsAgree ==
    /\ AlertsAreCounted(Alerts, Badges)
    /\ WorkdayIsCounted(Workday, Alerts, Badges)
    /\ ChecksFollowAlerts(Alerts, OpenChecks)
=============================================================================
