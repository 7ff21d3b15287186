--------------------------- MODULE Questionnaire ---------------------------
(***************************************************************************)
(* A client's questionnaire for one case: the MOS row, the two ways to it  *)
(* (a link to the case and the portal of an account), the steps of the     *)
(* form, its autosave, and the staff who review it                         *)
(* (views/onboarding_*.py, views/admin_mos_review.py).                     *)
(*                                                                         *)
(* A request reads its rows when it comes in and writes when it goes out,  *)
(* without a transaction over the two.  A prompt request answers from the  *)
(* rows as they are; a slow one, of which one is open at a time, from the  *)
(* rows it read.  Two requests that overlap are a slow one around a prompt *)
(* one, whichever of the two wrote last.  Most handlers write whole rows.  *)
(***************************************************************************)
EXTENDS Naturals, FiniteSets

CONSTANTS Answers,    \* what a client may fill into a section
          Purposes,   \* the purposes a client may select
          AfterReview, \* the stages after the review that a run tells apart
          MaxLinks    \* bound on the links staff generate

ASSUME QuestionnaireAssumption ==
    /\ MaxLinks \in Nat
    /\ AfterReview \subseteq {"submitted_in_mos", "fingerprints", "waiting_decision", "decision_received"}

Blank == "blank"

VARIABLES mos,      \* the MOS row of the case
          client,   \* the client row
          case,     \* the case row
          link,     \* the session of the last link
          portal,   \* the session of the account's portal
          slow,     \* the request that is under way
          links

questionnaireVars == <<mos, client, case, link, portal, slow, links>>

Editable == {"draft", "client_filling", "needs_correction"}
DocumentsEditable ==
    Editable \cup {"client_completed", "staff_review", "submitted_in_mos", "fingerprints", "waiting_decision"}
MosStatus == DocumentsEditable \cup {"mos_package_ready", "decision_received", "closed"}
\* an autosave leaves these alone
Filled == MosStatus \ Editable

Sections == {"personal", "address"}
Mos == [status : MosStatus, personal : Answers \cup {Blank}, address : Answers \cup {Blank},
        purpose : Purposes \cup {Blank}, confirmed : BOOLEAN]
NewMos == [status |-> "draft", personal |-> Blank, address |-> Blank, purpose |-> Blank, confirmed |-> FALSE]
Client == [card : Answers \cup {Blank}, archived : BOOLEAN, user : BOOLEAN]
SessionStatus == {"none", "created", "active", "completed"}
Via == {"link", "portal"}
Idle == [for |-> "nobody"]

QuestionnaireInit ==
    /\ mos = NewMos
    /\ client = [card |-> Blank, archived |-> FALSE, user |-> FALSE]
    /\ case = [purpose |-> Blank, archived |-> FALSE]
    /\ link = [status |-> "none", live |-> FALSE]
    /\ portal = "none"
    /\ slow = Idle
    /\ links = 0
-----------------------------------------------------------------------------
(* Who gets in. *)

Reachable == ~client.archived /\ ~case.archived

(* The link of a completed form opens its review and nothing else.          *)
LinkOpens(allowed) == link.live /\ link.status \in allowed /\ Reachable

CheckOnboardingSession == LinkOpens({"created", "active"})

(* The portal finds its session by scope: completed or not, and makes a new  *)
(* one when there is none that lives.  Its single case is selected for it.   *)
CheckPortalSession == client.user /\ Reachable

\* staff need no account of the client's
CheckClientAuth == \E staff \in BOOLEAN : staff \/ client.user

(* Coming in leaves the session in the state s. *)
EnterAs(via, s) ==
    \/ /\ via = "link" /\ CheckOnboardingSession /\ CheckClientAuth
       /\ link' = [link EXCEPT !.status = s]
       /\ UNCHANGED portal
    \/ /\ via = "portal" /\ CheckPortalSession
       /\ portal' = IF portal = "completed" THEN portal ELSE s
       /\ UNCHANGED link

Enter(via) == EnterAs(via, "active")

(* Setting the password is open to whoever holds the link. *)
SetPassword(a) ==
    /\ CheckOnboardingSession
    /\ client' = [client EXCEPT !.card = a, !.user = TRUE]
    /\ link' = [link EXCEPT !.status = "active"]
    /\ UNCHANGED <<mos, case, portal, slow, links>>
-----------------------------------------------------------------------------
(* The steps: what a handler makes of the row it holds, row, and of the row  *)
(* that is stored, cur.  A whole-row save stores row; one with a list of     *)
(* fields changes those of cur.                                              *)

Started(row, cur) == IF row.status = "draft" THEN "client_filling" ELSE cur.status

SaveContactValues(row, cur, a) ==
    [cur EXCEPT !.personal = a, !.status = Started(row, cur)]

SaveOnboardingPurpose(row, cur, p) ==
    [cur EXCEPT !.purpose = p, !.status = Started(row, cur)]

\* only empty fields are filled from the passport that was read, on a fresh row
PreFillFromOcr(cur, a) == IF cur.personal = Blank THEN [cur EXCEPT !.personal = a] ELSE cur

OnboardingPassport(row, a) == [row EXCEPT !.personal = a, !.status = "client_filling"]
OnboardingPersonalExtra(row, a) == [row EXCEPT !.personal = a]
OnboardingAddress(row, a) == [row EXCEPT !.address = a]
OnboardingTravel(row, a, p) == [row EXCEPT !.personal = a, !.purpose = p]
SaveAndReturn(row) == [row EXCEPT !.status = Started(row, row)]
CompleteDeclarations(row) == [row EXCEPT !.status = "client_completed", !.confirmed = TRUE]

OnboardingAutoSave(row, s, a) ==
    [row EXCEPT ![s] = a, !.status = IF @ \in Filled THEN @ ELSE "client_filling"]
-----------------------------------------------------------------------------
(* A request that holds the rows m and c writes. *)

FormAnswers(m, c) ==
    \/ \E a \in Answers :
        \/ mos' = SaveContactValues(m, mos, a) /\ client' = [client EXCEPT !.card = a]
        \/ mos' = PreFillFromOcr(mos, a) /\ UNCHANGED client
        \/ /\ \E row \in {m, mos} : mos' = OnboardingPassport(row, a)
           /\ client' = [client EXCEPT !.card = a]
        \/ mos' = OnboardingPersonalExtra(m, a) /\ UNCHANGED client
        \/ mos' = OnboardingAddress(m, a) /\ UNCHANGED client
        \/ \E s \in Sections :
            /\ mos' = OnboardingAutoSave(m, s, a)
            /\ client' = IF s = "personal" /\ c.card # a THEN [c EXCEPT !.card = a] ELSE client
    \/ \E p \in Purposes :
        \/ mos' = SaveOnboardingPurpose(m, mos, p) /\ UNCHANGED client
        \/ \E a \in Answers : mos' = OnboardingTravel(m, a, p) /\ UNCHANGED client
    \/ mos' = SaveAndReturn(m) /\ UNCHANGED client

(* The consent is in the log before (Privacy); then the row, then the session. *)
FormCompletes(m) ==
    /\ mos' = CompleteDeclarations(m)
    /\ UNCHANGED client

\* fault: the form does not look whether it is locked
IsEditableAnyway(row) == TRUE

MosDataIsEditable(row) == row.status \in Editable

(* The contact form may also be filled in late, while it is incomplete.     *)
ContactFormIsEditable ==
    MosDataIsEditable(mos) \/ (client.card = Blank /\ mos.personal = Blank)

FillForm ==
    /\ MosDataIsEditable(mos)
    /\ \E via \in Via : Enter(via)
    /\ FormAnswers(mos, client)
    /\ UNCHANGED <<case, slow, links>>

FillContact(a) ==
    /\ ContactFormIsEditable
    /\ \E via \in Via : Enter(via)
    /\ mos' = SaveContactValues(mos, mos, a)
    /\ client' = [client EXCEPT !.card = a]
    /\ UNCHANGED <<case, slow, links>>

CompleteForm ==
    /\ MosDataIsEditable(mos)
    /\ FormCompletes(mos)
    /\ \E via \in Via : EnterAs(via, "completed")
    /\ UNCHANGED <<case, slow, links>>

OpenForm ==
    /\ slow = Idle
    /\ MosDataIsEditable(mos)
    /\ \E via \in Via :
        /\ Enter(via)
        /\ slow' = [for |-> via, mos |-> mos, client |-> client]
    /\ UNCHANGED <<mos, client, case, links>>

AnswerSlowly ==
    /\ slow.for \in Via
    /\ FormAnswers(slow.mos, slow.client)
    /\ slow' = Idle
    /\ UNCHANGED <<case, link, portal, links>>

CompleteSlowly ==
    /\ slow.for \in Via
    /\ FormCompletes(slow.mos)
    /\ link' = IF slow.for = "link" THEN [link EXCEPT !.status = "completed"] ELSE link
    /\ portal' = IF slow.for = "portal" THEN "completed" ELSE portal
    /\ slow' = Idle
    /\ UNCHANGED <<case, links>>
-----------------------------------------------------------------------------
(* Staff. *)

(* The card takes what the questionnaire says, where it says something.     *)
ApplyMosDataToClient(row) ==
    IF row.personal = Blank THEN client ELSE [client EXCEPT !.card = row.personal]

Approve(row) ==
    /\ client' = ApplyMosDataToClient(row)
    /\ mos' = [mos EXCEPT !.status = "mos_package_ready"]

AdminMosReview ==
    \/ Approve(mos) /\ UNCHANGED <<case, slow, link, portal, links>>
    \/ /\ mos.purpose # Blank
       /\ case' = [case EXCEPT !.purpose = mos.purpose]
       /\ UNCHANGED <<mos, client, slow, link, portal, links>>
    \/ /\ mos' = [mos EXCEPT !.status = "needs_correction"]
       /\ UNCHANGED <<client, case, slow, link, portal, links>>

(* The stages themselves are in CaseStages. *)
MarkStage(s) ==
    /\ mos' = [mos EXCEPT !.status = s]
    /\ UNCHANGED <<client, case, slow, link, portal, links>>

OpenReview ==
    /\ slow = Idle
    /\ slow' = [for |-> "staff", mos |-> mos, client |-> client]
    /\ UNCHANGED <<mos, client, case, link, portal, links>>

ApproveSlowly ==
    /\ slow.for = "staff"
    /\ Approve(slow.mos)
    /\ slow' = Idle
    /\ UNCHANGED <<case, link, portal, links>>

(* A link to the case.  For one who joins with an application that is under   *)
(* way the questionnaire moves on with the case, and a stage that the case    *)
(* refuses leaves the staff without a link; a purpose that staff set is the   *)
(* case's, and the client's selection is dropped.                             *)
GenerateOnboardingLink(p, joins) ==
    /\ links < MaxLinks
    /\ Reachable
    /\ links' = links + 1
    /\ link' = IF joins = "refused" THEN link ELSE [status |-> "created", live |-> TRUE]
    /\ case' = IF p = Blank THEN case ELSE [case EXCEPT !.purpose = p]
    /\ mos' = [mos EXCEPT !.purpose = IF p = Blank THEN @ ELSE Blank,
                          !.status = IF joins \in MosStatus THEN joins ELSE @]
    /\ UNCHANGED <<client, portal, slow>>

LinkRunsOut ==
    /\ link.live
    /\ link' = [link EXCEPT !.live = FALSE]
    /\ UNCHANGED <<mos, client, case, portal, slow, links>>

PortalRunsOut ==
    /\ portal # "none"
    /\ portal' = "none"
    /\ UNCHANGED <<mos, client, case, link, slow, links>>

ArchiveClient ==
    /\ ~client.archived
    /\ client' = [client EXCEPT !.archived = TRUE]
    /\ case' = [case EXCEPT !.archived = TRUE]
    /\ UNCHANGED <<mos, link, portal, slow, links>>

RestoreClient ==
    /\ client.archived
    /\ client' = [client EXCEPT !.archived = FALSE]
    /\ case' = [case EXCEPT !.archived = FALSE]
    /\ UNCHANGED <<mos, link, portal, slow, links>>

QuestionnaireNext ==
    \/ \E a \in Answers : SetPassword(a) \/ FillContact(a)
    \/ FillForm \/ CompleteForm \/ OpenForm \/ AnswerSlowly \/ CompleteSlowly
    \/ AdminMosReview
    \/ \E s \in AfterReview : MarkStage(s)
    \/ OpenReview \/ ApproveSlowly
    \/ \E p \in Purposes \cup {Blank}, joins \in {"new", "refused"} \cup (AfterReview \cap {"fingerprints", "waiting_decision"}) :
        GenerateOnboardingLink(p, joins)
    \/ LinkRunsOut \/ PortalRunsOut \/ ArchiveClient \/ RestoreClient

QuestionnaireSpec == QuestionnaireInit /\ [][QuestionnaireNext]_questionnaireVars
-----------------------------------------------------------------------------
QuestionnaireTypeOK ==
    /\ mos \in Mos
    /\ client \in Client
    /\ case \in [purpose : Purposes \cup {Blank}, archived : BOOLEAN]
    /\ link \in [status : SessionStatus, live : BOOLEAN]
    /\ portal \in SessionStatus
    /\ slow # Idle => slow.mos \in Mos /\ slow.client \in Client
    /\ links \in 0..MaxLinks

(* A questionnaire that is locked is opened again by staff who ask for a      *)
(* correction, and an archived client comes back by a restore: the portal     *)
(* does either only with a request that had read the rows before              *)
(* (_mos_data_is_editable; onboarding_auto_save, "Set status to               *)
(* client_filling if not already filled or completed").                       *)
PortalRespectsLocks ==
    [][/\ (mos.status \in Filled /\ mos'.status \in Editable /\ mos'.status # "needs_correction")
              => slow # Idle /\ slow' = Idle /\ slow.mos # mos
       /\ (client.archived /\ ~client'.archived /\ case'.archived)
              => slow # Idle /\ slow' = Idle /\ slow.client # client]_questionnaireVars
=============================================================================
