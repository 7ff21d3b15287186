---------------------------- MODULE MCClientFile ----------------------------
(***************************************************************************)
(* What is in a client's file, for TLC: the intake form and the accounts,   *)
(* the questionnaire of a case, consent and erasure, the papers, and       *)
(* their way from the portal to the office and back, and the keys under     *)
(* which all of it is stored.  The parts share no state here, so a          *)
(* behaviour is one of one part; the variable part, chosen in Init, says of *)
(* which.                                                                   *)
(***************************************************************************)
EXTENDS Intake, Questionnaire, Privacy, Checklist, PortalPapers, Family, FieldKeys, TLC

VARIABLE part

fileVars == <<intakeVars, questionnaireVars, privacyVars, checklistVars, papersVars, familyVars, keysVars, part>>

Init ==
    /\ IntakeInit
    /\ QuestionnaireInit
    /\ PrivacyInit
    /\ ChecklistInit
    /\ PapersInit
    /\ FamilyInit
    /\ KeysInit
    /\ part \in {"intake", "questionnaire", "consent", "erasure", "papers", "portal", "family", "keys"}
    /\ part # "portal" => ~purposeSet
    /\ part # "erasure" => ~subject.old
    /\ part # "keys" => ~locking /\ stored["answers"].key = Clear

Next ==
    /\ UNCHANGED part
    /\ \/ /\ part = "intake" /\ IntakeNext
          /\ UNCHANGED <<questionnaireVars, privacyVars, checklistVars, papersVars, familyVars, keysVars>>
       \/ /\ part = "questionnaire" /\ QuestionnaireNext
          /\ UNCHANGED <<intakeVars, privacyVars, checklistVars, papersVars, familyVars, keysVars>>
       \/ /\ part = "consent" /\ ConsentNext
          /\ UNCHANGED <<intakeVars, questionnaireVars, erasureVars, checklistVars, papersVars, familyVars, keysVars>>
       \/ /\ part = "erasure" /\ ErasureNext
          /\ UNCHANGED <<intakeVars, questionnaireVars, consentVars, checklistVars, papersVars, familyVars, keysVars>>
       \/ /\ part = "papers" /\ ChecklistNext
          /\ UNCHANGED <<intakeVars, questionnaireVars, privacyVars, papersVars, familyVars, keysVars>>
       \/ /\ part = "portal" /\ PapersNext
          /\ UNCHANGED <<intakeVars, questionnaireVars, privacyVars, checklistVars, familyVars, keysVars>>
       \/ /\ part = "family" /\ FamilyNext
          /\ UNCHANGED <<intakeVars, questionnaireVars, privacyVars, checklistVars, papersVars, keysVars>>
       \/ /\ part = "keys" /\ KeysNext
          /\ UNCHANGED <<intakeVars, questionnaireVars, privacyVars, checklistVars, papersVars, familyVars>>

Spec == Init /\ [][Next]_fileVars

(* The rows of the parts have their types (models/onboarding.py,             *)
(* models/consent.py, models/client.py, models/document.py,                  *)
(* models/wniosek.py, models/task.py, fernet_fields/fields.py).              *)
TypeOK ==
    /\ IntakeTypeOK /\ QuestionnaireTypeOK /\ PrivacyTypeOK /\ ChecklistTypeOK /\ PapersTypeOK
    /\ FamilyTypeOK /\ KeysTypeOK

(* Processes and contents differ in their names only.                        *)
Symmetry == Permutations(Processes) \cup Permutations(Contents)
=============================================================================
