------------------------------- MODULE Family -------------------------------
(***************************************************************************)
(* Families: who sponsors whom, edited in the form of each client           *)
(* (forms/case_client_forms.py), and the income of a family, edited on the  *)
(* dashboard of whoever stands at the top (services/family.py,              *)
(* views/family.py) and judged on the card of each (models/client.py).      *)
(*                                                                         *)
(* A form is judged by the rows it reads, without a lock; a prompt one is   *)
(* saved at once, of the slow ones one is under way at a time.              *)
(***************************************************************************)
EXTENDS Naturals

CONSTANT NumPeople

ASSUME FamilyAssumption == NumPeople \in Nat

VARIABLES
    person,      \* the clients: role, sponsor (0: none), a row of finances
    pending,     \* the slow request, judged and not saved
    overlapped   \* some request was saved while a slow one was under way

familyVars == <<person, pending, overlapped>>

People == 1..NumPeople

Roles == {"none", "sponsor", "member"}

Nobody == [role |-> "none", sponsor |-> 0, group |-> FALSE]
NoForm == [of |-> 0, role |-> "none", sponsor |-> 0]

FamilyTypeOK ==
    /\ person \in [People -> [role : Roles, sponsor : 0..NumPeople, group : BOOLEAN]]
    /\ pending \in [of : 0..NumPeople, role : Roles \cup {"income"}, sponsor : 0..NumPeople]
    /\ overlapped \in BOOLEAN

FamilyInit == person = [c \in People |-> Nobody] /\ pending = NoForm /\ overlapped = FALSE

(* The sponsor, the sponsor's sponsor, ... of c, who comes first.            *)
Upward(c) ==
    LET up[n \in 0..NumPeople] ==
            IF n = 0 THEN c
            ELSE IF person[up[n - 1]].sponsor = 0 THEN up[n - 1] ELSE person[up[n - 1]].sponsor
    IN  up

ChainEnds(c) == person[Upward(c)[NumPeople]].sponsor = 0

(* family_sponsor_for: whoever would go round in a circle is the own sponsor.*)
FamilySponsorFor(c) == IF ChainEnds(c) THEN Upward(c)[NumPeople] ELSE c

Members(c) == {m \in People : person[m].sponsor = c}

-----------------------------------------------------------------------------
\* fault: a sponsor is only asked not to be the client itself
SponsorIsAnother(c, s) == s # c

(* ClientForm._validate_sponsor_relationship, and Client.clean.              *)
ValidateSponsorRelationship(c, s) == \A n \in 0..NumPeople : Upward(s)[n] # c

(* What ClientForm.clean makes of the purpose, the role and the sponsor that *)
(* were sent: pairs of the role and the sponsor to be saved.                 *)
Cleaned(c) ==
    {[role |-> "sponsor", sponsor |-> 0]}
        \cup [role : {"member"}, sponsor : {s \in People : ValidateSponsorRelationship(c, s)}]
        \cup {[role |-> r, sponsor |-> 0] : r \in IF Members(c) # {} THEN {"none", "sponsor"} ELSE {"none"}}

Saved(c, role, s) == person' = [person EXCEPT ![c].role = role, ![c].sponsor = s]

(* ensure_family_group.                                                      *)
EnsureFamilyGroup(c) == person' = [person EXCEPT ![c].role = "sponsor", ![c].group = TRUE]

AtOnce == overlapped' = (overlapped \/ pending # NoForm) /\ UNCHANGED pending

(* ClientUpdateView, ClientCreateView.                                       *)
EditClient(c) == (\E f \in Cleaned(c) : Saved(c, f.role, f.sponsor)) /\ AtOnce

(* FamilyDashboardView.post, on the page of any of the family.               *)
EditIncome(c) == EnsureFamilyGroup(FamilySponsorFor(c)) /\ AtOnce

(* The same two, slowly.                                                     *)
FormIsJudged(c) ==
    /\ pending = NoForm
    /\ \E f \in Cleaned(c) : pending' = [of |-> c, role |-> f.role, sponsor |-> f.sponsor]
    /\ UNCHANGED <<person, overlapped>>

IncomeIsSent(c) ==
    /\ pending = NoForm
    /\ pending' = [NoForm EXCEPT !.of = FamilySponsorFor(c), !.role = "income"]
    /\ UNCHANGED <<person, overlapped>>

SlowSave ==
    /\ pending # NoForm /\ pending' = NoForm
    /\ IF pending.role = "income" THEN EnsureFamilyGroup(pending.of)
       ELSE Saved(pending.of, pending.role, pending.sponsor)
    /\ UNCHANGED overlapped

(* apply_onboarding_purpose_to_client: the role, never the sponsor.          *)
ApplyPurpose(c) == (\E r \in {"none", "member"} : Saved(c, r, person[c].sponsor)) /\ AtOnce

FamilyNext ==
    \/ \E c \in People : EditClient(c) \/ EditIncome(c) \/ FormIsJudged(c) \/ IncomeIsSent(c) \/ ApplyPurpose(c)
    \/ SlowSave

FamilySpec == FamilyInit /\ [][FamilyNext]_familyVars

-----------------------------------------------------------------------------
(* _get_family_group_for_income_check: the own finances, or the sponsor's.   *)
CheckedGroup(c) ==
    IF person[c].group THEN {c} ELSE {s \in People : s = person[c].sponsor /\ person[s].group}

(* Every chain of sponsors ends with somebody who has none, and who is       *)
(* called a sponsor has none, as long as no two edits overlap, each judged   *)
(* by the rows before the other.  Overlapping or not, an alert about the     *)
(* income links to the page where that income is edited, unless the client   *)
(* once was a sponsor or the sponsor has one (services/family.py,            *)
(* forms/case_client_forms.py, models/client.py, models/_client_health.py).  *)
FamilyHolds ==
    /\ overlapped \/ \A c \in People : person[c].sponsor # 0 => ChainEnds(c) /\ person[c].role # "sponsor"
    /\ \A c \in People : \A g \in CheckedGroup(c) :
        \/ g = FamilySponsorFor(c)
        \/ g = c /\ person[c].sponsor # 0
        \/ g # c /\ person[g].sponsor # 0
=============================================================================
