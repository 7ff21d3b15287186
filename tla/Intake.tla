------------------------------- MODULE Intake -------------------------------
(***************************************************************************)
(* The public intake form and the accounts of clients: a link that staff   *)
(* hand out, visitors who submit the form behind it, the client, case and  *)
(* account that one transaction makes of it, and clients of the office who *)
(* set a password (views/intake.py, services/intake.py,                    *)
(* onboarding_set_password).                                               *)
(*                                                                         *)
(* The visitors who have the link post independently; the row of the form  *)
(* is read once and not locked.  An account is known by its address, which *)
(* is unique in the table of users.                                        *)
(***************************************************************************)
EXTENDS Naturals, FiniteSets

CONSTANTS Visitors,   \* requests on the form that may be open at once
          Emails,
          MaxClients  \* bound on the clients

ASSUME IntakeAssumption == MaxClients \in Nat

VARIABLES intake,   \* the row of the form: its status, the address in it, the client made of it
          overdue,  \* whether the link has run out
          post,     \* what each visitor's request is about to do
          clients,  \* the clients, as a function from their ids
          owner     \* of each address: the client of its account, 0, or that there is none

intakeVars == <<intake, overdue, post, clients, owner>>

NoAccount == MaxClients + 1
NoPost == [phase |-> "none"]
IntakeStatus == {"none", "draft", "submitted", "needs_review", "converted", "expired"}
Closed == {"converted", "expired"}
Origins == {"form", "office"}
Archived == {"never", "now", "before"}
IntakeClient == [email : Emails, origin : Origins, archived : Archived]

IntakeInit ==
    /\ intake = [status |-> "none", client |-> 0]
    /\ overdue = FALSE
    /\ post = [v \in Visitors |-> NoPost]
    /\ clients = <<>>
    /\ owner = [e \in Emails |-> NoAccount]

CreatePublicIntakeLink ==
    /\ intake.status = "none"
    /\ intake' = [intake EXCEPT !.status = "draft"]
    /\ UNCHANGED <<overdue, post, clients, owner>>

LinkIsOverdue ==
    /\ ~overdue
    /\ overdue' = TRUE
    /\ UNCHANGED <<intake, post, clients, owner>>
-----------------------------------------------------------------------------
(* One post. *)

PublicIntake(v, e) ==
    /\ intake.status \notin Closed \cup {"none"}
    /\ post[v] = NoPost
    /\ IF overdue
       THEN intake' = [intake EXCEPT !.status = "expired"] /\ UNCHANGED post
       ELSE post' = [post EXCEPT ![v] = [phase |-> "read", email |-> e]] /\ UNCHANGED intake
    /\ UNCHANGED <<overdue, clients, owner>>

(* Who has an account is asked to log in. *)
AddressIsTaken(v) ==
    /\ post[v].phase = "read"
    /\ owner[post[v].email] # NoAccount
    /\ post' = [post EXCEPT ![v] = NoPost]
    /\ UNCHANGED <<intake, overdue, clients, owner>>

Submit(v) ==
    /\ post[v].phase = "read"
    /\ owner[post[v].email] = NoAccount
    /\ intake' = [intake EXCEPT !.status = "submitted"]
    /\ post' = [post EXCEPT ![v].phase = "submitted"]
    /\ UNCHANGED <<overdue, clients, owner>>

ConflictsFor(e) == {c \in DOMAIN clients : clients[c].email = e /\ clients[c].archived # "now"}

(* Looked at before the transaction, so that the status outlives it. *)
Classify(v) ==
    /\ post[v].phase = "submitted"
    /\ IF ConflictsFor(post[v].email) # {}
       THEN /\ intake' = [intake EXCEPT !.status = "needs_review"]
            /\ post' = [post EXCEPT ![v] = NoPost]
       ELSE post' = [post EXCEPT ![v].phase = "classified"] /\ UNCHANGED intake
    /\ UNCHANGED <<overdue, clients, owner>>

NewClient == Cardinality(DOMAIN clients) + 1
WithClient(e, origin) == 
    [c \in 1..NewClient |-> IF c = NewClient THEN [email |-> e, origin |-> origin, archived |-> "never"]
                            ELSE clients[c]]

\* fault: the client stays when the account cannot be made
ConvertWithoutTransaction(v) ==
    LET e == post[v].email
        fails == overdue \/ owner[e] # NoAccount
    IN  /\ post[v].phase = "classified"
        /\ NewClient <= MaxClients
        /\ clients' = WithClient(e, "form")
        /\ owner' = IF fails THEN owner ELSE [owner EXCEPT ![e] = NewClient]
        /\ intake' = [status |-> "converted", client |-> NewClient]
        /\ post' = [post EXCEPT ![v] = NoPost]
        /\ UNCHANGED overdue

\* fault: the mark on the form outlives the rollback
ConvertMarkSurvives(v) ==
    LET e == post[v].email
        fails == overdue \/ owner[e] # NoAccount
    IN  /\ post[v].phase = "classified"
        /\ NewClient <= MaxClients
        /\ clients' = IF fails THEN clients ELSE WithClient(e, "form")
        /\ owner' = IF fails THEN owner ELSE [owner EXCEPT ![e] = NewClient]
        /\ intake' = [status |-> "converted", client |-> IF fails THEN intake.client ELSE NewClient]
        /\ post' = [post EXCEPT ![v] = NoPost]
        /\ UNCHANGED overdue

(* The row the request holds says submitted, whatever the table says now.    *)
(* A link that has run out since, or an account that has been made, rolls    *)
(* everything back.                                                          *)
ConvertIntakeSubmission(v) ==
    LET e == post[v].email
        fails == overdue \/ owner[e] # NoAccount
    IN  /\ post[v].phase = "classified"
        /\ NewClient <= MaxClients
        /\ clients' = IF fails THEN clients ELSE WithClient(e, "form")
        /\ owner' = IF fails THEN owner ELSE [owner EXCEPT ![e] = NewClient]
        /\ intake' = IF fails THEN intake ELSE [status |-> "converted", client |-> NewClient]
        /\ post' = [post EXCEPT ![v] = NoPost]
        /\ UNCHANGED overdue
-----------------------------------------------------------------------------
(* The office, and clients who set a password. *)

QuickCreateClient(e) ==
    /\ NewClient <= MaxClients
    /\ clients' = WithClient(e, "office")
    /\ UNCHANGED <<intake, overdue, post, owner>>

ArchiveIntakeClient(c) ==
    /\ clients[c].archived # "now"
    /\ clients' = [clients EXCEPT ![c].archived = "now"]
    /\ UNCHANGED <<intake, overdue, post, owner>>

RestoreIntakeClient(c) ==
    /\ clients[c].archived = "now"
    /\ clients' = [clients EXCEPT ![c].archived = "before"]
    /\ UNCHANGED <<intake, overdue, post, owner>>

(* An account that belongs to nobody, to this client or to an archived one   *)
(* becomes this client's; of another active client it is refused.           *)
OnboardingSetPassword(c) ==
    LET e == clients[c].email
    IN  /\ clients[c].archived # "now"
        /\ \/ owner[e] \in {NoAccount, 0, c}
           \/ owner[e] \in DOMAIN clients /\ clients[owner[e]].archived = "now"
        /\ owner' = [owner EXCEPT ![e] = c]
        /\ UNCHANGED <<intake, overdue, post, clients>>

(* An account that staff make has no client yet (external to the portal).    *)
AccountWithoutClient(e) ==
    /\ owner[e] = NoAccount
    /\ owner' = [owner EXCEPT ![e] = 0]
    /\ UNCHANGED <<intake, overdue, post, clients>>

IntakeNext ==
    \/ CreatePublicIntakeLink \/ LinkIsOverdue
    \/ \E v \in Visitors :
        \/ \E e \in Emails : PublicIntake(v, e)
        \/ AddressIsTaken(v) \/ Submit(v) \/ Classify(v) \/ ConvertIntakeSubmission(v)
    \/ \E e \in Emails : QuickCreateClient(e) \/ AccountWithoutClient(e)
    \/ \E c \in DOMAIN clients : ArchiveIntakeClient(c) \/ RestoreIntakeClient(c) \/ OnboardingSetPassword(c)

IntakeSpec == IntakeInit /\ [][IntakeNext]_intakeVars
-----------------------------------------------------------------------------
(* With the constraint of the table: a converted row names its client.      *)
IntakeTypeOK ==
    /\ intake \in [status : IntakeStatus, client : 0..MaxClients]
    /\ intake.status = "converted" => intake.client \in DOMAIN clients
    /\ overdue \in BOOLEAN
    /\ \A v \in Visitors : post[v].phase \in {"none", "read", "submitted", "classified"}
    /\ \A c \in DOMAIN clients : c \in 1..MaxClients /\ clients[c] \in IntakeClient
    /\ owner \in [Emails -> 0..NoAccount]

(* "A failure creating the account rolls back the client/case too, so no     *)
(* orphaned client without an account remains" (views/intake.py): a client   *)
(* made of the form has the account of its address to itself until it is     *)
(* first archived, however many visitors posted at once and whatever the     *)
(* office made meanwhile.                                                    *)
NoOrphanedFormClient ==
    \A c \in DOMAIN clients :
        clients[c].origin = "form" /\ clients[c].archived = "never" => owner[clients[c].email] = c
=============================================================================
