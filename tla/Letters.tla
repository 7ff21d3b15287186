------------------------------ MODULE Letters ------------------------------
(***************************************************************************)
(* The letters the site writes by itself about one client's file, day by   *)
(* day: what each says, and the idempotency key that keeps it from being   *)
(* written again (services/notifications.py, update_reminders.py).  How a  *)
(* letter with a key is reserved, sent and logged is EmailDelivery's; here *)
(* it goes out, or the server refuses it and its key stays free.           *)
(***************************************************************************)
EXTENDS Naturals, FiniteSets

CONSTANTS
    Horizon,     \* the last day of a behaviour about each topic
    Dates,       \* days that papers and stays end on
    MaxChanges   \* changes to the file

Topics == {"stay", "papers", "missing", "staff"}

ASSUME LettersAssumption ==
    /\ Horizon \in [Topics -> Nat]
    /\ MaxChanges \in Nat /\ Dates \subseteq Nat /\ Dates # {}

VARIABLES
    topic,       \* what a behaviour is about: stay, papers, missing, staff
    day,         \* the day, counted from the beginning
    shift,       \* where weeks and three-day intervals begin
    file,        \* what the database says of the client
    keys,        \* keys of letters that went out
    letters,     \* the letters: about what, what was said, how many days ago
    ran,         \* today's pass has seen the file as it is
    changes

lettersVars == <<topic, day, shift, file, keys, letters, ran, changes>>

Cases == {"first", "second"}
Docs == {"visa", "policy"}
Papers == {"form", "zus", "extra"}

(* _get_required_documents_context: everything the purpose asks for.         *)
Required == {"form", "zus"}

CaseFile == [waits : BOOLEAN, have : SUBSET Papers, asked : BOOLEAN, months : BOOLEAN]

LettersTypeOK ==
    /\ topic \in Topics /\ day \in 0..Horizon[topic] /\ shift \in 0..2
    /\ file.until \in Dates /\ file.early \in BOOLEAN
    /\ file.expiry \in [Docs -> Dates]
    /\ file.cases \in [Cases -> CaseFile] /\ file.open \subseteq Cases
    /\ {file.answered, file.missed, file.invited, file.task, file.known} \subseteq BOOLEAN
    /\ file.at \in {"idle", "uploaded", "completed"}
    /\ \A l \in letters : l.age \in 0..day
    /\ ran \in BOOLEAN /\ changes \in 0..MaxChanges

LettersInit ==
    /\ topic \in Topics
    /\ day = 0
    /\ shift \in IF topic \in {"stay", "missing"} THEN 0..2 ELSE {0}
    /\ \E until \in Dates, visa, policy \in Dates, open \in {{"first"}, Cases} :
        /\ topic # "stay" => until = CHOOSE d \in Dates : TRUE
        /\ topic # "papers" => visa = until /\ policy = until
        /\ topic # "missing" => open = {"first"}
        /\ file =
            [until |-> until, early |-> TRUE,
             expiry |-> [d \in Docs |-> IF d = "visa" THEN visa ELSE policy],
             open |-> open,
             cases |-> [c \in Cases |-> [waits |-> TRUE, have |-> Required, asked |-> c = "second", months |-> c = "first"]],
             at |-> "idle", known |-> FALSE, invited |-> FALSE, task |-> FALSE, answered |-> FALSE, missed |-> FALSE]
    /\ keys = {} /\ letters = {} /\ ran = FALSE /\ changes = 0

-----------------------------------------------------------------------------
Week(d) == (d + shift) \div 7

(* Three days of silence at most, counted from a fixed date.                *)
Interval(d) == (d + shift) \div 3

Letter(about, said) == [about |-> about, said |-> said, age |-> 0]

(* Of two letters that say the same the older one is forgotten.             *)
With(new) == {l \in letters : \A n \in new : n.about # l.about \/ n.said # l.said} \union new

(* _send_email: nothing goes out under a key that is taken; the server may   *)
(* refuse a letter, and its key can be used again.  All posts of one step.   *)
Post(posts) ==
    \E refused \in SUBSET {p \in posts : p.key \notin keys} :
        LET out == {p \in posts : p.key \notin keys} \ refused IN
        /\ keys' = keys \union {p.key : p \in out}
        /\ letters' = With({p.letter : p \in out})
        /\ ran' = (refused = {})

PostOne(key, about, said) == Post({[key |-> key, letter |-> Letter(about, said)]})

Quiet == UNCHANGED <<keys, letters>> /\ ran' = TRUE

NothingElse == UNCHANGED <<topic, day, shift, file, changes>>

Timed(l) == l.about \notin {"papers", "required", "invitation", "completed"}

(* No letter asks for a key again whose week or interval is over.            *)
Over(key, d) ==
    \/ key[1] = "critical" /\ key[3] < Interval(d)
    \/ key[1] \in {"missing", "zus", "verified"} /\ key[3] < Week(d)

(* A letter that is a week old counts as old.                                *)
NextDay ==
    /\ day < Horizon[topic]
    /\ day' = day + 1 /\ ran' = FALSE
    /\ letters' = {[l EXCEPT !.age = IF Timed(l) /\ @ < 7 THEN @ + 1 ELSE @] : l \in letters}
    /\ keys' = {k \in keys : ~Over(k, day')}
    /\ UNCHANGED <<topic, shift, file, changes>>

Changes(of) ==
    /\ topic = of /\ changes < MaxChanges
    /\ changes' = changes + 1 /\ ran' = FALSE
    /\ UNCHANGED <<topic, day, shift, keys, letters>>

-----------------------------------------------------------------------------
(* The end of a legal stay.                                                 *)
DaysLeft == file.until - day

StayEnds == file.early /\ file.until >= day /\ file.until <= day + 45

\* fault: the letters of the last fortnight forget the interval
StayKeyOnce == <<"stay", file.until, DaysLeft <= 14>>

(* send_legal_stay_email: once for a date, then once in three days.          *)
StayKey == IF DaysLeft <= 14 THEN <<"critical", file.until, Interval(day)>> ELSE <<"stay", file.until>>

(* send_legal_stay_notifications.  The client has one case: a letter that    *)
(* names none cannot be logged for a client with several (ReminderPasses).   *)
PassStays ==
    /\ topic = "stay"
    /\ IF StayEnds THEN PostOne(StayKey, "stay", file.until) ELSE Quiet
    /\ NothingElse

StayChanges ==
    /\ Changes("stay")
    /\ \/ \E d \in Dates \ {file.until} : file' = [file EXCEPT !.until = d]
       \/ file.early /\ file' = [file EXCEPT !.early = FALSE]

-----------------------------------------------------------------------------
(* Papers that expire.                                                      *)
Expiring == {d \in Docs : file.expiry[d] >= day /\ file.expiry[d] <= day + 7}

Named(docs) == {<<d, file.expiry[d]>> : d \in docs}

(* send_expiring_documents_email: the key is the case and what it names.     *)
TellOf(docs) == PostOne(<<"papers", Named(docs)>>, "papers", Named(docs))

PassExpiring ==
    /\ topic = "papers"
    /\ IF Expiring # {} THEN TellOf(Expiring) ELSE Quiet
    /\ NothingElse

(* reminder_action and send_document_reminder_email: of one paper or of all  *)
(* that have a reminder; the pass of the day is not done by it.              *)
StaffTells(docs) ==
    /\ topic = "papers" /\ docs # {}
    /\ LET post == [key |-> <<"papers", Named(docs)>>, letter |-> Letter("papers", Named(docs))] IN
        /\ post.key \notin keys
        /\ keys' = keys \union {post.key} /\ letters' = With({post.letter})
    /\ UNCHANGED ran /\ NothingElse

PaperIsExtended ==
    /\ Changes("papers")
    /\ \E d \in Docs : \E e \in Dates \ {file.expiry[d]} : file' = [file EXCEPT !.expiry[d] = e]

-----------------------------------------------------------------------------
(* Papers that are missing, case by case.                                   *)

(* _get_missing_documents_context: a list of months instead of the report.   *)
Missing(c) ==
    LET k == file.cases[c] IN
    {p \in Papers \ k.have : (p = "zus" => ~k.months) /\ (p = "extra" => k.asked)}
        \union (IF k.months THEN {"months"} ELSE {})

(* What the letter lists is as old as the letter: only its case is kept.     *)
MissingLetter(c) == Letter("missing", c)

Waiting == {c \in file.open : file.cases[c].waits}

(* send_missing_document_notifications: one letter a week for each case.     *)
WeeklyPost(c) == [key |-> <<"missing", c, Week(day)>>, letter |-> MissingLetter(c)]

PassMissing ==
    /\ topic = "missing"
    /\ Post({WeeklyPost(c) : c \in {w \in Waiting : Missing(w) # {}}})
    /\ NothingElse

(* check_zus_rca_missing_months, when it runs without the section above; a   *)
(* letter about the months lists what else is missing.                       *)
PassZusOnly ==
    /\ topic = "missing"
    /\ LET posts == {[key |-> <<"zus", c, Week(day)>>, letter |-> MissingLetter(c)] :
                        c \in {w \in Waiting : file.cases[w].months}}
           out == {p \in posts : p.key \notin keys}
       IN  /\ out # {}
           /\ keys' = keys \union {p.key : p \in out}
           /\ letters' = With({p.letter : p \in out})
    /\ UNCHANGED ran /\ NothingElse

(* A verification writes too, if it can tell the case (resolve_single_active_case). *)
StaffVerifies ==
    /\ topic = "missing" /\ Cardinality(file.open) = 1
    /\ \E c \in file.open :
        LET key == <<"verified", c, Week(day)>> IN
        /\ Missing(c) # {} /\ key \notin keys
        /\ keys' = keys \union {key}
        /\ letters' = With({MissingLetter(c)})
    /\ UNCHANGED ran /\ NothingElse

CaseFileChanges ==
    /\ Changes("missing")
    /\ \E c \in file.open :
        \/ \E p \in Papers \ file.cases[c].have : file' = [file EXCEPT !.cases[c].have = @ \union {p}]
        \/ \E p \in file.cases[c].have : file' = [file EXCEPT !.cases[c].have = @ \ {p}]
        \/ file' = [file EXCEPT !.cases[c].months = ~@]
        \/ file.cases[c].waits /\ file' = [file EXCEPT !.cases[c].waits = FALSE]

-----------------------------------------------------------------------------
(* What the office hears of.                                                *)
Continues(at) ==
    /\ topic = "staff" /\ file.at = at
    /\ UNCHANGED <<topic, day, shift, ran, changes>>

Begins == Continues("idle")

RequiredLetter == Letter("required", Required)

(* ClientCreateView.form_valid and finalize_client_creation: the list of     *)
(* papers goes out in the transaction of the new client, which may fail yet. *)
CreateClient ==
    /\ Begins /\ ~file.known
    /\ \E known \in BOOLEAN, sent \in BOOLEAN :
        /\ file' = [file EXCEPT !.known = known]
        /\ keys' = IF known /\ sent THEN keys \union {<<"required">>} ELSE keys
        /\ letters' = IF sent THEN With({RequiredLetter}) ELSE letters

(* A client uploads the letter that invites to the fingerprints ...          *)
UploadInvitation ==
    /\ Begins /\ file.known /\ ~file.invited
    /\ file' = [file EXCEPT !.at = "uploaded", !.invited = TRUE]
    /\ UNCHANGED <<keys, letters>>

(* ... notify_staff_about_fingerprint_invitation_upload: a task, and a       *)
(* letter without a key, if the server takes it.                             *)
NotifyStaff ==
    /\ Continues("uploaded")
    /\ file' = [file EXCEPT !.at = "idle", !.task = TRUE]
    /\ letters' \in {letters, With({Letter("invitation", {})})}
    /\ UNCHANGED keys

CompleteQuestionnaire ==
    /\ Begins /\ file.known /\ ~file.answered
    /\ file' = [file EXCEPT !.at = "completed", !.answered = TRUE]
    /\ UNCHANGED <<keys, letters>>

(* send_onboarding_completed_email: the key has nothing of this completion.  *)
TellCompleted ==
    /\ Continues("completed")
    /\ \/ /\ <<"completed">> \in keys
          /\ file' = [file EXCEPT !.at = "idle"]
          /\ UNCHANGED <<keys, letters>>
       \/ /\ <<"completed">> \notin keys
          /\ file' = [file EXCEPT !.at = "idle"]
          /\ keys' = keys \union {<<"completed">>}
          /\ letters' = With({Letter("completed", {})})

SendBack ==
    /\ Begins /\ file.answered
    /\ file' = [file EXCEPT !.answered = FALSE]
    /\ UNCHANGED <<keys, letters>>

(* The server refuses the letter, or the process dies: nothing tries again.  *)
OfficeMissesIt ==
    /\ \/ Continues("uploaded") \/ Continues("completed")
    /\ file' = [file EXCEPT !.at = "idle", !.missed = TRUE]
    /\ UNCHANGED <<keys, letters>>

-----------------------------------------------------------------------------
StayNext == PassStays \/ StayChanges

PapersNext == PassExpiring \/ PaperIsExtended \/ \E docs \in SUBSET Docs : StaffTells(docs)

MissingNext == PassMissing \/ PassZusOnly \/ StaffVerifies \/ CaseFileChanges

OfficeNext ==
    \/ CreateClient \/ UploadInvitation \/ NotifyStaff
    \/ CompleteQuestionnaire \/ TellCompleted \/ SendBack \/ OfficeMissesIt

LettersNext == NextDay \/ StayNext \/ PapersNext \/ MissingNext \/ OfficeNext

LettersSpec == LettersInit /\ [][LettersNext]_lettersVars

-----------------------------------------------------------------------------
(* In the last fortnight of a stay a client is never left without a word for *)
(* three days, and before it each date is named once.                        *)
StayIsCalled ==
    StayEnds => \E l \in letters :
        /\ l.about = "stay" /\ l.said = file.until
        /\ DaysLeft <= 14 => l.age <= 2

(* Each paper that expires within the week was named with its date.          *)
ExpiryIsNamed == \A e \in Named(Expiring) : \E l \in letters : l.about = "papers" /\ e \in l.said

(* Each case that waits and lacks something was written about this week.     *)
MissingIsAskedFor ==
    \A c \in Waiting : Missing(c) # {} =>
        \E l \in letters : l.about = "missing" /\ l.said = c /\ Week(day) = Week(day - l.age)

(* An invitation has its task and a completed questionnaire its letter, if   *)
(* nothing was lost on the way.                                              *)
OfficeHears ==
    file.at = "idle" /\ ~file.missed =>
        /\ file.invited => file.task
        /\ file.answered => \E l \in letters : l.about = "completed"

(* Once today's pass has seen the file as it is, no key has kept a letter    *)
(* back that the client had to get: whatever changed and changed back, and   *)
(* wherever weeks and intervals begin (the keys of services/notifications.py *)
(* and update_reminders.py).                                                 *)
NewsGetsOut ==
    /\ ran /\ topic = "stay" => StayIsCalled
    /\ ran /\ topic = "papers" => ExpiryIsNamed
    /\ ran /\ topic = "missing" => MissingIsAskedFor
    /\ topic = "staff" => OfficeHears
=============================================================================
