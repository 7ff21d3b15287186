---------------------------- MODULE MCAutomation ----------------------------
(***************************************************************************)
(* The work that runs by itself, for TLC: the reminder passes over one     *)
(* client's file, the loops that start such work, the letters the passes   *)
(* write, and the files under all of it: uploads kept in the database, and *)
(* its dumps.  The parts share no state here, so a behaviour is one of one *)
(* part.                                                                   *)
(***************************************************************************)
EXTENDS ReminderPasses, AutomationLoop, Letters, Media, Dumps

VARIABLE part

allVars == <<remindersVars, automationVars, lettersVars, mediaVars, dumpVars, part>>

MCHorizon == [t \in Topics |-> CASE t = "stay" -> 16 [] t = "papers" -> 9 [] t = "missing" -> 7 [] t = "staff" -> 0]
MCShortHorizon == [t \in Topics |-> 0]

MCScopes == {SectionNames, {"documents", "payments"}}

MCForm(s, p, d) == [status |-> s, paid |-> p, due |-> d]

MCOffered ==
    {MCForm("pending", 0, "later"), MCForm("pending", 0, "now"), MCForm("partial", 1, "now"),
     MCForm("partial", Total, "now"), MCForm("pending", Total + 1, "now"), MCForm("paid", Total, "now")}

MCCycles ==
    {<<"document-jobs", "weekly-document-reminders">>,
     <<"email-campaigns", "retention-maintenance">>,
     <<"retention-maintenance", "db-backup">>}

Parts == {"reminders", "loop", "letters", "media", "dumps"}

(* What the other parts could begin with does not matter.                    *)
Init ==
    /\ RemindersInit /\ AutomationInit /\ LettersInit /\ MediaInit /\ DumpsInit
    /\ part \in Parts
    /\ part # "reminders" => doc = "far" /\ ~stay /\ ~waiting /\ ~manyCases
    /\ part # "loop" => cycle = <<"document-jobs", "weekly-document-reminders">>
    /\ part # "letters" => topic = "staff"
    /\ part # "media" => held = {}
    /\ part # "dumps" => ~hasKeys /\ ~remote

Next ==
    /\ UNCHANGED part
    /\ \/ part = "reminders" /\ RemindersNext /\ UNCHANGED <<automationVars, lettersVars, mediaVars, dumpVars>>
       \/ part = "loop" /\ AutomationNext /\ UNCHANGED <<remindersVars, lettersVars, mediaVars, dumpVars>>
       \/ part = "letters" /\ LettersNext /\ UNCHANGED <<remindersVars, automationVars, mediaVars, dumpVars>>
       \/ part = "media" /\ MediaNext /\ UNCHANGED <<remindersVars, automationVars, lettersVars, dumpVars>>
       \/ part = "dumps" /\ DumpsNext /\ UNCHANGED <<remindersVars, automationVars, lettersVars, mediaVars>>

Spec == Init /\ [][Next]_allVars

(* The passes of one process are started every day and run to their end (the *)
(* daily slot of the automation loop); nothing is asked of the others.  An    *)
(* entry of the cache goes when its time is over.                             *)
Fairness ==
    /\ LET p == CHOOSE q \in Passes : TRUE IN
        /\ WF_allVars(part = "reminders" /\ PassStep(p) /\ UNCHANGED <<automationVars, lettersVars, mediaVars, dumpVars, part>>)
        /\ SF_allVars(part = "reminders" /\ StartPass(p, SectionNames) /\ UNCHANGED <<automationVars, lettersVars, mediaVars, dumpVars, part>>)
    /\ WF_allVars(part = "loop" /\ HeartbeatExpires /\ UNCHANGED <<remindersVars, lettersVars, mediaVars, dumpVars, part>>)

FairSpec == Spec /\ Fairness

(* The rows, the passes, the loops, the entries of the cache, the letters,   *)
(* the files and the dumps have their types (models/payment.py,              *)
(* models/reminder.py, database_media/storage.py, the commands).             *)
TypeOK == RemindersTypeOK /\ AutomationTypeOK /\ LettersTypeOK /\ MediaTypeOK /\ DumpsTypeOK

(* Files outlive the requests and commands that work on them, and go with    *)
(* what they were for: uploads kept in the database (database_media) and     *)
(* dumps of the database (legalize_site/backups.py).                         *)
FilesAreKept == FilesStayAndGo /\ ReportedDumpsRestore
=============================================================================
