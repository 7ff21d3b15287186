------------------------------ MODULE Privacy ------------------------------
(***************************************************************************)
(* What a client may do about the data the office keeps: consent, a log    *)
(* that is only appended to and whose rows are chained by hashes           *)
(* (models/consent.py), and erasure, which the client asks for, the office *)
(* approves and a command or an admin carries out                          *)
(* (services/erasure.py, services/anonymization.py).                       *)
(*                                                                         *)
(* A hash is the row it stands for: the id of the row before.  The         *)
(* anonymisation is one transaction at READ COMMITTED: nobody sees its     *)
(* deletions before it commits, and it sees what others have committed.    *)
(***************************************************************************)
EXTENDS Naturals, Sequences, FiniteSets

CONSTANTS Devices,      \* requests on the consent page that may be open at once
          ConsentPurposes, \* what consent is given for
          MaxConsents,  \* bound on the rows of the consent log
          Uploads,      \* documents the client may have
          MaxRuns       \* bound on the passes that anonymise

ASSUME PrivacyAssumption == MaxConsents \in Nat /\ MaxRuns \in Nat

VARIABLES log,      \* the consent log, in the order of the ids
          deciding, \* the row each device is about to append
          clock,    \* the time a row is given when it is made
          subject,  \* the row of the client
          held,     \* rows of other tables with data about the client
          files,    \* the files of those documents
          eraser,   \* the pass that anonymises, one at a time
          form,     \* the client row a slow portal request has read
          late,     \* what was written since the eraser last looked (not a column)
          runs

consentVars == <<log, deciding, clock>>
erasureVars == <<subject, held, files, eraser, form, late, runs>>
privacyVars == <<consentVars, erasureVars>>

ErasureStatus == {"none", "requested", "approved", "fulfilled", "rejected"}
Items == Uploads \cup {"mos"}
Subject == [name : {"own", "anonymized"}, erasure : ErasureStatus, hold : BOOLEAN, old : BOOLEAN]
Nothing == [phase |-> "idle"]
Row == [purpose : ConsentPurposes, granted : BOOLEAN, at : 1..MaxConsents, prev : 0..MaxConsents]

PrivacyInit ==
    /\ log = <<>>
    /\ deciding = [d \in Devices |-> Nothing]
    /\ clock = 0
    /\ subject \in [name : {"own"}, erasure : {"none"}, hold : {FALSE}, old : BOOLEAN]
    /\ held = {} /\ files = {} /\ late = {}
    /\ eraser = Nothing /\ form = Nothing
    /\ runs = 0
-----------------------------------------------------------------------------
(* Consent. *)

\* Ids of rows in order of created_at, then id.
Before(i, j) == log[i].at < log[j].at \/ (log[i].at = log[j].at /\ i < j)

LatestOf(ids) == CHOOSE i \in ids : \A j \in ids \ {i} : Before(j, i)

IsGranted(p) ==
    LET ids == {i \in DOMAIN log : log[i].purpose = p}
    IN ids # {} /\ log[LatestOf(ids)].granted

LatestPrevHash == IF log = <<>> THEN 0 ELSE LatestOf(DOMAIN log)

(* The page asks whether the decision changes anything, and makes the row:  *)
(* created_at is the time of the making.                                    *)
Decide(d, p, granted) ==
    /\ deciding[d] = Nothing
    /\ IsGranted(p) # granted
    /\ clock < MaxConsents
    /\ clock' = clock + 1
    /\ deciding' = [deciding EXCEPT ![d] =
            [phase |-> "made", purpose |-> p, granted |-> granted, at |-> clock + 1]]
    /\ UNCHANGED log

(* save() reads the row before.  The transaction around it locks nothing.   *)
ReadChain(d) ==
    /\ deciding[d].phase = "made"
    /\ deciding' = [deciding EXCEPT ![d] =
            [phase |-> "chained", purpose |-> @.purpose, granted |-> @.granted,
             at |-> @.at, prev |-> LatestPrevHash]]
    /\ UNCHANGED <<log, clock>>

Record(d) ==
    /\ deciding[d].phase = "chained"
    /\ LET r == deciding[d]
       IN log' = Append(log, [purpose |-> r.purpose, granted |-> r.granted,
                              at |-> r.at, prev |-> r.prev])
    /\ deciding' = [deciding EXCEPT ![d] = Nothing]
    /\ UNCHANGED clock

(* Every row names the row before it in the order of time, the first none.  *)
VerifyChain ==
    \A i \in DOMAIN log :
        LET earlier == {j \in DOMAIN log : Before(j, i)}
        IN log[i].prev = IF earlier = {} THEN 0 ELSE LatestOf(earlier)

ConsentNext ==
    \/ \E d \in Devices, p \in ConsentPurposes, granted \in BOOLEAN : Decide(d, p, granted)
    \/ \E d \in Devices : ReadChain(d) \/ Record(d)
-----------------------------------------------------------------------------
(* The request for erasure and its review. *)

RestStays == UNCHANGED <<held, files, eraser, form, late, runs>>

RequestErasure ==
    /\ subject.erasure \in {"none", "rejected"}
    /\ subject' = [subject EXCEPT !.erasure = "requested"]
    /\ RestStays

ApproveErasure ==
    /\ ~subject.hold
    /\ subject.erasure = "requested"
    /\ subject' = [subject EXCEPT !.erasure = "approved"]
    /\ RestStays

RejectErasure ==
    /\ subject.erasure \in {"requested", "approved"}
    /\ subject' = [subject EXCEPT !.erasure = "rejected"]
    /\ RestStays

PlaceLegalHold ==
    /\ ~subject.hold
    /\ subject' = [subject EXCEPT !.hold = TRUE]
    /\ RestStays

ReleaseLegalHold ==
    /\ subject.hold
    /\ subject' = [subject EXCEPT !.hold = FALSE]
    /\ RestStays
-----------------------------------------------------------------------------
(* The anonymisation. *)

\* fault: the hold is not asked for
ListsApprovedHeld == subject.erasure = "approved"

\* whom a pass for the approved requests takes, and whom the sweep by age
ListsApproved == subject.erasure = "approved" /\ ~subject.hold
ListsOld == subject.old /\ subject.name = "own" /\ ~subject.hold

(* The clients are listed once; their rows wait until it is their turn.     *)
List(mark) ==
    /\ eraser = Nothing
    /\ runs < MaxRuns
    /\ IF mark THEN ListsApproved ELSE ListsOld
    /\ runs' = runs + 1
    /\ eraser' = [phase |-> "listed", row |-> subject, mark |-> mark]
    /\ UNCHANGED <<subject, held, files, form, late>>

(* Files go at once, rows when the transaction commits. *)
PurgeSubjectStores ==
    /\ eraser.phase = "listed"
    /\ eraser' = [phase |-> "purged", row |-> eraser.row, mark |-> eraser.mark, gone |-> held]
    /\ files' = files \ held
    /\ UNCHANGED <<subject, held, form, late, runs>>

\* fault: what the purge did not see is not looked for
PassesUnasked == TRUE

ErasureComplete == held \subseteq eraser.gone

(* Only a request that is to be marked fulfilled is looked at again. *)
Passes == eraser.mark => ErasureComplete

AssertErasureComplete ==
    /\ eraser.phase = "purged"
    /\ \/ /\ Passes
          /\ eraser' = [eraser EXCEPT !.phase = "checked"]
          /\ late' = IF eraser.mark THEN {} ELSE late
       \/ /\ ~Passes
          /\ eraser' = Nothing
          /\ UNCHANGED late
    /\ UNCHANGED <<subject, held, files, form, runs>>

(* The row as it was listed is written back whole, without the name. *)
Anonymize ==
    /\ eraser.phase = "checked"
    /\ held' = held \ eraser.gone
    /\ subject' = [eraser.row EXCEPT !.name = "anonymized",
                                     !.erasure = IF eraser.mark THEN "fulfilled" ELSE @]
    /\ eraser' = Nothing
    /\ UNCHANGED <<files, form, late, runs>>
-----------------------------------------------------------------------------
(* The portal goes on meanwhile. *)

Store(item) ==
    /\ item \notin held
    /\ held' = held \cup {item}
    /\ files' = files \cup ({item} \cap Uploads)
    /\ late' = late \cup {item}
    /\ UNCHANGED <<subject, eraser, form, runs>>

OpenAutosave ==
    /\ form = Nothing
    /\ form' = [phase |-> "open", row |-> subject]
    /\ UNCHANGED <<subject, held, files, eraser, late, runs>>

(* An autosave writes the whole client row. *)
SaveAutosave ==
    /\ form # Nothing
    /\ subject' = [form.row EXCEPT !.name = "own"]
    /\ form' = Nothing
    /\ late' = late \cup {"name"}
    /\ UNCHANGED <<held, files, eraser, runs>>

ErasureNext ==
    \/ RequestErasure \/ ApproveErasure \/ RejectErasure
    \/ PlaceLegalHold \/ ReleaseLegalHold
    \/ \E mark \in BOOLEAN : List(mark)
    \/ PurgeSubjectStores \/ AssertErasureComplete \/ Anonymize
    \/ \E item \in Items : Store(item)
    \/ OpenAutosave \/ SaveAutosave

PrivacyNext ==
    \/ ConsentNext /\ UNCHANGED erasureVars
    \/ ErasureNext /\ UNCHANGED consentVars

PrivacySpec == PrivacyInit /\ [][PrivacyNext]_privacyVars
-----------------------------------------------------------------------------
PrivacyTypeOK ==
    /\ log \in Seq(Row) /\ Len(log) <= MaxConsents
    /\ clock \in 0..MaxConsents
    /\ \A d \in Devices : deciding[d].phase \in {"idle", "made", "chained"}
    /\ subject \in Subject
    /\ files \subseteq Uploads /\ held \subseteq Items
    /\ eraser.phase \in {"idle", "listed", "purged", "checked"}
    /\ eraser # Nothing => eraser.row \in Subject
    /\ form # Nothing => form.row \in Subject
    /\ runs \in 0..MaxRuns

(* "A request is never marked fulfilled while recoverable PII remains"       *)
(* (services/anonymization.py:119-124): what is there of a client whose      *)
(* erasure is fulfilled was written after the eraser had looked, whatever    *)
(* was uploaded while it was purging.                                        *)
ErasureLeavesNothing ==
    subject.erasure = "fulfilled" =>
        /\ held \subseteq late
        /\ subject.name = "anonymized" \/ "name" \in late

(* A client under a legal hold loses data only to a pass that had listed the *)
(* client before the hold was placed (services/erasure.py:9-12).             *)
HoldsYieldToListedOnly ==
    [][(subject.hold /\ eraser # Nothing /\ subject'.name = "anonymized"
         /\ eraser' = Nothing) => eraser.row # subject]_privacyVars

(* "So the hash-chain read (previous row) and this insert cannot interleave  *)
(* with a concurrent write for the same client" (models/consent.py): the     *)
(* chain verifies as long as nobody tampers with it.                         *)
ChainVerifies == VerifyChain
=============================================================================
