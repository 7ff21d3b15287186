------------------------- MODULE ClientFileProofs --------------------------
(* Theorems about what is in a client's file: the intake form, the           *)
(* questionnaire, consent and erasure, the lists of papers, their way to the *)
(* office and back, the family, and the keys under which all of it is        *)
(* stored.  Each part is proved of its own specification, and what the model *)
(* is checked as (MCClientFile) behaves as all of them.                      *)
EXTENDS MCClientFile, FiniteSetTheorems, WellFoundedInduction, TLAPS

-----------------------------------------------------------------------------
LEMMA LeastNatural ==
  ASSUME NEW S \in SUBSET Nat, S # {}
  PROVE  \E m \in S : \A k \in S : m <= k
<1>1. PICK m \in S : \A k \in S : <<k, m>> \notin OpToRel(<, Nat)
  BY WFMin, NatLessThanWellFounded
<1>2. \A k \in S : ~(k < m)
  BY <1>1 DEF OpToRel
<1>3. \A k \in S : k \in Nat /\ m \in Nat
  OBVIOUS
<1> QED  BY <1>2, <1>3

-----------------------------------------------------------------------------
(* Consent and erasure (Privacy).                                            *)
Decisions ==
    [phase : {"made"}, purpose : ConsentPurposes, granted : BOOLEAN, at : 1..MaxConsents]
    \cup [phase : {"chained"}, purpose : ConsentPurposes, granted : BOOLEAN, at : 1..MaxConsents, prev : 0..MaxConsents]

(* No two rows of the log, made or to be made, have one time, and none has   *)
(* a later time than now: so the log has no more rows than there were times. *)
ConsentInv ==
    /\ log \in Seq(Row) /\ clock \in 0..MaxConsents
    /\ deciding \in [Devices -> Decisions \cup {Nothing}]
    /\ \A i \in DOMAIN log : log[i].at <= clock
    /\ \A i, j \in DOMAIN log : log[i].at = log[j].at => i = j
    /\ \A d \in Devices : deciding[d] # Nothing =>
        /\ deciding[d].at <= clock
        /\ \A i \in DOMAIN log : log[i].at # deciding[d].at
        /\ \A k \in Devices : deciding[k] # Nothing /\ deciding[k].at = deciding[d].at => k = d

LEMMA LogRows ==
  ASSUME ConsentInv
  PROVE  /\ clock \in Nat /\ Len(log) \in Nat /\ DOMAIN log = 1..Len(log)
         /\ \A i \in DOMAIN log : i \in Nat /\ log[i] \in Row /\ log[i].at \in 1..clock
<1>1. clock \in Nat /\ Len(log) \in Nat /\ DOMAIN log = 1..Len(log)
  BY PrivacyAssumption DEF ConsentInv
<1>2. \A i \in 1..Len(log) : i \in Nat /\ log[i] \in Row
  BY DEF ConsentInv
<1>3. \A r \in Row : r.at \in Nat /\ r.at >= 1
  BY PrivacyAssumption DEF Row
<1> QED  BY <1>1, <1>2, <1>3 DEF ConsentInv

LEMMA LogIsBounded == ASSUME ConsentInv PROVE Len(log) \in 0..clock
<1> DEFINE n == Len(log)
           times == [i \in 1..n |-> log[i].at]
<1>1. n \in Nat /\ DOMAIN log = 1..n /\ clock \in Nat
  BY LogRows
<1>2. \A i \in 1..n : log[i].at \in 1..clock
  BY LogRows
<1>3. times \in Injection(1..n, 1..clock)
  BY <1>1, <1>2 DEF ConsentInv, Injection, IsInjective
<1> HIDE DEF n, times
<1>4. /\ IsFiniteSet(1..clock) /\ Cardinality(1..clock) = clock
      /\ IsFiniteSet(1..n) /\ Cardinality(1..n) = n
  BY <1>1, FS_Interval
<1>5. Cardinality(1..n) <= Cardinality(1..clock)
  BY <1>3, <1>4, FS_Injection
<1> QED  BY <1>1, <1>4, <1>5 DEF n

(* The row before is one of the log.                                         *)
LEMMA LatestIsOfThem ==
  ASSUME ConsentInv, NEW ids \in SUBSET DOMAIN log, ids # {}
  PROVE  LatestOf(ids) \in ids
<1>1. /\ clock \in Nat /\ DOMAIN log \subseteq Nat
      /\ \A i \in DOMAIN log : log[i].at \in Nat /\ log[i].at <= clock
  BY LogRows
<1> DEFINE ages == {clock - log[i].at : i \in ids}
<1>2. ages \in SUBSET Nat /\ ages # {}
  BY <1>1
<1>3. PICK m \in ages : \A k \in ages : m <= k
  <2> HIDE DEF ages
  <2> QED  BY <1>2, LeastNatural
<1>4. PICK i \in ids : m = clock - log[i].at
  BY <1>3
<1>5. \A j \in ids \ {i} : log[j].at <= log[i].at /\ log[j].at # log[i].at
  <2> SUFFICES ASSUME NEW j \in ids \ {i} PROVE log[j].at <= log[i].at /\ log[j].at # log[i].at
    OBVIOUS
  <2>1. clock - log[i].at <= clock - log[j].at
    BY <1>3, <1>4
  <2>2. log[j].at # log[i].at
    BY DEF ConsentInv
  <2> QED  BY <1>1, <2>1, <2>2
<1>6. \A j \in ids \ {i} : Before(j, i)
  BY <1>1, <1>5 DEF Before
<1> QED  BY <1>6 DEF LatestOf

LEMMA ConsentInitHolds == ASSUME PrivacyInit PROVE ConsentInv
  BY PrivacyAssumption DEF PrivacyInit, ConsentInv, Nothing

LEMMA ConsentKeeps == ASSUME ConsentInv, ConsentNext PROVE ConsentInv'
<1>0. /\ clock \in Nat /\ MaxConsents \in Nat /\ clock <= MaxConsents
      /\ \A d \in Decisions : d # Nothing /\ d.at \in 1..MaxConsents
  BY PrivacyAssumption DEF ConsentInv, Decisions, Nothing
<1>1. ASSUME NEW d \in Devices, NEW p \in ConsentPurposes, NEW granted \in BOOLEAN, Decide(d, p, granted)
      PROVE  ConsentInv'
  <2> DEFINE row == [phase |-> "made", purpose |-> p, granted |-> granted, at |-> clock + 1]
  <2>1. row \in Decisions /\ row # Nothing /\ row.at = clock + 1
    BY <1>0, <1>1 DEF Decide, Decisions, Nothing
  <2>2. deciding' = [deciding EXCEPT ![d] = row] /\ clock' = clock + 1 /\ clock + 1 <= MaxConsents /\ log' = log
    BY <1>0, <1>1 DEF Decide
  <2> HIDE DEF row
  <2>3. deciding' \in [Devices -> Decisions \cup {Nothing}] /\ clock' \in 0..MaxConsents
    BY <1>0, <2>1, <2>2 DEF ConsentInv
  <2>4. \A i \in DOMAIN log : log[i].at \in Nat /\ log[i].at <= clock
    BY LogRows
  <2>5. \A k \in Devices : k # d => deciding'[k] = deciding[k]
    BY <2>2 DEF ConsentInv
  <2>6. deciding'[d] = row
    BY <2>2 DEF ConsentInv
  <2>7. \A k \in Devices : deciding[k] # Nothing => deciding[k].at \in Nat /\ deciding[k].at <= clock
    BY <1>0 DEF ConsentInv
  <2> QED  BY <1>0, <2>1, <2>2, <2>3, <2>4, <2>5, <2>6, <2>7 DEF ConsentInv
<1>2. ASSUME NEW d \in Devices, ReadChain(d) PROVE ConsentInv'
  <2> DEFINE row == [phase |-> "chained", purpose |-> deciding[d].purpose, granted |-> deciding[d].granted,
                     at |-> deciding[d].at, prev |-> LatestPrevHash]
  <2>1. LatestPrevHash \in 0..MaxConsents
    <3>1. Len(log) \in 0..clock /\ DOMAIN log = 1..Len(log) /\ (log = <<>> <=> Len(log) = 0)
      BY LogIsBounded DEF ConsentInv
    <3>2. CASE log = <<>>
      BY <1>0, <3>2 DEF LatestPrevHash
    <3>3. CASE log # <<>>
      <4>1. DOMAIN log # {}
        BY <3>1, <3>3
      <4>2. LatestOf(DOMAIN log) \in DOMAIN log
        BY <4>1, LatestIsOfThem
      <4> QED  BY <1>0, <3>1, <3>3, <4>2 DEF LatestPrevHash
    <3> QED  BY <3>2, <3>3
  <2>2. deciding[d] \in Decisions /\ deciding[d].phase = "made"
    BY <1>2 DEF ReadChain, ConsentInv, Nothing
  <2>3. row \in Decisions /\ row.at = deciding[d].at /\ deciding[d] # Nothing
    BY <1>0, <2>1, <2>2 DEF Decisions
  <2>4. deciding' = [deciding EXCEPT ![d] = row] /\ UNCHANGED <<log, clock>>
    BY <1>2 DEF ReadChain
  <2> HIDE DEF row
  <2>5. deciding' \in [Devices -> Decisions \cup {Nothing}] /\ deciding'[d] = row /\ \A k \in Devices : k # d => deciding'[k] = deciding[k]
    BY <2>3, <2>4 DEF ConsentInv
  <2> QED  BY <2>3, <2>4, <2>5 DEF ConsentInv
<1>3. ASSUME NEW d \in Devices, Record(d) PROVE ConsentInv'
  <2> DEFINE row == [purpose |-> deciding[d].purpose, granted |-> deciding[d].granted,
                     at |-> deciding[d].at, prev |-> deciding[d].prev]
  <2>1. deciding[d] \in Decisions /\ deciding[d].phase = "chained" /\ deciding[d] # Nothing
    BY <1>0, <1>3 DEF Record, ConsentInv, Nothing
  <2>2. row \in Row /\ row.at = deciding[d].at
    BY <2>1 DEF Decisions, Row
  <2>3. log' = Append(log, row) /\ deciding' = [deciding EXCEPT ![d] = Nothing] /\ clock' = clock
    BY <1>3 DEF Record
  <2> HIDE DEF row
  <2>4. log' \in Seq(Row) /\ DOMAIN log' = 1..(Len(log) + 1) /\ log'[Len(log) + 1] = row /\ Len(log) \in Nat /\ DOMAIN log = 1..Len(log)
    BY <2>2, <2>3 DEF ConsentInv
  <2>5. \A i \in DOMAIN log : log'[i] = log[i]
    BY <2>2, <2>3 DEF ConsentInv
  <2>6. \A i \in DOMAIN log' : i = Len(log) + 1 \/ i \in DOMAIN log
    BY <2>4
  <2>7. deciding' \in [Devices -> Decisions \cup {Nothing}] /\ deciding'[d] = Nothing /\ \A k \in Devices : k # d => deciding'[k] = deciding[k]
    BY <2>3 DEF ConsentInv
  <2>8. \A i \in DOMAIN log' : log'[i].at <= clock'
    BY <2>1, <2>2, <2>3, <2>4, <2>5, <2>6 DEF ConsentInv
  <2>9. \A i, j \in DOMAIN log' : log'[i].at = log'[j].at => i = j
    BY <2>1, <2>2, <2>4, <2>5, <2>6 DEF ConsentInv
  <2>10. \A k \in Devices : deciding'[k] # Nothing =>
            /\ deciding'[k].at <= clock'
            /\ \A i \in DOMAIN log' : log'[i].at # deciding'[k].at
            /\ \A h \in Devices : deciding'[h] # Nothing /\ deciding'[h].at = deciding'[k].at => h = k
    BY <2>1, <2>2, <2>3, <2>4, <2>5, <2>6, <2>7 DEF ConsentInv
  <2> QED  BY <2>3, <2>4, <2>7, <2>8, <2>9, <2>10 DEF ConsentInv
<1> QED  BY <1>1, <1>2, <1>3 DEF ConsentNext
-----------------------------------------------------------------------------
(* Erasure. *)
ErasurePasses ==
    [phase : {"listed"}, row : Subject, mark : BOOLEAN]
    \cup [phase : {"purged", "checked"}, row : Subject, mark : BOOLEAN, gone : SUBSET Items]
Forms == [phase : {"open"}, row : Subject]

(* Whatever row a pass or a portal request will write back, it does not take *)
(* an erasure back or make one fulfilled, but for a pass that is to; and     *)
(* what such a pass found complete is, but for what was written since.       *)
ErasureInv ==
    /\ subject \in Subject
    /\ files \subseteq Uploads /\ held \subseteq Items
    /\ eraser \in ErasurePasses \cup {Nothing} /\ form \in Forms \cup {Nothing}
    /\ runs \in 0..MaxRuns
    /\ form # Nothing /\ form.row.erasure = "fulfilled" => subject.erasure = "fulfilled"
    /\ eraser # Nothing => /\ ~eraser.row.hold
                           /\ subject.erasure = "fulfilled" <=> eraser.row.erasure = "fulfilled"
                           /\ eraser.mark => eraser.row.erasure = "approved"
    /\ subject.erasure = "fulfilled" /\ form # Nothing /\ form.row.erasure # "fulfilled" =>
           eraser = Nothing /\ subject.name = "anonymized"
    /\ eraser.phase = "checked" /\ eraser.mark => held \subseteq eraser.gone \cup late

LEMMA ErasureInitHolds == ASSUME PrivacyInit PROVE ErasureInv /\ ErasureLeavesNothing
<1>1. subject \in Subject /\ subject.erasure = "none"
  BY DEF PrivacyInit, Subject, ErasureStatus
<1>2. eraser.phase = "idle"
  BY DEF PrivacyInit, Nothing
<1> QED  BY <1>1, <1>2, PrivacyAssumption DEF PrivacyInit, ErasureInv, ErasureLeavesNothing

LEMMA NothingIsIdle == Nothing.phase = "idle" /\ (\A f \in ErasurePasses \cup Forms : f # Nothing)
  BY DEF Nothing, ErasurePasses, Forms

(* The request and its review change one field, and never to fulfilled.      *)
LEMMA ReviewKeeps ==
  ASSUME ErasureInv, ErasureLeavesNothing,
         RequestErasure \/ ApproveErasure \/ RejectErasure \/ PlaceLegalHold \/ ReleaseLegalHold
  PROVE  ErasureInv' /\ ErasureLeavesNothing'
<1>1. /\ subject' \in Subject /\ subject'.name = subject.name
      /\ subject'.erasure = "fulfilled" <=> subject.erasure = "fulfilled"
  BY DEF ErasureInv, RequestErasure, ApproveErasure, RejectErasure, PlaceLegalHold, ReleaseLegalHold, Subject, ErasureStatus
<1>2. UNCHANGED <<held, files, eraser, form, late, runs>>
  BY DEF RequestErasure, ApproveErasure, RejectErasure, PlaceLegalHold, ReleaseLegalHold, RestStays
<1> QED  BY <1>1, <1>2 DEF ErasureInv, ErasureLeavesNothing

LEMMA PassKeeps ==
  ASSUME ErasureInv, ErasureLeavesNothing,
         (\E mark \in BOOLEAN : List(mark)) \/ PurgeSubjectStores \/ AssertErasureComplete \/ Anonymize
  PROVE  ErasureInv' /\ ErasureLeavesNothing'
<1>1. ASSUME NEW mark \in BOOLEAN, List(mark) PROVE ErasureInv' /\ ErasureLeavesNothing'
  <2>1. /\ eraser' = [phase |-> "listed", row |-> subject, mark |-> mark]
        /\ UNCHANGED <<subject, held, files, form, late>>
        /\ runs' = runs + 1 /\ runs < MaxRuns
        /\ ~subject.hold /\ (mark => subject.erasure = "approved") /\ (~mark => subject.name = "own")
    BY <1>1 DEF List, ListsApproved, ListsOld
  <2>2. eraser' \in ErasurePasses /\ eraser'.phase = "listed" /\ eraser'.row = subject /\ eraser'.mark = mark
    BY <2>1 DEF ErasureInv, ErasurePasses
  <2>3. runs' \in 0..MaxRuns
    BY <2>1, PrivacyAssumption DEF ErasureInv
  <2>4. ~(subject.erasure = "fulfilled" /\ form # Nothing /\ form.row.erasure # "fulfilled")
    BY <2>1 DEF ErasureInv
  <2> QED  BY <2>1, <2>2, <2>3, <2>4 DEF ErasureInv, ErasureLeavesNothing
<1>2. CASE PurgeSubjectStores
  <2>1. eraser \in ErasurePasses /\ eraser # Nothing
    BY <1>2, NothingIsIdle DEF PurgeSubjectStores, ErasureInv
  <2>2. /\ eraser' \in ErasurePasses /\ eraser'.phase = "purged" /\ eraser'.row = eraser.row /\ eraser'.mark = eraser.mark
        /\ files' \subseteq Uploads
    BY <1>2, <2>1 DEF PurgeSubjectStores, ErasureInv, ErasurePasses
  <2> QED  BY <1>2, <2>1, <2>2 DEF PurgeSubjectStores, ErasureInv, ErasureLeavesNothing
<1>3. CASE AssertErasureComplete
  <2>0. eraser.phase = "purged" /\ UNCHANGED <<subject, held, files, form, runs>>
    BY <1>3 DEF AssertErasureComplete
  <2>1. eraser \in ErasurePasses /\ eraser # Nothing
    BY <2>0, NothingIsIdle DEF ErasureInv
  <2>2. CASE Passes /\ eraser' = [eraser EXCEPT !.phase = "checked"] /\ late' = IF eraser.mark THEN {} ELSE late
    <3>1. /\ eraser' \in ErasurePasses /\ eraser'.phase = "checked" /\ eraser'.row = eraser.row
          /\ eraser'.mark = eraser.mark /\ eraser'.gone = eraser.gone
      BY <2>0, <2>1, <2>2 DEF ErasurePasses
    <3>2. eraser.mark => held \subseteq eraser.gone
      BY <2>2 DEF Passes, ErasureComplete
    <3>3. eraser.mark => subject.erasure # "fulfilled"
      BY <2>1 DEF ErasureInv
    <3>4. subject.erasure = "fulfilled" => late' = late
      BY <2>2, <3>3
    <3>5. ErasureInv'
      BY <2>0, <2>1, <3>1, <3>2 DEF ErasureInv
    <3> QED  BY <2>0, <3>4, <3>5 DEF ErasureLeavesNothing
  <2>3. CASE eraser' = Nothing /\ UNCHANGED late
    BY <2>0, <2>3, NothingIsIdle DEF ErasureInv, ErasureLeavesNothing
  <2> QED  BY <1>3, <2>2, <2>3 DEF AssertErasureComplete
<1>4. CASE Anonymize
  <2>1. /\ eraser.phase = "checked" /\ eraser \in ErasurePasses /\ eraser # Nothing
        /\ held' = held \ eraser.gone /\ eraser' = Nothing /\ UNCHANGED <<files, form, late, runs>>
    BY <1>4, NothingIsIdle DEF Anonymize, ErasureInv
  <2>2. /\ subject' \in Subject /\ subject'.name = "anonymized"
        /\ subject'.erasure = IF eraser.mark THEN "fulfilled" ELSE eraser.row.erasure
    <3>1. eraser.row \in Subject /\ eraser.mark \in BOOLEAN
      BY <2>1 DEF ErasurePasses
    <3> QED  BY <1>4, <3>1 DEF Anonymize, Subject, ErasureStatus
  <2>3. held' \subseteq Items
    BY <2>1 DEF ErasureInv
  <2>4. subject'.erasure = "fulfilled" => held' \subseteq late
    BY <2>1, <2>2 DEF ErasureInv, ErasureLeavesNothing
  <2>5. form # Nothing /\ form.row.erasure = "fulfilled" => subject'.erasure = "fulfilled"
    BY <2>1, <2>2 DEF ErasureInv
  <2>6. ErasureInv'
    BY <2>1, <2>2, <2>3, <2>5, NothingIsIdle DEF ErasureInv
  <2> QED  BY <2>1, <2>2, <2>4, <2>6 DEF ErasureLeavesNothing
<1> QED  BY <1>1, <1>2, <1>3, <1>4

LEMMA PortalKeeps ==
  ASSUME ErasureInv, ErasureLeavesNothing, (\E item \in Items : Store(item)) \/ OpenAutosave \/ SaveAutosave
  PROVE  ErasureInv' /\ ErasureLeavesNothing'
<1>1. ASSUME NEW item \in Items, Store(item) PROVE ErasureInv' /\ ErasureLeavesNothing'
  <2>1. /\ held' = held \cup {item} /\ late' = late \cup {item} /\ files' \subseteq Uploads
        /\ UNCHANGED <<subject, eraser, form, runs>>
    BY <1>1 DEF Store, ErasureInv
  <2>2. held' \subseteq Items
    BY <1>1, <2>1 DEF ErasureInv
  <2>3. eraser.phase = "checked" /\ eraser.mark => held' \subseteq eraser.gone \cup late'
    BY <2>1 DEF ErasureInv
  <2>4. ErasureInv'
    BY <2>1, <2>2, <2>3 DEF ErasureInv
  <2> QED  BY <2>1, <2>4 DEF ErasureLeavesNothing
<1>2. CASE OpenAutosave
  <2>1. form' \in Forms /\ form'.row = subject /\ UNCHANGED <<subject, held, files, eraser, late, runs>>
    BY <1>2 DEF OpenAutosave, ErasureInv, Forms
  <2> QED  BY <2>1 DEF ErasureInv, ErasureLeavesNothing
<1>3. CASE SaveAutosave
  <2>1. /\ form # Nothing /\ form.row \in Subject /\ form' = Nothing /\ late' = late \cup {"name"}
        /\ subject' = [form.row EXCEPT !.name = "own"] /\ UNCHANGED <<held, files, eraser, runs>>
    BY <1>3 DEF SaveAutosave, ErasureInv, Forms
  <2>2. subject' \in Subject /\ subject'.erasure = form.row.erasure
    BY <2>1 DEF Subject
  <2>3. eraser # Nothing => (subject'.erasure = "fulfilled" <=> subject.erasure = "fulfilled")
    BY <2>1, <2>2 DEF ErasureInv
  <2>4. subject'.erasure = "fulfilled" => held \subseteq late
    BY <2>1, <2>2 DEF ErasureInv, ErasureLeavesNothing
  <2>5. eraser.phase = "checked" /\ eraser.mark => held' \subseteq eraser.gone \cup late'
    BY <2>1 DEF ErasureInv
  <2>6. ErasureInv'
    BY <2>1, <2>2, <2>3, <2>5 DEF ErasureInv
  <2> QED  BY <2>1, <2>4, <2>6 DEF ErasureLeavesNothing
<1> QED  BY <1>1, <1>2, <1>3

PrivacyInv == ConsentInv /\ ErasureInv /\ ErasureLeavesNothing

LEMMA PrivacyStep == ASSUME PrivacyInv, [PrivacyNext]_privacyVars PROVE PrivacyInv'
<1>1. CASE ConsentNext /\ UNCHANGED erasureVars
  <2>1. ConsentInv'
    BY <1>1, ConsentKeeps DEF PrivacyInv
  <2>2. ErasureInv' /\ ErasureLeavesNothing'
    BY <1>1 DEF PrivacyInv, erasureVars, ErasureInv, ErasureLeavesNothing
  <2> QED  BY <2>1, <2>2 DEF PrivacyInv
<1>2. CASE ErasureNext /\ UNCHANGED consentVars
  <2>1. ConsentInv'
    BY <1>2 DEF PrivacyInv, consentVars, ConsentInv
  <2>2. ErasureInv' /\ ErasureLeavesNothing'
    BY <1>2, ReviewKeeps, PassKeeps, PortalKeeps DEF PrivacyInv, ErasureNext
  <2> QED  BY <2>1, <2>2 DEF PrivacyInv
<1>3. CASE UNCHANGED privacyVars
  BY <1>3 DEF PrivacyInv, privacyVars, consentVars, erasureVars, ConsentInv, ErasureInv, ErasureLeavesNothing
<1> QED  BY <1>1, <1>2, <1>3 DEF PrivacyNext

LEMMA PrivacyInvHolds == PrivacySpec => []PrivacyInv
<1>1. PrivacyInit => PrivacyInv
  BY ConsentInitHolds, ErasureInitHolds DEF PrivacyInv
<1> QED  BY <1>1, PrivacyStep, PTL DEF PrivacySpec

LEMMA PrivacyHasItsTypes == ASSUME PrivacyInv PROVE PrivacyTypeOK
<1>1. log \in Seq(Row) /\ Len(log) <= MaxConsents /\ clock \in 0..MaxConsents
  BY LogIsBounded, PrivacyAssumption DEF PrivacyInv, ConsentInv
<1>2. \A x \in Decisions \cup {Nothing} : x.phase \in {"idle", "made", "chained"}
  BY DEF Decisions, Nothing
<1>3. \A d \in Devices : deciding[d].phase \in {"idle", "made", "chained"}
  BY <1>2 DEF PrivacyInv, ConsentInv
<1>4. /\ \A x \in ErasurePasses : x.row \in Subject /\ x.phase \in {"listed", "purged", "checked"}
      /\ \A x \in Forms : x.row \in Subject
  BY DEF ErasurePasses, Forms
<1> QED  BY <1>1, <1>3, <1>4, NothingIsIdle DEF PrivacyInv, ErasureInv, PrivacyTypeOK

(* For any uploads, passes and stale rows written back: what is there of a   *)
(* client whose erasure is fulfilled was written after the eraser had looked *)
(* (anonymization.py:119-124).                                               *)
THEOREM ErasuresAreComplete == PrivacySpec => []ErasureLeavesNothing
<1>1. PrivacyInv => ErasureLeavesNothing
  BY DEF PrivacyInv
<1> QED  BY <1>1, PrivacyInvHolds, PTL

(* A client under a legal hold loses data only to a pass that had listed the *)
(* client before the hold was placed (services/erasure.py:9-12).             *)
THEOREM HoldsAreHeeded == PrivacySpec => HoldsYieldToListedOnly
<1> DEFINE A == subject.hold /\ eraser # Nothing /\ subject'.name = "anonymized" /\ eraser' = Nothing => eraser.row # subject
<1>1. PrivacyInv => A
  BY DEF PrivacyInv, ErasureInv
<1>2. HoldsYieldToListedOnly <=> [][A]_privacyVars
  BY DEF HoldsYieldToListedOnly
<1> HIDE DEF A
<1>3. PrivacyInv /\ [PrivacyNext]_privacyVars => [A]_privacyVars
  BY <1>1
<1> QED  BY <1>2, <1>3, PrivacyInvHolds, PTL DEF PrivacySpec

-----------------------------------------------------------------------------
(* The intake form (Intake).                                                 *)
Posts == {NoPost} \cup [phase : {"read", "submitted", "classified"}, email : Emails]

(* The clients are numbered without gaps, and what a request is about to do  *)
(* is about an address.                                                      *)
IntakeShapes ==
    /\ post \in [Visitors -> Posts]
    /\ \E n \in 0..MaxClients : clients \in [1..n -> IntakeClient]

IntakeInv == IntakeTypeOK /\ IntakeShapes /\ NoOrphanedFormClient

LEMMA IntakeInitHolds == ASSUME IntakeInit PROVE IntakeInv
<1>1. clients \in [1..0 -> IntakeClient] /\ DOMAIN clients = {}
  BY DEF IntakeInit
<1>2. IntakeTypeOK
  <2>1. 0 \in 0..MaxClients /\ NoAccount \in 0..NoAccount
    BY IntakeAssumption DEF NoAccount
  <2>2. \A v \in Visitors : post[v].phase = "none"
    BY DEF IntakeInit, NoPost
  <2> QED  BY <1>1, <2>1, <2>2 DEF IntakeInit, IntakeTypeOK, IntakeStatus
<1>3. IntakeShapes
  BY <1>1, IntakeAssumption DEF IntakeInit, IntakeShapes, Posts
<1> QED  BY <1>1, <1>2, <1>3 DEF IntakeInv, NoOrphanedFormClient

(* What a new client's row is, and that the others keep theirs. *)
LEMMA AddedClient ==
  ASSUME IntakeInv, NEW e \in Emails, NEW origin \in Origins, NewClient <= MaxClients
  PROVE  /\ NewClient \in 1..MaxClients /\ NewClient \notin DOMAIN clients
         /\ WithClient(e, origin) \in [1..NewClient -> IntakeClient]
         /\ WithClient(e, origin)[NewClient] = [email |-> e, origin |-> origin, archived |-> "never"]
         /\ DOMAIN clients = 1..(NewClient - 1)
         /\ \A c \in DOMAIN clients : WithClient(e, origin)[c] = clients[c]
<1>1. PICK n \in 0..MaxClients : clients \in [1..n -> IntakeClient]
  BY DEF IntakeInv, IntakeShapes
<1>2. DOMAIN clients = 1..n /\ Cardinality(1..n) = n
  <2>1. n \in Nat /\ DOMAIN clients = 1..n
    BY <1>1, IntakeAssumption
  <2> QED  BY <2>1, FS_Interval
<1>3. NewClient = n + 1
  BY <1>2 DEF NewClient
<1>4. [email |-> e, origin |-> origin, archived |-> "never"] \in IntakeClient
  BY DEF IntakeClient, Archived
<1> DEFINE k == NewClient
<1>5. k = n + 1 /\ k \in 1..MaxClients /\ k \notin 1..n /\ 1..n = 1..(k - 1)
  BY <1>1, <1>3, IntakeAssumption
<1>6. WithClient(e, origin) = [c \in 1..k |-> IF c = k THEN [email |-> e, origin |-> origin, archived |-> "never"] ELSE clients[c]]
  BY DEF WithClient
<1> HIDE DEF k
<1>7. \A c \in 1..k : c # k => c \in 1..n
  BY <1>1, <1>5
<1>8. WithClient(e, origin) \in [1..k -> IntakeClient]
  BY <1>1, <1>4, <1>6, <1>7
<1>9. k \in 1..k /\ \A c \in 1..n : c \in 1..k /\ c # k
  BY <1>1, <1>5
<1> QED  BY <1>2, <1>5, <1>6, <1>8, <1>9 DEF k

LEMMA ClientsChange ==
  ASSUME IntakeInv, UNCHANGED <<intake, overdue, post, owner>>,
         NEW c \in DOMAIN clients, NEW archived \in {"now", "before"}, clients' = [clients EXCEPT ![c].archived = archived]
  PROVE  IntakeInv'
<1>1. PICK n \in 0..MaxClients : clients \in [1..n -> IntakeClient]
  BY DEF IntakeInv, IntakeShapes
<1>2. clients' \in [1..n -> IntakeClient] /\ DOMAIN clients' = DOMAIN clients
  BY <1>1 DEF IntakeClient, Archived
<1>3. \A k \in DOMAIN clients : /\ clients'[k].email = clients[k].email /\ clients'[k].origin = clients[k].origin
                                /\ clients'[k].archived = "never" => clients[k].archived = "never"
  BY <1>1 DEF IntakeClient
<1>4. IntakeShapes'
  BY <1>1, <1>2 DEF IntakeShapes, IntakeInv
<1>5. IntakeTypeOK'
  BY <1>1, <1>2 DEF IntakeInv, IntakeTypeOK
<1>6. NoOrphanedFormClient'
  BY <1>2, <1>3 DEF IntakeInv, NoOrphanedFormClient
<1> QED  BY <1>4, <1>5, <1>6 DEF IntakeInv

LEMMA PostsChange ==
  ASSUME IntakeInv, UNCHANGED <<clients, owner>>, overdue' \in BOOLEAN, post' \in [Visitors -> Posts],
         NEW status \in IntakeStatus \ {"converted"}, intake' \in {intake, [intake EXCEPT !.status = status]}
  PROVE  IntakeInv'
<1>1. \A x \in Posts : x.phase \in {"none", "read", "submitted", "classified"}
  BY DEF Posts, NoPost
<1>2. /\ intake' \in [status : IntakeStatus, client : 0..MaxClients]
      /\ intake'.status = "converted" => intake'.client \in DOMAIN clients
  BY DEF IntakeInv, IntakeTypeOK
<1>3. IntakeTypeOK'
  BY <1>1, <1>2 DEF IntakeInv, IntakeTypeOK
<1> QED  BY <1>3 DEF IntakeInv, IntakeShapes, NoOrphanedFormClient

LEMMA VisitorsKeep ==
  ASSUME IntakeInv, NEW v \in Visitors,
         \/ \E e \in Emails : PublicIntake(v, e)
         \/ AddressIsTaken(v) \/ Submit(v) \/ Classify(v)
  PROVE  IntakeInv'
<1>0. post \in [Visitors -> Posts] /\ overdue \in BOOLEAN
  BY DEF IntakeInv, IntakeShapes, IntakeTypeOK
<1>1. ASSUME NEW e \in Emails, PublicIntake(v, e) PROVE IntakeInv'
  <2>1. [phase |-> "read", email |-> e] \in Posts
    BY DEF Posts
  <2>2. post' \in [Visitors -> Posts] /\ intake' \in {intake, [intake EXCEPT !.status = "expired"]}
    BY <1>0, <1>1, <2>1 DEF PublicIntake
  <2> QED  BY <1>0, <1>1, <2>2, PostsChange DEF PublicIntake, IntakeStatus
<1>2. CASE AddressIsTaken(v)
  <2>1. post' \in [Visitors -> Posts] /\ intake' \in {intake, [intake EXCEPT !.status = "expired"]}
    BY <1>0, <1>2 DEF AddressIsTaken, Posts
  <2> QED  BY <1>0, <1>2, <2>1, PostsChange DEF AddressIsTaken, IntakeStatus
<1>3. CASE Submit(v)
  <2>1. post' \in [Visitors -> Posts] /\ intake' \in {intake, [intake EXCEPT !.status = "submitted"]}
    BY <1>0, <1>3 DEF Submit, Posts, NoPost
  <2> QED  BY <1>0, <1>3, <2>1, PostsChange DEF Submit, IntakeStatus
<1>4. CASE Classify(v)
  <2>1. post' \in [Visitors -> Posts] /\ intake' \in {intake, [intake EXCEPT !.status = "needs_review"]}
    BY <1>0, <1>4 DEF Classify, Posts, NoPost
  <2> QED  BY <1>0, <1>4, <2>1, PostsChange DEF Classify, IntakeStatus
<1> QED  BY <1>1, <1>2, <1>3, <1>4

(* A converted form: the address had no account, so no other client made of  *)
(* a form has it.                                                            *)
LEMMA ConversionKeeps == ASSUME IntakeInv, NEW v \in Visitors, ConvertIntakeSubmission(v) PROVE IntakeInv'
<1>0. post \in [Visitors -> Posts] /\ overdue \in BOOLEAN /\ owner \in [Emails -> 0..NoAccount]
  BY DEF IntakeInv, IntakeShapes, IntakeTypeOK
<1> DEFINE e == post[v].email
<1>1. e \in Emails
  BY <1>0 DEF ConvertIntakeSubmission, Posts, NoPost
<1>2. post' \in [Visitors -> Posts]
  BY <1>0 DEF ConvertIntakeSubmission, Posts
<1>3. CASE overdue \/ owner[e] # NoAccount
  <2>1. UNCHANGED <<intake, overdue, clients, owner>>
    BY <1>3 DEF ConvertIntakeSubmission
  <2> QED  BY <1>0, <1>2, <2>1, PostsChange DEF IntakeStatus
<1>4. CASE ~overdue /\ owner[e] = NoAccount
  <2> DEFINE k == NewClient
             added == WithClient(e, "form")
  <2>1. /\ clients' = added /\ owner' = [owner EXCEPT ![e] = k] /\ k <= MaxClients
        /\ intake' = [status |-> "converted", client |-> k] /\ overdue' = overdue
    BY <1>4 DEF ConvertIntakeSubmission
  <2>2. /\ k \in 1..MaxClients /\ k \notin DOMAIN clients /\ added \in [1..k -> IntakeClient]
        /\ added[k] = [email |-> e, origin |-> "form", archived |-> "never"]
        /\ DOMAIN clients = 1..(k - 1)
        /\ \A c \in DOMAIN clients : added[c] = clients[c]
    BY <1>1, <2>1, AddedClient DEF Origins
  <2> HIDE DEF k, added, e
  <2>3. DOMAIN clients' = 1..k /\ k \in 1..k /\ (\A c \in 1..k : c = k \/ c \in DOMAIN clients) /\ 1..k \subseteq 1..MaxClients
    BY <2>1, <2>2, IntakeAssumption
  <2>4. owner' \in [Emails -> 0..NoAccount]
    <3>1. k \in 0..NoAccount
      BY <2>2, IntakeAssumption DEF NoAccount
    <3> QED  BY <1>0, <2>1, <3>1
  <2>5. IntakeTypeOK'
    <3>1. \A x \in Posts : x.phase \in {"none", "read", "submitted", "classified"}
      BY DEF Posts, NoPost
    <3>2. intake' \in [status : IntakeStatus, client : 0..MaxClients] /\ intake'.client \in DOMAIN clients'
      BY <2>1, <2>2, <2>3, IntakeAssumption DEF IntakeStatus
    <3>3. \A c \in DOMAIN clients' : c \in 1..MaxClients /\ clients'[c] \in IntakeClient
      BY <2>1, <2>2, <2>3
    <3> QED  BY <1>0, <1>2, <2>1, <2>4, <3>1, <3>2, <3>3 DEF IntakeTypeOK
  <2>6. IntakeShapes'
    BY <1>2, <2>1, <2>2, IntakeAssumption DEF IntakeShapes
  <2>7. NoOrphanedFormClient'
    <3> SUFFICES ASSUME NEW c \in DOMAIN clients', clients'[c].origin = "form", clients'[c].archived = "never"
                 PROVE  owner'[clients'[c].email] = c
      BY DEF NoOrphanedFormClient
    <3>1. CASE c = k
      BY <1>0, <1>1, <2>1, <2>2, <3>1
    <3>2. CASE c \in DOMAIN clients
      <4>1. clients[c].origin = "form" /\ clients[c].archived = "never" /\ clients'[c] = clients[c]
        BY <2>1, <2>2, <3>2
      <4>2. owner[clients[c].email] = c /\ c \in 1..MaxClients /\ clients[c].email \in Emails
        BY <3>2, <4>1 DEF IntakeInv, NoOrphanedFormClient, IntakeTypeOK, IntakeClient
      <4>3. clients[c].email # e
        BY <1>4, <4>2, IntakeAssumption DEF NoAccount, e
      <4> QED  BY <1>0, <2>1, <4>1, <4>2, <4>3
    <3> QED  BY <2>3, <3>1, <3>2
  <2> QED  BY <2>5, <2>6, <2>7 DEF IntakeInv
<1> QED  BY <1>0, <1>3, <1>4

LEMMA OfficeKeeps ==
  ASSUME IntakeInv, \/ \E e \in Emails : QuickCreateClient(e) \/ AccountWithoutClient(e)
                    \/ \E c \in DOMAIN clients : ArchiveIntakeClient(c) \/ RestoreIntakeClient(c) \/ OnboardingSetPassword(c)
  PROVE  IntakeInv'
<1>0. owner \in [Emails -> 0..NoAccount]
  BY DEF IntakeInv, IntakeTypeOK
<1>1. ASSUME NEW e \in Emails, QuickCreateClient(e) PROVE IntakeInv'
  <2> DEFINE k == NewClient
             added == WithClient(e, "office")
  <2>1. clients' = added /\ k <= MaxClients /\ UNCHANGED <<intake, overdue, post, owner>>
    BY <1>1 DEF QuickCreateClient
  <2>2. /\ k \in 1..MaxClients /\ k \notin DOMAIN clients /\ added \in [1..k -> IntakeClient]
        /\ added[k] = [email |-> e, origin |-> "office", archived |-> "never"]
        /\ DOMAIN clients = 1..(k - 1)
        /\ \A c \in DOMAIN clients : added[c] = clients[c]
    BY <2>1, AddedClient DEF Origins
  <2> HIDE DEF k, added
  <2>3. /\ DOMAIN clients' = 1..k /\ (\A c \in 1..k : c = k \/ c \in DOMAIN clients) /\ 1..k \subseteq 1..MaxClients
        /\ DOMAIN clients \subseteq 1..k
    BY <2>1, <2>2, IntakeAssumption
  <2>4. \A c \in DOMAIN clients' : c \in 1..MaxClients /\ clients'[c] \in IntakeClient
    BY <2>1, <2>2, <2>3
  <2>5. IntakeTypeOK'
    BY <2>1, <2>3, <2>4 DEF IntakeInv, IntakeTypeOK
  <2>6. IntakeShapes'
    BY <2>1, <2>2, IntakeAssumption DEF IntakeInv, IntakeShapes
  <2>7. NoOrphanedFormClient'
    BY <2>1, <2>2, <2>3 DEF IntakeInv, NoOrphanedFormClient
  <2> QED  BY <2>5, <2>6, <2>7 DEF IntakeInv
<1>2. ASSUME NEW e \in Emails, NEW c \in {0} \cup DOMAIN clients, owner' = [owner EXCEPT ![e] = c], UNCHANGED <<intake, overdue, post, clients>>,
             \A k \in DOMAIN clients : clients[k].origin = "form" /\ clients[k].archived = "never" /\ clients[k].email = e => k = c
      PROVE  IntakeInv'
  <2>1. c \in 0..NoAccount
    BY <1>2, IntakeAssumption DEF IntakeInv, IntakeTypeOK, NoAccount
  <2>2. owner' \in [Emails -> 0..NoAccount]
    BY <1>0, <1>2, <2>1
  <2>3. NoOrphanedFormClient'
    BY <1>0, <1>2 DEF IntakeInv, NoOrphanedFormClient, IntakeTypeOK, IntakeClient
  <2> QED  BY <1>2, <2>2, <2>3 DEF IntakeInv, IntakeTypeOK, IntakeShapes
<1>3. ASSUME NEW e \in Emails, AccountWithoutClient(e) PROVE IntakeInv'
  <2>1. \A k \in DOMAIN clients : clients[k].origin = "form" /\ clients[k].archived = "never" => clients[k].email # e
    BY <1>3, IntakeAssumption DEF IntakeInv, NoOrphanedFormClient, IntakeTypeOK, AccountWithoutClient, NoAccount
  <2> QED  BY <1>2, <1>3, <2>1 DEF AccountWithoutClient
<1>4. ASSUME NEW c \in DOMAIN clients, OnboardingSetPassword(c) PROVE IntakeInv'
  <2>1. PICK e \in Emails : e = clients[c].email
    BY <1>4 DEF IntakeInv, IntakeTypeOK, IntakeClient
  <2>2. ASSUME NEW k \in DOMAIN clients, clients[k].origin = "form", clients[k].archived = "never", clients[k].email = e
        PROVE  k = c
    <3>1. owner[e] = k /\ k \in 1..MaxClients
      BY <2>2 DEF IntakeInv, NoOrphanedFormClient, IntakeTypeOK
    <3>2. k # NoAccount /\ k # 0
      BY <3>1, IntakeAssumption DEF NoAccount
    <3> QED  BY <1>4, <2>1, <2>2, <3>1, <3>2 DEF OnboardingSetPassword
  <2>3. owner' = [owner EXCEPT ![e] = c] /\ UNCHANGED <<intake, overdue, post, clients>>
    BY <1>4, <2>1 DEF OnboardingSetPassword
  <2>4. \A k \in DOMAIN clients : clients[k].origin = "form" /\ clients[k].archived = "never" /\ clients[k].email = e => k = c
    BY <2>2
  <2>5. c \in {0} \cup DOMAIN clients
    BY <1>4
  <2> QED  BY <1>2, <2>1, <2>3, <2>4, <2>5
<1> QED  BY <1>1, <1>3, <1>4, ClientsChange DEF ArchiveIntakeClient, RestoreIntakeClient

LEMMA IntakeStep == ASSUME IntakeInv, [IntakeNext]_intakeVars PROVE IntakeInv'
<1>0. post \in [Visitors -> Posts] /\ overdue \in BOOLEAN
  BY DEF IntakeInv, IntakeShapes, IntakeTypeOK
<1>1. CASE CreatePublicIntakeLink
  BY <1>0, <1>1, PostsChange DEF CreatePublicIntakeLink, IntakeStatus
<1>2. CASE LinkIsOverdue
  BY <1>0, <1>2, PostsChange DEF LinkIsOverdue, IntakeStatus
<1>3. CASE UNCHANGED intakeVars
  BY <1>0, <1>3, PostsChange DEF intakeVars, IntakeStatus
<1> QED  BY <1>1, <1>2, <1>3, VisitorsKeep, ConversionKeeps, OfficeKeeps DEF IntakeNext

LEMMA IntakeInvHolds == IntakeSpec => []IntakeInv
  BY IntakeInitHolds, IntakeStep, PTL DEF IntakeSpec

(* For any visitors who post the form at once, and whatever the office makes *)
(* meanwhile: a client made of the form has the account of its address to    *)
(* itself until it is first archived (convert_intake_submission,             *)
(* onboarding_set_password).                                                 *)
THEOREM FormClientsHaveAccounts == IntakeSpec => []NoOrphanedFormClient
<1>1. IntakeInv => NoOrphanedFormClient
  BY DEF IntakeInv
<1> QED  BY <1>1, IntakeInvHolds, PTL

-----------------------------------------------------------------------------
(* The questionnaire of a case (Questionnaire).                              *)
Requests == [for : Via \cup {"staff"}, mos : Mos, client : Client]
CaseRows == [purpose : Purposes \cup {Blank}, archived : BOOLEAN]
Sessions == [status : SessionStatus, live : BOOLEAN]

(* A request of the client that is under way had found the form open.        *)
QuestionnaireInv ==
    /\ mos \in Mos /\ client \in Client /\ case \in CaseRows /\ link \in Sessions /\ portal \in SessionStatus
    /\ slow \in Requests \cup {Idle} /\ links \in 0..MaxLinks
    /\ slow.for \in Via => slow.mos.status \in Editable

LEMMA IdleIsNoRequest == Idle.for = "nobody" /\ (\A r \in Requests : r # Idle /\ r.for # "nobody")
  BY DEF Idle, Requests, Via

LEMMA QuestionnaireInitHolds == ASSUME QuestionnaireInit PROVE QuestionnaireInv
  BY QuestionnaireAssumption, IdleIsNoRequest
  DEF QuestionnaireInit, QuestionnaireInv, NewMos, Mos, MosStatus, DocumentsEditable, Editable, Client, CaseRows, Sessions, SessionStatus, Via

LEMMA Statuses ==
  /\ \A s \in Editable : s \in MosStatus
  /\ {"client_filling", "client_completed", "mos_package_ready", "needs_correction"} \subseteq MosStatus
  /\ \A s \in AfterReview : s \in Filled
  /\ \A s \in Filled : s \in MosStatus /\ s \notin Editable
  /\ "mos_package_ready" \in Filled /\ "draft" \in Editable /\ "new" \notin MosStatus /\ "refused" \notin MosStatus
  BY QuestionnaireAssumption DEF Filled, MosStatus, DocumentsEditable, Editable

LEMMA MosEdits ==
  ASSUME NEW row \in Mos
  PROVE  /\ row.status \in MosStatus
         /\ \A a \in Answers :
              /\ [row EXCEPT !.personal = a] \in Mos
              /\ [row EXCEPT !.address = a] \in Mos
              /\ \A p \in Purposes : [row EXCEPT !.personal = a, !.purpose = p] \in Mos
              /\ \A s \in MosStatus : [row EXCEPT !.personal = a, !.status = s] \in Mos
              /\ \A s \in MosStatus : [row EXCEPT !.address = a, !.status = s] \in Mos
         /\ \A s \in MosStatus :
              /\ [row EXCEPT !.status = s] \in Mos
              /\ [row EXCEPT !.status = s, !.confirmed = TRUE] \in Mos
              /\ \A p \in Purposes : [row EXCEPT !.purpose = p, !.status = s] \in Mos
  BY DEF Mos

LEMMA Cards ==
  ASSUME NEW row \in Client
  PROVE  \A a \in Answers \cup {Blank} : /\ [row EXCEPT !.card = a] \in Client
                                         /\ [row EXCEPT !.card = a].archived = row.archived
                                         /\ [row EXCEPT !.card = a, !.user = TRUE] \in Client
  BY DEF Client

(* What the form writes from the rows a request holds.                       *)
LEMMA FormsWriteRows ==
  ASSUME QuestionnaireInv, NEW m \in Mos, NEW c \in Client, FormAnswers(m, c)
  PROVE  mos' \in Mos /\ client' \in Client /\ client'.archived \in {client.archived, c.archived}
<1>0. mos \in Mos /\ client \in Client
  BY DEF QuestionnaireInv
<1>1. Started(m, mos) \in MosStatus /\ Started(m, m) \in MosStatus
  BY <1>0, MosEdits, Statuses DEF Started
<1>2. ASSUME NEW a \in Answers, client' = [client EXCEPT !.card = a]
      PROVE  client' \in Client /\ client'.archived = client.archived
  BY <1>0, <1>2, Cards
<1>3. ASSUME NEW a \in Answers, mos' = SaveContactValues(m, mos, a) \/ mos' = PreFillFromOcr(mos, a)
      PROVE  mos' \in Mos
  <2>1. PICK s \in MosStatus : s = Started(m, mos)
    BY <1>1
  <2>2. mos' = [mos EXCEPT !.personal = a, !.status = s] \/ mos' = [mos EXCEPT !.personal = a] \/ mos' = mos
    BY <1>3, <2>1 DEF SaveContactValues, PreFillFromOcr
  <2>3. [mos EXCEPT !.personal = a, !.status = s] \in Mos /\ [mos EXCEPT !.personal = a] \in Mos
    BY <1>0, <1>3, <2>1, MosEdits
  <2> QED  BY <1>0, <2>2, <2>3
<1>4. ASSUME NEW a \in Answers, NEW row \in {m, mos}, mos' = OnboardingPassport(row, a) PROVE mos' \in Mos
  <2>1. row \in Mos
    BY <1>0, <1>4
  <2> QED  BY <1>4, <2>1, MosEdits, Statuses DEF OnboardingPassport
<1>5. ASSUME NEW a \in Answers, mos' = OnboardingPersonalExtra(m, a) PROVE mos' \in Mos
  BY <1>5, MosEdits DEF OnboardingPersonalExtra
<1>6. ASSUME NEW a \in Answers, mos' = OnboardingAddress(m, a) PROVE mos' \in Mos
  BY <1>6, MosEdits DEF OnboardingAddress
<1>7. ASSUME NEW a \in Answers, NEW s \in Sections, mos' = OnboardingAutoSave(m, s, a),
             client' = IF s = "personal" /\ c.card # a THEN [c EXCEPT !.card = a] ELSE client
      PROVE  mos' \in Mos /\ client' \in Client /\ client'.archived \in {client.archived, c.archived}
  <2> DEFINE status == IF m.status \in Filled THEN m.status ELSE "client_filling"
  <2>1. PICK s1 \in MosStatus : s1 = status
    BY MosEdits, Statuses
  <2>2. mos' = [m EXCEPT ![s] = a, !.status = s1]
    BY <1>7, <2>1 DEF OnboardingAutoSave, Sections, Mos
  <2>3. mos' = [m EXCEPT !.personal = a, !.status = s1] \/ mos' = [m EXCEPT !.address = a, !.status = s1]
    BY <1>7, <2>2 DEF Sections
  <2>4. mos' \in Mos
    <3>1. /\ [m EXCEPT !.personal = a, !.status = s1] \in Mos
          /\ [m EXCEPT !.address = a, !.status = s1] \in Mos
      BY <1>7, <2>1, MosEdits
    <3> QED  BY <2>3, <3>1
  <2>5. client' \in Client /\ client'.archived \in {client.archived, c.archived}
    BY <1>0, <1>7, Cards
  <2> QED  BY <2>4, <2>5
<1>8. ASSUME NEW p \in Purposes, mos' = SaveOnboardingPurpose(m, mos, p) PROVE mos' \in Mos
  <2>1. PICK s \in MosStatus : s = Started(m, mos)
    BY <1>1
  <2>2. mos' = [mos EXCEPT !.purpose = p, !.status = s]
    BY <1>8, <2>1 DEF SaveOnboardingPurpose
  <2> QED  BY <1>0, <2>2, MosEdits
<1>9. ASSUME NEW p \in Purposes, NEW a \in Answers, mos' = OnboardingTravel(m, a, p) PROVE mos' \in Mos
  BY <1>9, MosEdits DEF OnboardingTravel
<1>10. ASSUME mos' = SaveAndReturn(m) PROVE mos' \in Mos
  <2>1. PICK s \in MosStatus : s = Started(m, m)
    BY <1>1
  <2> QED  BY <1>10, <2>1, MosEdits DEF SaveAndReturn
<1> QED  BY <1>0, <1>2, <1>3, <1>4, <1>5, <1>6, <1>7, <1>8, <1>9, <1>10 DEF FormAnswers

LEMMA EnteringKeeps ==
  ASSUME QuestionnaireInv, NEW via \in Via, NEW s \in {"active", "completed"}, EnterAs(via, s)
  PROVE  link' \in Sessions /\ portal' \in SessionStatus
  BY DEF QuestionnaireInv, EnterAs, Sessions, SessionStatus

(* What a step may do to the rows: the form is opened again, and the client  *)
(* comes back, only as the property has it.                                  *)
LocksAreKept ==
    /\ mos.status \in Filled /\ mos'.status \in Editable /\ mos'.status # "needs_correction"
           => slow # Idle /\ slow' = Idle /\ slow.mos # mos
    /\ client.archived /\ ~client'.archived /\ case'.archived
           => slow # Idle /\ slow' = Idle /\ slow.client # client

LEMMA PromptFormsKeep ==
  ASSUME QuestionnaireInv, (\E a \in Answers : SetPassword(a) \/ FillContact(a)) \/ FillForm \/ CompleteForm \/ OpenForm
  PROVE  QuestionnaireInv' /\ LocksAreKept
<1>0. mos \in Mos /\ client \in Client
  BY DEF QuestionnaireInv
<1>1. ASSUME NEW a \in Answers, SetPassword(a) PROVE QuestionnaireInv' /\ LocksAreKept
  <2>1. client' \in Client /\ link' \in Sessions /\ UNCHANGED <<mos, case, portal, slow, links>> /\ ~client.archived
    BY <1>0, <1>1, Cards
    DEF SetPassword, QuestionnaireInv, Sessions, SessionStatus, CheckOnboardingSession, LinkOpens, Reachable
  <2> QED  BY <2>1, Statuses DEF QuestionnaireInv, LocksAreKept
<1>2. ASSUME NEW a \in Answers, FillContact(a) PROVE QuestionnaireInv' /\ LocksAreKept
  <2>1. link' \in Sessions /\ portal' \in SessionStatus
    BY <1>2, EnteringKeeps DEF FillContact, Enter
  <2>2. Started(mos, mos) \in MosStatus /\ (mos.status \in Filled => Started(mos, mos) = mos.status)
    BY <1>0, MosEdits, Statuses DEF Started
  <2>3. mos' \in Mos /\ mos'.status = Started(mos, mos)
    <3> PICK status \in MosStatus : status = Started(mos, mos)
      BY <2>2
    <3>1. mos' = [mos EXCEPT !.personal = a, !.status = status]
      BY <1>2 DEF FillContact, SaveContactValues
    <3> QED  BY <1>0, <3>1, MosEdits DEF Mos
  <2>4. client' \in Client /\ client'.archived = client.archived
    BY <1>0, <1>2, Cards DEF FillContact
  <2>5. UNCHANGED <<case, slow, links>>
    BY <1>2 DEF FillContact
  <2> QED  BY <2>1, <2>2, <2>3, <2>4, <2>5, Statuses DEF QuestionnaireInv, LocksAreKept
<1>3. CASE FillForm
  <2>1. link' \in Sessions /\ portal' \in SessionStatus
    BY <1>3, EnteringKeeps DEF FillForm, Enter
  <2>2. mos' \in Mos /\ client' \in Client /\ client'.archived = client.archived
    BY <1>0, <1>3, FormsWriteRows DEF FillForm
  <2>3. UNCHANGED <<case, slow, links>> /\ mos.status \in Editable
    BY <1>3 DEF FillForm, MosDataIsEditable
  <2> QED  BY <2>1, <2>2, <2>3, Statuses DEF QuestionnaireInv, LocksAreKept
<1>4. CASE CompleteForm
  <2>1. link' \in Sessions /\ portal' \in SessionStatus
    BY <1>4, EnteringKeeps DEF CompleteForm
  <2>2. mos' \in Mos /\ client' = client
    BY <1>0, <1>4, MosEdits, Statuses DEF CompleteForm, FormCompletes, CompleteDeclarations
  <2>3. UNCHANGED <<case, slow, links>> /\ mos.status \in Editable
    BY <1>4 DEF CompleteForm, MosDataIsEditable
  <2> QED  BY <2>1, <2>2, <2>3, Statuses DEF QuestionnaireInv, LocksAreKept
<1>5. CASE OpenForm
  <2>1. PICK via \in Via : Enter(via) /\ slow' = [for |-> via, mos |-> mos, client |-> client]
    BY <1>5 DEF OpenForm
  <2>2. link' \in Sessions /\ portal' \in SessionStatus
    BY <2>1, EnteringKeeps DEF Enter
  <2>3. slow' \in Requests /\ slow'.mos = mos
    BY <1>0, <2>1 DEF Requests
  <2>4. UNCHANGED <<mos, client, case, links>> /\ mos.status \in Editable
    BY <1>5 DEF OpenForm, MosDataIsEditable
  <2> QED  BY <2>2, <2>3, <2>4, Statuses DEF QuestionnaireInv, LocksAreKept
<1> QED  BY <1>1, <1>2, <1>3, <1>4, <1>5

LEMMA SlowFormsKeep ==
  ASSUME QuestionnaireInv, AnswerSlowly \/ CompleteSlowly
  PROVE  QuestionnaireInv' /\ LocksAreKept
<1>1. /\ slow \in Requests /\ slow.mos \in Mos /\ slow.client \in Client /\ slow.mos.status \in Editable
      /\ slow' = Idle /\ slow # Idle /\ UNCHANGED <<case, links>>
  BY IdleIsNoRequest DEF AnswerSlowly, CompleteSlowly, QuestionnaireInv, Requests, Via
<1>2. CASE AnswerSlowly
  <2>1. UNCHANGED <<link, portal>> /\ FormAnswers(slow.mos, slow.client)
    BY <1>2 DEF AnswerSlowly
  <2>2. mos' \in Mos /\ client' \in Client /\ client'.archived \in {client.archived, slow.client.archived}
    BY <1>1, <2>1, FormsWriteRows
  <2> QED  BY <1>1, <2>1, <2>2, IdleIsNoRequest, Statuses DEF QuestionnaireInv, LocksAreKept, Via
<1>3. CASE CompleteSlowly
  <2>1. mos' \in Mos /\ client' = client
    BY <1>1, <1>3, MosEdits, Statuses DEF CompleteSlowly, FormCompletes, CompleteDeclarations
  <2>2. link' \in Sessions /\ portal' \in SessionStatus
    BY <1>3 DEF CompleteSlowly, QuestionnaireInv, Sessions, SessionStatus
  <2> QED  BY <1>1, <2>1, <2>2, IdleIsNoRequest, Statuses DEF QuestionnaireInv, LocksAreKept, Via
<1> QED  BY <1>2, <1>3

LEMMA StaffKeep ==
  ASSUME QuestionnaireInv,
         AdminMosReview \/ (\E s \in AfterReview : MarkStage(s)) \/ OpenReview \/ ApproveSlowly
  PROVE  QuestionnaireInv' /\ LocksAreKept
<1>0. mos \in Mos /\ client \in Client /\ (\A row \in Mos : row.personal \in Answers \cup {Blank})
  BY DEF QuestionnaireInv, Mos
<1>1. ASSUME NEW row \in Mos, Approve(row)
      PROVE  mos' \in Mos /\ mos'.status = "mos_package_ready" /\ client' \in Client /\ client'.archived = client.archived
  <2>1. mos' \in Mos /\ mos'.status = "mos_package_ready"
    BY <1>0, <1>1, MosEdits, Statuses DEF Approve, Mos
  <2>2. client' \in Client /\ client'.archived = client.archived
    BY <1>0, <1>1, Cards DEF Approve, ApplyMosDataToClient
  <2> QED  BY <2>1, <2>2
<1>2. CASE Approve(mos) /\ UNCHANGED <<case, slow, link, portal, links>>
  BY <1>0, <1>1, <1>2, Statuses DEF QuestionnaireInv, LocksAreKept
<1>3. CASE case' = [case EXCEPT !.purpose = mos.purpose] /\ UNCHANGED <<mos, client, slow, link, portal, links>>
  <2>1. case' \in CaseRows
    BY <1>0, <1>3 DEF QuestionnaireInv, CaseRows, Mos
  <2> QED  BY <1>3, <2>1, Statuses DEF QuestionnaireInv, LocksAreKept
<1>4. ASSUME NEW s \in MosStatus, mos' = [mos EXCEPT !.status = s], s \notin Editable \/ s = "needs_correction",
             UNCHANGED <<client, case, slow, link, portal, links>>
      PROVE  QuestionnaireInv' /\ LocksAreKept
  <2>1. mos' \in Mos /\ mos'.status = s
    BY <1>0, <1>4, MosEdits DEF Mos
  <2> QED  BY <1>4, <2>1 DEF QuestionnaireInv, LocksAreKept
<1>5. CASE \E s \in AfterReview : MarkStage(s)
  BY <1>4, <1>5, Statuses DEF MarkStage
<1>6. CASE AdminMosReview
  BY <1>2, <1>3, <1>4, <1>6, Statuses DEF AdminMosReview
<1>7. CASE OpenReview
  <2>1. slow' \in Requests /\ slow'.for = "staff" /\ UNCHANGED <<mos, client, case, link, portal, links>>
    BY <1>0, <1>7 DEF OpenReview, Requests
  <2> QED  BY <2>1, Statuses DEF QuestionnaireInv, LocksAreKept, Via
<1>8. CASE ApproveSlowly
  <2>1. slow \in Requests /\ slow.mos \in Mos
    BY <1>8, IdleIsNoRequest DEF ApproveSlowly, QuestionnaireInv, Requests
  <2>2. Approve(slow.mos) /\ slow' = Idle /\ UNCHANGED <<case, link, portal, links>>
    BY <1>8 DEF ApproveSlowly
  <2> QED  BY <1>1, <2>1, <2>2, IdleIsNoRequest, Statuses DEF QuestionnaireInv, LocksAreKept, Via
<1> QED  BY <1>5, <1>6, <1>7, <1>8

LEMMA LinksKeep ==
  ASSUME QuestionnaireInv,
         \/ \E p \in Purposes \cup {Blank}, joins \in {"new", "refused"} \cup (AfterReview \cap {"fingerprints", "waiting_decision"}) :
               GenerateOnboardingLink(p, joins)
         \/ LinkRunsOut \/ PortalRunsOut \/ ArchiveClient \/ RestoreClient
  PROVE  QuestionnaireInv' /\ LocksAreKept
<1>1. ASSUME NEW p \in Purposes \cup {Blank}, NEW joins \in {"new", "refused"} \cup (AfterReview \cap {"fingerprints", "waiting_decision"}),
             GenerateOnboardingLink(p, joins)
      PROVE  QuestionnaireInv' /\ LocksAreKept
  <2> DEFINE purpose == IF p = Blank THEN mos.purpose ELSE Blank
             status == IF joins \in MosStatus THEN joins ELSE mos.status
  <2>1. mos' = [mos EXCEPT !.purpose = purpose, !.status = status] /\ UNCHANGED <<client, portal, slow>>
    BY <1>1 DEF GenerateOnboardingLink, QuestionnaireInv, Mos
  <2>2. purpose \in Purposes \cup {Blank} /\ status \in MosStatus /\ (status \in Filled \/ status = mos.status)
    BY Statuses DEF QuestionnaireInv, Mos
  <2> HIDE DEF purpose, status
  <2>3. mos' \in Mos /\ mos'.status = status
    BY <2>1, <2>2 DEF QuestionnaireInv, Mos
  <2>4. case' \in CaseRows /\ link' \in Sessions
    BY <1>1 DEF GenerateOnboardingLink, QuestionnaireInv, CaseRows, Sessions, SessionStatus
  <2>5. links' \in 0..MaxLinks
    <3>1. links \in 0..MaxLinks /\ MaxLinks \in Nat /\ links < MaxLinks /\ links' = links + 1
      BY <1>1, QuestionnaireAssumption DEF GenerateOnboardingLink, QuestionnaireInv
    <3> QED  BY <3>1
  <2> QED  BY <2>1, <2>2, <2>3, <2>4, <2>5, Statuses DEF QuestionnaireInv, LocksAreKept
<1>2. CASE LinkRunsOut \/ PortalRunsOut
  <2>1. link' \in Sessions /\ portal' \in SessionStatus /\ UNCHANGED <<mos, client, case, slow, links>>
    BY <1>2 DEF LinkRunsOut, PortalRunsOut, QuestionnaireInv, Sessions, SessionStatus
  <2> QED  BY <2>1, Statuses DEF QuestionnaireInv, LocksAreKept
<1>3. CASE ArchiveClient \/ RestoreClient
  <2>1. /\ client' \in Client /\ case' \in CaseRows /\ UNCHANGED <<mos, link, portal, slow, links>>
        /\ client.archived => ~case'.archived
    BY <1>3 DEF ArchiveClient, RestoreClient, QuestionnaireInv, Client, CaseRows
  <2> QED  BY <2>1, Statuses DEF QuestionnaireInv, LocksAreKept
<1> QED  BY <1>1, <1>2, <1>3

LEMMA QuestionnaireStep ==
  ASSUME QuestionnaireInv, [QuestionnaireNext]_questionnaireVars
  PROVE  QuestionnaireInv' /\ [LocksAreKept]_questionnaireVars
<1>1. CASE UNCHANGED questionnaireVars
  BY <1>1 DEF QuestionnaireInv, questionnaireVars
<1>2. CASE QuestionnaireNext
  <2> QED  BY <1>2, PromptFormsKeep, SlowFormsKeep, StaffKeep, LinksKeep DEF QuestionnaireNext
<1> QED  BY <1>1, <1>2

LEMMA QuestionnaireInvHolds == QuestionnaireSpec => []QuestionnaireInv
  BY QuestionnaireInitHolds, QuestionnaireStep, PTL DEF QuestionnaireSpec

LEMMA QuestionnaireHasItsTypes == ASSUME QuestionnaireInv PROVE QuestionnaireTypeOK
  BY DEF QuestionnaireInv, CaseRows, Sessions, Requests, QuestionnaireTypeOK

(* A locked questionnaire is opened again, and an archived client comes      *)
(* back, only by the staff or by a request that had read the rows before,    *)
(* whoever else writes them meanwhile (_mos_data_is_editable,                *)
(* onboarding_auto_save).                                                    *)
THEOREM LockedFormsStayLocked == QuestionnaireSpec => PortalRespectsLocks
<1>1. PortalRespectsLocks <=> [][LocksAreKept]_questionnaireVars
  BY DEF PortalRespectsLocks, LocksAreKept
<1> QED  BY <1>1, QuestionnaireStep, QuestionnaireInvHolds, PTL DEF QuestionnaireSpec

-----------------------------------------------------------------------------
(* The lists of missing papers (Checklist).                                  *)

LEMMA ChecklistInitHolds == ASSUME ChecklistInit PROVE ChecklistTypeOK
  BY DEF ChecklistInit, ChecklistTypeOK, Dossier, Purpose, ClientPurpose, DossierIds

LEMMA PapersListed ==
  ASSUME ChecklistTypeOK,
         \E i \in 1..NumPapers :
            \/ \E c \in DossierIds, type \in Types : AddDocument(i, c, type)
            \/ ToggleVerification(i) \/ RejectPaper(i) \/ PaperExpires(i) \/ DeletePaper(i)
  PROVE  ChecklistTypeOK'
<1> PICK i \in 1..NumPapers :
            \/ \E c \in DossierIds, type \in Types : AddDocument(i, c, type)
            \/ ToggleVerification(i) \/ RejectPaper(i) \/ PaperExpires(i) \/ DeletePaper(i)
  OBVIOUS
<1>0. papers \in [1..NumPapers -> Paper \cup {NoPaper}] /\ NoPaper.type = "none"
  BY DEF ChecklistTypeOK, NoPaper
<1>1. ASSUME NEW x \in Paper \cup {NoPaper}, papers' = [papers EXCEPT ![i] = x], OnlyPapers PROVE ChecklistTypeOK'
  BY <1>1 DEF ChecklistTypeOK, OnlyPapers
<1>2. ASSUME NEW c \in DossierIds, NEW type \in Types, AddDocument(i, c, type) PROVE ChecklistTypeOK'
  <2>1. [of |-> c, type |-> type, status |-> "pending"] \in Paper
    BY DEF Paper
  <2> QED  BY <1>1, <1>2, <2>1 DEF AddDocument
<1>3. ASSUME NEW status \in {"pending", "approved", "rejected", "expired"}, papers[i] # NoPaper, OnlyPapers,
             papers' = [papers EXCEPT ![i].status = status]
      PROVE  ChecklistTypeOK'
  <2>1. PICK x \in Paper : x = [papers[i] EXCEPT !.status = status]
    BY <1>0, <1>3 DEF Paper
  <2>2. papers' = [papers EXCEPT ![i] = x]
    BY <1>0, <1>3, <2>1
  <2> QED  BY <1>1, <1>3, <2>2
<1>4. ASSUME NEW status \in {"pending", "approved", "rejected"}, SetStatus(i, status) PROVE ChecklistTypeOK'
  <2>1. papers[i] \in Paper /\ papers[i] # NoPaper /\ OnlyPapers
    BY <1>0, <1>4 DEF SetStatus
  <2>2. PICK s \in {"pending", "approved", "rejected", "expired"} : s = IF papers[i].status = "expired" THEN papers[i].status ELSE status
    BY <2>1 DEF Paper
  <2>3. papers' = [papers EXCEPT ![i].status = s]
    BY <1>0, <1>4, <2>2 DEF SetStatus
  <2> QED  BY <1>3, <2>1, <2>3
<1>5. CASE ToggleVerification(i)
  BY <1>4, <1>5 DEF ToggleVerification
<1>6. CASE PaperExpires(i)
  BY <1>0, <1>3, <1>6 DEF PaperExpires
<1> QED  BY <1>1, <1>2, <1>4, <1>5, <1>6 DEF RejectPaper, DeletePaper

LEMMA ChecklistStep == ASSUME ChecklistTypeOK, [ChecklistNext]_checklistVars PROVE ChecklistTypeOK'
<1>1. CASE VerifyAllDocuments
  <2>1. papers \in [1..NumPapers -> Paper \cup {NoPaper}]
    BY DEF ChecklistTypeOK
  <2>2. \A p \in Paper : [p EXCEPT !.status = "approved"] \in Paper
    BY DEF Paper
  <2>3. papers' \in [1..NumPapers -> Paper \cup {NoPaper}]
    BY <1>1, <2>1, <2>2 DEF VerifyAllDocuments
  <2> QED  BY <1>1, <2>3 DEF VerifyAllDocuments, OnlyPapers, ChecklistTypeOK
<1>2. ASSUME NEW c \in DossierIds, NEW names \in SUBSET Names \ {{}}, CreateWniosekSubmission(c, names) PROVE ChecklistTypeOK'
  <2>1. ("form" \in names /\ dossiers[c].purpose # "") \in BOOLEAN
    OBVIOUS
  <2>2. wniosek' \in Submission
    BY <1>2, <2>1 DEF CreateWniosekSubmission, Submission
  <2> QED  BY <1>2, <2>2 DEF CreateWniosekSubmission, ChecklistTypeOK
<1>3. ASSUME NEW c \in DossierIds, NEW required \in BOOLEAN, AddClientRequirement(c, required) PROVE ChecklistTypeOK'
  BY <1>3 DEF AddClientRequirement, ChecklistTypeOK, Wish
<1>4. ASSUME NEW n \in Names, DeleteWniosekAttachment(n) PROVE ChecklistTypeOK'
  <2>1. wniosek \in Submission
    BY <1>4 DEF DeleteWniosekAttachment, ChecklistTypeOK, NoSubmission
  <2>2. wniosek.names \ {n} # {} \/ wniosek.names = {n}
    BY <1>4 DEF DeleteWniosekAttachment
  <2>3. wniosek' \in Submission \cup {NoSubmission}
    BY <1>4, <2>1, <2>2 DEF DeleteWniosekAttachment, Submission
  <2> QED  BY <1>4, <2>3 DEF DeleteWniosekAttachment, ChecklistTypeOK
<1>5. CASE SyncDocumentChecklist
  BY <1>5 DEF SyncDocumentChecklist, ChecklistTypeOK
<1>6. ASSUME NEW c \in DossierIds, NEW x \in Dossier, SetDossier(c, x) PROVE ChecklistTypeOK'
  BY <1>6 DEF SetDossier, ChecklistTypeOK
<1>7. ASSUME NEW c \in DossierIds
      PROVE  /\ \A s \in {"open", "archived"} : [dossiers[c] EXCEPT !.state = s] \in Dossier
             /\ \A p \in Purpose : [dossiers[c] EXCEPT !.purpose = p] \in Dossier
             /\ [dossiers[c] EXCEPT !.waiting = TRUE] \in Dossier
  BY <1>7 DEF ChecklistTypeOK, Dossier
<1>8. ASSUME NEW c \in DossierIds,
             \/ OpenDossier(c) \/ ArchiveDossier(c) \/ RestoreDossier(c)
             \/ \E purpose \in Purpose : ChoosePurpose(c, purpose)
      PROVE  ChecklistTypeOK'
  <2>1. PICK x \in Dossier : SetDossier(c, x)
    BY <1>7, <1>8 DEF OpenDossier, ArchiveDossier, RestoreDossier, ChoosePurpose
  <2> QED  BY <1>6, <1>8, <2>1
<1>9. CASE AwaitDecision
  <2>1. PICK x \in Dossier : SetDossier(1, x)
    BY <1>7, <1>9 DEF AwaitDecision, DossierIds
  <2> QED  BY <1>6, <2>1 DEF DossierIds
<1>10. CASE UNCHANGED checklistVars
  BY <1>10 DEF checklistVars, ChecklistTypeOK
<1> QED  BY <1>1, <1>2, <1>3, <1>4, <1>5, <1>8, <1>9, <1>10, PapersListed DEF ChecklistNext

LEMMA ChecklistTypeHolds == ChecklistSpec => []ChecklistTypeOK
  BY ChecklistInitHolds, ChecklistStep, PTL DEF ChecklistSpec

(* The code of an attachment is the form's or none.                          *)
LEMMA CodesAreTheForms ==
  ASSUME NEW purpose, NEW code \in Codes(purpose)
  PROVE  code = "form" /\ "form" \in wniosek.names
  BY DEF Codes, CodeOf

LEMMA RowsBorrowNothing == ASSUME ChecklistTypeOK PROVE NothingBorrowed
<1> SUFFICES ASSUME NEW c \in DossierIds, NEW r \in BuildCaseDocumentChecklist(c), r.complete
             PROVE  \/ \E p \in PapersOf(c) : /\ p.status \in {"approved", "pending"}
                                             /\ p.type = IF r.row = "requirement" THEN "wish" ELSE r.row
                    \/ r.row \in wniosek.names /\ wniosek.of = c
                    \/ r.row = "requirement" /\ wish.of = c /\ ~wish.required
  BY DEF NothingBorrowed
<1> DEFINE purpose == dossiers[c].purpose
           here == PapersOf(c)
           submitted == IF SubmissionIsOf(c) THEN Codes(purpose) ELSE {}
<1>0. \A p \in here : p \in Paper
  BY DEF ChecklistTypeOK, PapersOf, Stored
<1>1. CASE \E k \in RequiredFor(purpose) \cup submitted \cup {p.type : p \in here} :
              r = CodeRow(k, here, submitted, MissingZusMonths(c))
  <2>1. PICK k \in RequiredFor(purpose) \cup submitted \cup {p.type : p \in here} :
           r = CodeRow(k, here, submitted, MissingZusMonths(c))
    BY <1>1
  <2>2. k \in Types
    BY <1>0, CodesAreTheForms DEF RequiredFor, Types, Paper
  <2>3. r.row = k /\ k # "requirement" /\ (HasValid(here, k) \/ k \in submitted)
    BY <2>1, <2>2 DEF CodeRow, Types
  <2>4. CASE k \in submitted
    BY <2>3, <2>4, CodesAreTheForms DEF SubmissionIsOf
  <2> QED  BY <2>3, <2>4 DEF HasValid
<1>2. CASE wish \in [of : {c}, required : BOOLEAN] /\ r = WishRow(here)
  BY <1>2 DEF WishRow, HasValid
<1>3. CASE \E n \in IF SubmissionIsOf(c) THEN Customs(purpose) ELSE {} : r = CustomRow(n)
  <2>1. PICK n \in Customs(purpose) : SubmissionIsOf(c) /\ r = CustomRow(n)
    BY <1>3
  <2>2. n \in wniosek.names /\ r.row = n /\ wniosek.of = c
    BY <2>1 DEF SubmissionIsOf, Customs, CustomRow
  <2> QED  BY <2>2
<1> QED  BY <1>1, <1>2, <1>3 DEF BuildCaseDocumentChecklist

LEMMA BuildersAgree == ASSUME ChecklistTypeOK PROVE ListsAgree
<1> SUFFICES ASSUME NEW c \in DossierIds, SingleActive(c), AllOf(c), dossiers[c].purpose = ClientPurpose
             PROVE  BuildDocumentChecklist = BuildCaseDocumentChecklist(c)
  BY DEF ListsAgree
<1> DEFINE here == PapersOf(c)
           submitted == IF SubmissionIsOf(c) THEN Codes(ClientPurpose) ELSE {}
           lacks == \E d \in DossierIds : SingleActive(d) /\ MissingZusMonths(d)
<1>1. Stored = here
  BY DEF AllOf, PapersOf
<1>2. ClientCodes = submitted
  BY DEF AllOf, ClientCodes, SubmissionIsOf
<1>3. lacks <=> MissingZusMonths(c)
  BY DEF SingleActive
<1>4. {w \in {wish} \ {NoWish} : TRUE} = {wish} \cap [of : {c}, required : BOOLEAN]
  BY DEF AllOf, ChecklistTypeOK, Wish, NoWish, DossierIds
<1>5. {n \in wniosek.names : CodeOf(n, ClientPurpose) \notin ClientCodes}
         = IF SubmissionIsOf(c) THEN Customs(ClientPurpose) ELSE {}
  <2>1. CASE wniosek = NoSubmission
    BY <2>1 DEF SubmissionIsOf, NoSubmission
  <2>2. CASE wniosek # NoSubmission
    <3>1. SubmissionIsOf(c) /\ ClientCodes = Codes(ClientPurpose)
      BY <2>2 DEF AllOf, ClientCodes
    <3>2. \A n \in wniosek.names : CodeOf(n, ClientPurpose) \notin ClientCodes <=> CodeOf(n, ClientPurpose) = ""
      BY <3>1 DEF Codes
    <3> QED  BY <3>1, <3>2 DEF Customs
  <2> QED  BY <2>1, <2>2
<1>6. \A k : CodeRow(k, Stored, ClientCodes, lacks) = CodeRow(k, here, submitted, MissingZusMonths(c))
  <2> TAKE k
  <2>1. (~(k = "zus" /\ lacks) /\ (HasValid(Stored, k) \/ k \in ClientCodes))
          = (~(k = "zus" /\ MissingZusMonths(c)) /\ (HasValid(here, k) \/ k \in submitted))
    BY <1>1, <1>2, <1>3
  <2> QED  BY <1>1, <1>2, <2>1 DEF CodeRow
<1> DEFINE codes == RequiredFor(ClientPurpose) \cup submitted \cup {p.type : p \in here}
           whose == {wish} \cap [of : {c}, required : BOOLEAN]
           customs == IF SubmissionIsOf(c) THEN Customs(ClientPurpose) ELSE {}
<1>7. BuildDocumentChecklist = {CodeRow(k, Stored, ClientCodes, lacks) : k \in codes}
                                 \cup {WishRow(here) : w \in whose} \cup {CustomRow(n) : n \in customs}
  BY <1>1, <1>2, <1>4, <1>5 DEF BuildDocumentChecklist
<1>8. BuildCaseDocumentChecklist(c) = {CodeRow(k, here, submitted, MissingZusMonths(c)) : k \in codes}
                                 \cup {WishRow(here) : w \in whose} \cup {CustomRow(n) : n \in customs}
  BY DEF BuildCaseDocumentChecklist
<1> DEFINE theirs(k) == CodeRow(k, Stored, ClientCodes, lacks)
           ours(k) == CodeRow(k, here, submitted, MissingZusMonths(c))
<1>9. {theirs(k) : k \in codes} = {ours(k) : k \in codes}
  <2>1. \A k : theirs(k) = ours(k)
    BY <1>6
  <2> HIDE DEF theirs, ours, codes
  <2> QED  BY <2>1
<1> QED  BY <1>7, <1>8, <1>9

(* With one case, of the client's own purpose, and nothing stored with       *)
(* another, the two builders give the same rows: for any number of papers    *)
(* (build_document_checklist, build_case_document_checklist).                *)
THEOREM BothListsAgree == ChecklistSpec => []ListsAgree
  BY ChecklistTypeHolds, BuildersAgree, PTL

(* No row of a case's list is complete because of something that is stored   *)
(* with another case (build_case_document_checklist).                        *)
THEOREM NoPaperIsBorrowed == ChecklistSpec => []NothingBorrowed
  BY ChecklistTypeHolds, RowsBorrowNothing, PTL

-----------------------------------------------------------------------------
(* The papers between the portal and the office (PortalPapers).              *)
SheetRows ==
    [kind : Kinds \cup {"none"}, live : BOOLEAN, verdict : {"none", "verified", "rejected"},
     expired : BOOLEAN, task : {"none", "open", "done"}, passed : BOOLEAN]

Judged(row) == row.verdict # "none" \/ row.task = "open" \/ row.passed

(* Archived papers come back as they were, so what holds of a paper on the   *)
(* list holds of every paper; and a rejection that has yet to close its task *)
(* leaves a verdict, or a word of the staff, whatever happens in between.    *)
Sound(i, row, d) ==
    /\ row.live => row.kind # "none"
    /\ row.kind # "none" => Judged(row) \/ (d.at = "saved" /\ i \in d.of)
    /\ d.at = "rejected" /\ i \in d.of => row.kind # "none" /\ (row.verdict # "none" \/ row.passed)

DeskIsReal(d) ==
    /\ d \in [at : {"idle", "saved", "deleting", "toggling", "rejected", "sweeping"}, of : SUBSET Sheets, seen : BOOLEAN]
    /\ d.at \in {"saved", "deleting", "toggling", "rejected"} => \E i \in Sheets : d.of = {i}

PapersInv ==
    /\ stage \in Stages /\ purposeSet \in BOOLEAN
    /\ DeskIsReal(desk)
    /\ sheet \in [Sheets -> SheetRows]
    /\ \A i \in Sheets : Sound(i, sheet[i], desk)

LEMMA NoSheetIsReal == NoSheet \in SheetRows /\ NoSheet.kind = "none" /\ ~NoSheet.live
  BY DEF NoSheet, SheetRows

LEMMA QuietIsReal == DeskIsReal(Quiet) /\ Quiet.at = "idle"
  BY DEF Quiet, DeskIsReal

LEMMA PapersInitHolds == ASSUME PapersInit PROVE PapersInv
<1>1. \A i \in Sheets : sheet[i] = NoSheet
  BY DEF PapersInit
<1> QED
  BY <1>1, NoSheetIsReal, QuietIsReal DEF PapersInit, PapersInv, Sound, Stages, OpenForPapers, OpenForAnswers

LEMMA NextIsUnused == ASSUME Unused # {} PROVE NextSheet \in Unused
<1>1. Unused \in SUBSET Nat
  BY PortalAssumption DEF Unused, Sheets
<1>2. PICK m \in Unused : \A k \in Unused : m <= k
  BY <1>1, LeastNatural
<1> QED  BY <1>2 DEF NextSheet

(* One paper is written, and the slow request goes on from where it was to d.*)
LEMMA SheetIsWritten ==
  ASSUME PapersInv, UNCHANGED <<stage, purposeSet>>, DeskIsReal(desk'),
         NEW i \in Sheets, NEW row \in SheetRows, sheet' = [sheet EXCEPT ![i] = row],
         Sound(i, row, desk'), \A j \in Sheets \ {i} : Sound(j, sheet[j], desk')
  PROVE  PapersInv'
<1>1. sheet' \in [Sheets -> SheetRows] /\ sheet'[i] = row /\ \A j \in Sheets \ {i} : sheet'[j] = sheet[j]
  BY DEF PapersInv
<1>2. \A j \in Sheets : Sound(j, sheet'[j], desk')
  BY <1>1
<1> QED  BY <1>1, <1>2 DEF PapersInv

LEMMA PromptWrite ==
  ASSUME PapersInv, Prompt, NEW i \in Sheets, NEW row \in SheetRows, sheet' = [sheet EXCEPT ![i] = row],
         row.live => row.kind # "none",
         row.kind # "none" => Judged(row) \/ (desk.at = "saved" /\ i \in desk.of),
         desk.at = "rejected" /\ i \in desk.of => row.kind # "none" /\ (row.verdict # "none" \/ row.passed)
  PROVE  PapersInv'
<1>1. UNCHANGED <<stage, purposeSet, desk>>
  BY DEF Prompt, OnlySheets
<1>2. Sound(i, row, desk') /\ \A j \in Sheets : Sound(j, sheet[j], desk')
  BY <1>1 DEF Sound, PapersInv
<1> QED  BY <1>1, <1>2, SheetIsWritten DEF PapersInv

(* The last step of a slow request about one paper.                          *)
LEMMA LateWrite ==
  ASSUME PapersInv, NEW at \in {"saved", "deleting", "toggling", "rejected"}, GoesOnAfter(at), NEW i \in desk.of,
         NEW row \in SheetRows, sheet' = [sheet EXCEPT ![i] = row],
         row.live => row.kind # "none", row.kind # "none" => Judged(row)
  PROVE  PapersInv'
<1>1. UNCHANGED <<stage, purposeSet>> /\ desk' = Quiet /\ desk.at = at /\ i \in Sheets /\ desk.of = {i}
  BY DEF GoesOnAfter, OnlySheets, PapersInv, DeskIsReal
<1>2. Sound(i, row, desk') /\ \A j \in Sheets \ {i} : Sound(j, sheet[j], desk')
  BY <1>1, QuietIsReal DEF Sound, PapersInv
<1> QED  BY <1>1, <1>2, QuietIsReal, SheetIsWritten

(* The first step of one, which may write its paper.                         *)
LEMMA SlowStart ==
  ASSUME PapersInv, NEW at \in {"saved", "deleting", "toggling", "rejected"}, NEW i \in Sheets, NEW seen \in BOOLEAN,
         Stops(at, {i}, seen), NEW row \in SheetRows, sheet' = [sheet EXCEPT ![i] = row],
         row.live => row.kind # "none", row.kind # "none" /\ at # "saved" => Judged(row),
         at = "rejected" => row.kind # "none" /\ row.verdict # "none"
  PROVE  PapersInv'
<1>1. UNCHANGED <<stage, purposeSet>> /\ desk = Quiet /\ desk' = [at |-> at, of |-> {i}, seen |-> seen]
  BY DEF Stops, OnlySheets
<1>2. DeskIsReal(desk')
  BY <1>1 DEF DeskIsReal
<1>3. Sound(i, row, desk') /\ \A j \in Sheets \ {i} : Sound(j, sheet[j], desk')
  BY <1>1, QuietIsReal DEF Sound, PapersInv
<1> QED  BY <1>1, <1>2, <1>3, SheetIsWritten

LEMMA NewSheetIsReal ==
  ASSUME NEW k \in Kinds, NEW byStaff \in BOOLEAN
  PROVE  /\ NewSheet(k, byStaff) \in SheetRows /\ NewSheet(k, byStaff).kind # "none"
         /\ NewSheet(k, byStaff).passed = byStaff
  BY NoSheetIsReal DEF NewSheet, SheetRows, Kinds, Wanted

(* Rows differ from others in a field or two.                                *)
LEMMA RowEdits ==
  ASSUME NEW row \in SheetRows
  PROVE  /\ [row EXCEPT !.task = "open"] \in SheetRows /\ [row EXCEPT !.passed = TRUE] \in SheetRows
         /\ [row EXCEPT !.live = FALSE] \in SheetRows /\ [row EXCEPT !.live = TRUE] \in SheetRows
         /\ [row EXCEPT !.expired = TRUE] \in SheetRows
         /\ [row EXCEPT !.task = "done", !.passed = TRUE] \in SheetRows
         /\ \A x \in {"kind", "live", "verdict", "expired", "task", "passed"} : x \in DOMAIN row
         /\ DOMAIN row = {"kind", "live", "verdict", "expired", "task", "passed"}
  BY DEF SheetRows

LEMMA ClientKeeps == ASSUME PapersInv, ClientNext PROVE PapersInv'
<1>0. \A i \in Sheets : sheet[i] \in SheetRows /\ Sound(i, sheet[i], desk)
  BY DEF PapersInv
<1>1. ASSUME NEW k \in Kinds, UploadPaper(k) PROVE PapersInv'
  <2> DEFINE row == [NewSheet(k, FALSE) EXCEPT !.task = "open"]
  <2>1. row \in SheetRows /\ row.kind # "none" /\ row.task = "open"
    BY NewSheetIsReal DEF SheetRows
  <2>2. PICK i \in Unused : sheet' = [sheet EXCEPT ![i] = row] /\ Prompt
    BY <1>1, NextIsUnused DEF UploadPaper, Writes
  <2>3. i \in Sheets /\ sheet[i].kind = "none"
    BY <2>2 DEF Unused
  <2>4. ~(desk.at = "rejected" /\ i \in desk.of)
    BY <1>0, <2>3 DEF Sound
  <2> QED  BY <2>1, <2>2, <2>3, <2>4, PromptWrite DEF Judged
<1>2. ASSUME NEW k \in Kinds, SavePaper(k) PROVE PapersInv'
  <2>1. PICK i \in Sheets : sheet' = [sheet EXCEPT ![i] = NewSheet(k, FALSE)] /\ Stops("saved", {i}, FALSE)
    BY <1>2, NextIsUnused DEF SavePaper, Writes, Unused
  <2> QED  BY <2>1, NewSheetIsReal, SlowStart
<1>3. CASE RaiseTask
  <2>1. PICK i \in desk.of : sheet' = [sheet EXCEPT ![i] = Tasked(i)] /\ GoesOnAfter("saved")
    BY <1>3 DEF RaiseTask, Writes
  <2>2. i \in Sheets
    BY <2>1 DEF PapersInv, DeskIsReal
  <2>3. PICK row \in SheetRows : row = Tasked(i) /\ row.task = "open" /\ (row.live => row.kind # "none")
    BY <1>0, <2>2, RowEdits DEF Tasked, Sound
  <2> QED  BY <2>1, <2>3, LateWrite DEF Judged
<1>4. CASE UploadDies
  <2>1. PICK i \in desk.of : sheet' = [sheet EXCEPT ![i] = [sheet[i] EXCEPT !.passed = TRUE]] /\ GoesOnAfter("saved")
    BY <1>4 DEF UploadDies, Writes
  <2>2. i \in Sheets
    BY <2>1 DEF PapersInv, DeskIsReal
  <2>3. PICK row \in SheetRows : row = [sheet[i] EXCEPT !.passed = TRUE] /\ row.passed /\ (row.live => row.kind # "none")
    BY <1>0, <2>2, RowEdits DEF Sound
  <2> QED  BY <2>1, <2>3, LateWrite DEF Judged
<1>5. CASE DeleteOwn
  <2>1. PICK i \in desk.of : sheet' = [sheet EXCEPT ![i] = [sheet[i] EXCEPT !.live = FALSE]] /\ GoesOnAfter("deleting")
    BY <1>5 DEF DeleteOwn, Writes
  <2>2. i \in Sheets /\ desk.at = "deleting"
    BY <2>1 DEF PapersInv, DeskIsReal, GoesOnAfter
  <2>3. PICK row \in SheetRows : row = [sheet[i] EXCEPT !.live = FALSE] /\ ~row.live /\ (row.kind # "none" => Judged(row))
    BY <1>0, <2>2, RowEdits DEF Sound, Judged
  <2> QED  BY <2>1, <2>3, LateWrite
<1>6. ASSUME NEW i \in Sheets, ReadForDeletion(i) PROVE PapersInv'
  <2>1. desk = Quiet /\ Stops("deleting", {i}, FALSE) /\ sheet' = [sheet EXCEPT ![i] = sheet[i]]
    BY <1>6 DEF ReadForDeletion, Stops, PapersInv
  <2>2. PICK row \in SheetRows : row = sheet[i] /\ (row.live => row.kind # "none") /\ (row.kind # "none" => Judged(row))
    BY <1>0, <1>6, <2>1, QuietIsReal DEF Sound
  <2> QED  BY <1>6, <2>1, <2>2, SlowStart
<1> QED  BY <1>1, <1>2, <1>3, <1>4, <1>5, <1>6 DEF ClientNext

(* What the writes of the office make of a row.                              *)
LEMMA OfficeRows ==
  ASSUME NEW row \in SheetRows
  PROVE  /\ TaskClosed(row) \in SheetRows
         /\ TaskClosed(row).kind = row.kind /\ TaskClosed(row).live = row.live /\ TaskClosed(row).passed = row.passed
         /\ TaskClosed(row).verdict = row.verdict
         /\ Rejected(row) \in SheetRows /\ Rejected(row).kind = row.kind /\ Rejected(row).live = row.live
         /\ Rejected(row).verdict = "rejected"
         /\ \A seen \in BOOLEAN :
              /\ Toggled(row, seen) \in SheetRows
              /\ Toggled(row, seen).kind = row.kind /\ Toggled(row, seen).live = row.live
              /\ Toggled(row, seen).verdict # "none" \/ Toggled(row, seen).passed
<1>1. PICK t \in {"none", "open", "done"} : TaskClosed(row) = [row EXCEPT !.task = t]
  BY DEF TaskClosed, SheetRows
<1>2. /\ TaskClosed(row) \in SheetRows
      /\ TaskClosed(row).kind = row.kind /\ TaskClosed(row).live = row.live /\ TaskClosed(row).passed = row.passed
      /\ TaskClosed(row).verdict = row.verdict
  BY <1>1 DEF SheetRows
<1>3. /\ Rejected(row) \in SheetRows /\ Rejected(row).kind = row.kind /\ Rejected(row).live = row.live
      /\ Rejected(row).verdict = "rejected"
  BY DEF Rejected, SheetRows
<1>4. /\ Toggled(row, FALSE) \in SheetRows /\ Toggled(row, FALSE).verdict = "verified"
      /\ Toggled(row, FALSE).kind = row.kind /\ Toggled(row, FALSE).live = row.live
  BY <1>2 DEF Toggled, SheetRows
<1>5. /\ Toggled(row, TRUE) \in SheetRows /\ (Toggled(row, TRUE).verdict # "none" \/ Toggled(row, TRUE).passed)
      /\ Toggled(row, TRUE).kind = row.kind /\ Toggled(row, TRUE).live = row.live
  <2> DEFINE v == IF row.verdict = "verified" THEN "none" ELSE row.verdict
             p == row.passed \/ row.verdict # "rejected"
  <2>1. v \in {"none", "verified", "rejected"} /\ p \in BOOLEAN /\ (v # "none" \/ p)
    BY DEF SheetRows
  <2>2. Toggled(row, TRUE) = [row EXCEPT !.verdict = v, !.passed = p]
    BY DEF Toggled, SheetRows
  <2> HIDE DEF v, p
  <2> QED  BY <2>1, <2>2 DEF SheetRows
<1> QED  BY <1>2, <1>3, <1>4, <1>5

LEMMA ClerksSheetKeeps ==
  ASSUME PapersInv, NEW i \in Sheets,
         \/ Toggle(i) \/ ReadForToggle(i) \/ Reject(i) \/ RejectSlowly(i) \/ FinishTask(i)
         \/ ArchivePaperOf(i) \/ RestorePaper(i) \/ SheetExpires(i)
  PROVE  PapersInv'
<1>0. sheet[i] \in SheetRows /\ Sound(i, sheet[i], desk)
  BY DEF PapersInv
<1>1. CASE Toggle(i)
  <2>1. PICK seen \in BOOLEAN : sheet' = [sheet EXCEPT ![i] = Toggled(sheet[i], seen)] /\ Prompt
    BY <1>1 DEF Toggle, Writes
  <2>2. PICK row \in SheetRows : /\ row = Toggled(sheet[i], seen) /\ row.live = sheet[i].live /\ row.kind = sheet[i].kind
                                 /\ row.verdict # "none" \/ row.passed
    BY <1>0, OfficeRows
  <2> QED  BY <1>0, <2>1, <2>2, PromptWrite DEF Judged, Sound
<1>2. CASE ReadForToggle(i)
  <2>1. PICK seen \in BOOLEAN : desk = Quiet /\ Stops("toggling", {i}, seen) /\ sheet' = [sheet EXCEPT ![i] = sheet[i]]
    BY <1>2 DEF ReadForToggle, Stops, PapersInv
  <2>2. PICK row \in SheetRows : row = sheet[i] /\ (row.live => row.kind # "none") /\ (row.kind # "none" => Judged(row))
    BY <1>0, <2>1, QuietIsReal DEF Sound
  <2> QED  BY <2>1, <2>2, SlowStart
<1>3. CASE Reject(i)
  <2>1. sheet' = [sheet EXCEPT ![i] = TaskClosed(Rejected(sheet[i]))] /\ Prompt
    BY <1>3 DEF Reject, Writes
  <2>2. PICK row \in SheetRows : /\ row = TaskClosed(Rejected(sheet[i])) /\ row.live = sheet[i].live /\ row.kind = sheet[i].kind
                                 /\ row.verdict = "rejected"
    BY <1>0, OfficeRows
  <2> QED  BY <1>0, <2>1, <2>2, PromptWrite DEF Judged, Sound
<1>4. CASE RejectSlowly(i)
  <2>1. sheet' = [sheet EXCEPT ![i] = Rejected(sheet[i])] /\ Stops("rejected", {i}, FALSE) /\ sheet[i].live
    BY <1>4 DEF RejectSlowly, Writes, Live
  <2>2. PICK row \in SheetRows : /\ row = Rejected(sheet[i]) /\ row.live = sheet[i].live /\ row.kind = sheet[i].kind
                                 /\ row.verdict = "rejected"
    BY <1>0, OfficeRows
  <2> QED  BY <1>0, <2>1, <2>2, SlowStart DEF Judged, Sound
<1>5. CASE FinishTask(i)
  <2>1. /\ sheet' = [sheet EXCEPT ![i] = [sheet[i] EXCEPT !.task = "done", !.passed = TRUE]] /\ Prompt
    BY <1>5 DEF FinishTask, PapersInv
  <2>2. PICK row \in SheetRows : /\ row = [sheet[i] EXCEPT !.task = "done", !.passed = TRUE] /\ row.passed
                                 /\ row.live = sheet[i].live /\ row.kind = sheet[i].kind
    BY <1>0, RowEdits
  <2> QED  BY <1>0, <2>1, <2>2, PromptWrite DEF Judged, Sound
<1>6. ASSUME NEW live \in BOOLEAN, sheet' = [sheet EXCEPT ![i] = [sheet[i] EXCEPT !.live = live]], Prompt, sheet[i].kind # "none" \/ ~live
      PROVE  PapersInv'
  <2>1. PICK row \in SheetRows : /\ row = [sheet[i] EXCEPT !.live = live] /\ row.live = live /\ row.kind = sheet[i].kind
                                 /\ row.verdict = sheet[i].verdict /\ row.task = sheet[i].task /\ row.passed = sheet[i].passed
    BY <1>0, <1>6, RowEdits
  <2> QED  BY <1>0, <1>6, <2>1, PromptWrite DEF Judged, Sound
<1>7. CASE SheetExpires(i)
  <2>1. sheet' = [sheet EXCEPT ![i] = [sheet[i] EXCEPT !.expired = TRUE]] /\ Prompt
    BY <1>7 DEF SheetExpires, PapersInv
  <2>2. PICK row \in SheetRows : /\ row = [sheet[i] EXCEPT !.expired = TRUE] /\ row.live = sheet[i].live /\ row.kind = sheet[i].kind
                                 /\ row.verdict = sheet[i].verdict /\ row.task = sheet[i].task /\ row.passed = sheet[i].passed
    BY <1>0, RowEdits
  <2> QED  BY <1>0, <2>1, <2>2, PromptWrite DEF Judged, Sound
<1> QED  BY <1>1, <1>2, <1>3, <1>4, <1>5, <1>6, <1>7 DEF ArchivePaperOf, RestorePaper, Writes

LEMMA SweepKeeps ==
  ASSUME PapersInv, NEW of \in SUBSET Sheets, Swept(of), UNCHANGED <<stage, purposeSet>>,
         \/ UNCHANGED desk
         \/ desk' = Quiet /\ desk.at # "saved"
  PROVE  PapersInv'
<1>0. \A i \in Sheets : sheet[i] \in SheetRows /\ Sound(i, sheet[i], desk)
  BY DEF PapersInv
<1>1. ASSUME NEW i \in Sheets
      PROVE  /\ sheet'[i] \in SheetRows
             /\ sheet'[i].kind = sheet[i].kind /\ sheet'[i].live = sheet[i].live
             /\ Judged(sheet[i]) => sheet'[i].verdict # "none" \/ sheet'[i].passed
  <2>1. CASE i \in of
    <3>1. sheet'[i] = [TaskClosed(sheet[i]) EXCEPT !.verdict = "verified"]
      BY <2>1 DEF Swept
    <3> QED  BY <1>0, <1>1, <3>1, OfficeRows DEF SheetRows
  <2>2. CASE i \notin of
    <3> DEFINE p == sheet[i].passed \/ sheet[i].task = "open"
    <3>1. sheet'[i] = [TaskClosed(sheet[i]) EXCEPT !.passed = p]
      BY <1>0, <1>1, <2>2, OfficeRows DEF Swept
    <3>2. p \in BOOLEAN /\ (Judged(sheet[i]) => sheet[i].verdict # "none" \/ p)
      BY DEF Judged
    <3> HIDE DEF p
    <3> QED  BY <1>0, <1>1, <3>1, <3>2, OfficeRows DEF SheetRows
  <2> QED  BY <2>1, <2>2
<1>2. sheet' \in [Sheets -> SheetRows]
  BY <1>1 DEF Swept
<1>3. DeskIsReal(desk')
  BY QuietIsReal DEF PapersInv
<1>4. ASSUME NEW i \in Sheets PROVE Sound(i, sheet'[i], desk')
  <2>1. /\ desk'.at = "saved" /\ i \in desk'.of => desk.at = "saved" /\ i \in desk.of
        /\ desk.at = "saved" => desk' = desk
        /\ desk'.at = "rejected" => desk' = desk
    BY QuietIsReal
  <2>2. sheet[i].verdict # "none" \/ sheet[i].passed => Judged(sheet[i])
    BY DEF Judged
  <2> QED  BY <1>0, <1>1, <1>4, <2>1, <2>2 DEF Sound, Judged
<1> QED  BY <1>2, <1>3, <1>4 DEF PapersInv

LEMMA ClerkKeeps == ASSUME PapersInv, ClerkNext PROVE PapersInv'
<1>0. \A i \in Sheets : sheet[i] \in SheetRows /\ Sound(i, sheet[i], desk)
  BY DEF PapersInv
<1>1. ASSUME NEW k \in Kinds, StaffUploads(k) PROVE PapersInv'
  <2>1. PICK i \in Sheets : sheet' = [sheet EXCEPT ![i] = NewSheet(k, TRUE)] /\ Prompt
    BY <1>1, NextIsUnused DEF StaffUploads, Writes, Unused
  <2> QED  BY <2>1, NewSheetIsReal, PromptWrite DEF Judged
<1>2. CASE ToggleLate
  <2>1. PICK i \in desk.of : sheet' = [sheet EXCEPT ![i] = Toggled(sheet[i], desk.seen)] /\ GoesOnAfter("toggling")
    BY <1>2 DEF ToggleLate, Writes
  <2>2. i \in Sheets /\ desk.seen \in BOOLEAN
    BY <2>1 DEF PapersInv, DeskIsReal
  <2>3. PICK seen \in BOOLEAN : seen = desk.seen
    BY <2>2
  <2>4. sheet' = [sheet EXCEPT ![i] = Toggled(sheet[i], seen)]
    BY <2>1, <2>3
  <2>5. PICK row \in SheetRows : /\ row = Toggled(sheet[i], seen) /\ (row.live => row.kind # "none")
                                 /\ row.verdict # "none" \/ row.passed
    BY <1>0, <2>2, <2>3, OfficeRows DEF Sound
  <2> QED  BY <2>1, <2>4, <2>5, LateWrite DEF Judged
<1>3. CASE CloseRejected
  <2>1. PICK i \in desk.of : Writes(i, sheet[i]) \/ Writes(i, TaskClosed(sheet[i]))
    BY <1>3 DEF CloseRejected
  <2>2. i \in Sheets /\ GoesOnAfter("rejected") /\ desk.at = "rejected"
    BY <1>3, <2>1 DEF PapersInv, DeskIsReal, CloseRejected, GoesOnAfter
  <2>3. PICK row \in SheetRows : /\ sheet' = [sheet EXCEPT ![i] = row] /\ (row.live => row.kind # "none")
                                 /\ row.verdict # "none" \/ row.passed
    BY <1>0, <2>1, <2>2, OfficeRows DEF Sound, Writes
  <2> QED  BY <2>1, <2>2, <2>3, LateWrite DEF Judged
<1>4. CASE VerifyAllPapers
  <2>1. Sweepable \subseteq Sheets
    BY DEF Sweepable, Live
  <2> QED  BY <1>4, <2>1, SweepKeeps DEF VerifyAllPapers, Prompt, OnlySheets
<1>5. CASE SweepUpdate
  <2>1. desk = Quiet /\ desk' = [at |-> "sweeping", of |-> Sweepable, seen |-> FALSE] /\ UNCHANGED <<sheet, stage, purposeSet>>
    BY <1>5 DEF SweepUpdate, Stops, OnlySheets
  <2>2. DeskIsReal(desk')
    BY <2>1 DEF DeskIsReal, Sweepable, Live
  <2>3. \A i \in Sheets : Sound(i, sheet[i], desk')
    BY <1>0, <2>1, QuietIsReal DEF Sound
  <2> QED  BY <2>1, <2>2, <2>3 DEF PapersInv
<1>6. CASE SweepClose
  <2>1. desk.of \in SUBSET Sheets
    BY DEF PapersInv, DeskIsReal
  <2> QED  BY <1>6, <2>1, SweepKeeps DEF SweepClose, GoesOnAfter, OnlySheets
<1> QED  BY <1>1, <1>2, <1>3, <1>4, <1>5, <1>6, ClerksSheetKeeps DEF ClerkNext

LEMMA PapersStep == ASSUME PapersInv, [PapersNext]_papersVars PROVE PapersInv'
<1>1. CASE StageMoves
  <2>1. stage' \in Stages
    BY <1>1, PortalAssumption DEF StageMoves, Stages, OpenForPapers, OpenForAnswers
  <2> QED  BY <1>1, <2>1 DEF PapersInv, StageMoves
<1>2. CASE PurposeIsSet
  BY <1>2 DEF PapersInv, PurposeIsSet
<1>3. CASE UNCHANGED papersVars
  BY <1>3 DEF PapersInv, papersVars
<1> QED  BY <1>1, <1>2, <1>3, ClientKeeps, ClerkKeeps DEF PapersNext

LEMMA PapersInvHolds == PapersSpec => []PapersInv
  BY PapersInitHolds, PapersStep, PTL DEF PapersSpec

LEMMA PapersHaveTheirTypes == ASSUME PapersInv PROVE PapersTypeOK
  BY DEF PapersInv, DeskIsReal, SheetRows, PapersTypeOK

LEMMA EveryPaperIsSeen == ASSUME PapersInv PROVE PapersAreSeen
<1>0. \A i \in Sheets : sheet[i] \in SheetRows /\ Sound(i, sheet[i], desk)
  BY DEF PapersInv
<1>1. OfficeKnows
  BY <1>0 DEF OfficeKnows, Live, Sound, Judged
<1>2. TimelineAgrees
  BY DEF TimelineAgrees, CaseStep, ActionItems, OpenForAnswers
<1>3. ASSUME NEW k \in Listed, "missing" \notin ActionItems, "rejected" \notin ActionItems
      PROVE  \/ \E i \in Newest(k) : sheet[i].verdict = "verified" \/ sheet[i].task = "open" \/ sheet[i].passed
             \/ desk.at \in {"saved", "sweeping"}
  <2>1. Lacking = {} /\ Refused = {}
    BY <1>3 DEF ActionItems
  <2>2. PICK i \in Newest(k) : sheet[i].verdict # "rejected"
    BY <1>3, <2>1 DEF Lacking, Refused
  <2>3. i \in Live /\ i \in Sheets
    BY <2>2 DEF Newest, Live
  <2> QED  BY <1>0, <2>2, <2>3 DEF Live, Sound, Judged, SheetRows
<1> QED  BY <1>1, <1>2, <1>3 DEF PapersAreSeen

(* For any number of papers and any interleaving of a slow request with      *)
(* prompt ones: of every paper the case wants somebody knows what is next,   *)
(* and the timeline says what the page asks for (services/tasks.py,          *)
(* use_cases/documents.py, onboarding_progress.py).                          *)
THEOREM NoPaperIsForgotten == PapersSpec => []PapersAreSeen
  BY PapersInvHolds, EveryPaperIsSeen, PTL

-----------------------------------------------------------------------------

LEMMA IntervalInduction ==
  ASSUME NEW a \in Nat, NEW b \in Nat, NEW S, a \in S,
         \A n \in a..b : n < b /\ n \in S => n + 1 \in S
  PROVE  \A n \in a..b : n \in S
<1> DEFINE Left == {n \in a..b : n \notin S}
<1> SUFFICES ASSUME Left # {} PROVE FALSE
  OBVIOUS
<1>0. Left \in SUBSET Nat
  OBVIOUS
<1>1. PICK m \in Left : \A k \in Left : m <= k
  <2> HIDE DEF Left
  <2> QED  BY <1>0, LeastNatural
<1>2. m # a /\ m - 1 \in a..b /\ m - 1 < b
  BY <1>1
<1>3. m - 1 \in S
  BY <1>1, <1>2
<1>4. (m - 1) + 1 = m
  BY <1>1
<1> QED  BY <1>1, <1>2, <1>3, <1>4

-----------------------------------------------------------------------------
(* Upward.                                                                   *)
Above(x) == IF person[x].sponsor = 0 THEN x ELSE person[x].sponsor

LEMMA AboveType == ASSUME FamilyTypeOK, NEW x \in People PROVE Above(x) \in People
<1>1. person[x].sponsor \in 0..NumPeople
  BY DEF FamilyTypeOK
<1> QED  BY <1>1, FamilyAssumption DEF Above, People

(* A chain of any length that follows the sponsors exists.                   *)
LEMMA ChainsExist ==
  ASSUME FamilyTypeOK, NEW c \in People, NEW len \in Nat
  PROVE  \E f \in [0..len -> People] : f[0] = c /\ \A n \in 1..len : f[n] = Above(f[n - 1])
<1> DEFINE Chain(m) == \E f \in [0..m -> People] : f[0] = c /\ \A n \in 1..m : f[n] = Above(f[n - 1])
           Good == {m \in Nat : Chain(m)}
<1>1. 0 \in Good
  <2> DEFINE f == [n \in 0..0 |-> c]
  <2>1. f \in [0..0 -> People] /\ f[0] = c /\ \A n \in 1..0 : f[n] = Above(f[n - 1])
    OBVIOUS
  <2> HIDE DEF f
  <2>2. Chain(0)
    BY <2>1
  <2> QED  BY <2>2
<1>2. ASSUME NEW m \in 0..len, m \in Good PROVE m + 1 \in Good
  <2>1. PICK f \in [0..m -> People] : f[0] = c /\ \A n \in 1..m : f[n] = Above(f[n - 1])
    BY <1>2
  <2> DEFINE g == [n \in 0..(m + 1) |-> IF n = m + 1 THEN Above(f[m]) ELSE f[n]]
  <2>2. Above(f[m]) \in People
    BY AboveType
  <2>3. g \in [0..(m + 1) -> People]
    BY <2>2
  <2>4. g[0] = c
    BY <2>1
  <2>5. ASSUME NEW n \in 1..(m + 1) PROVE g[n] = Above(g[n - 1])
    <3>1. CASE n = m + 1
      <4>1. g[n] = Above(f[m]) /\ g[n - 1] = f[m]
        BY <3>1
      <4> QED  BY <4>1
    <3>2. CASE n # m + 1
      <4>1. n \in 1..m /\ n - 1 \in 0..m
        BY <3>2
      <4>2. g[n] = f[n] /\ g[n - 1] = f[n - 1]
        BY <4>1
      <4> QED  BY <2>1, <4>1, <4>2
    <3> QED  BY <3>1, <3>2
  <2> HIDE DEF g
  <2>6. Chain(m + 1)
    BY <2>3, <2>4, <2>5
  <2> QED  BY <2>6
<1> HIDE DEF Good
<1>3. \A n \in 0..len : n \in Good
  BY <1>1, <1>2, IntervalInduction
<1> QED  BY <1>3 DEF Good

LEMMA UpwardSteps ==
  ASSUME FamilyTypeOK, NEW c \in People
  PROVE  /\ Upward(c) \in [0..NumPeople -> People]
         /\ Upward(c)[0] = c
         /\ \A n \in 1..NumPeople : Upward(c)[n] = Above(Upward(c)[n - 1])
<1> USE FamilyAssumption
<1> DEFINE Follows(f) == f = [n \in 0..NumPeople |-> IF n = 0 THEN c
                                ELSE IF person[f[n - 1]].sponsor = 0 THEN f[n - 1] ELSE person[f[n - 1]].sponsor]
           u == Upward(c)
<1>1. PICK f \in [0..NumPeople -> People] : f[0] = c /\ \A n \in 1..NumPeople : f[n] = Above(f[n - 1])
  BY ChainsExist
<1>2. Follows(f)
  <2>1. \A n \in 0..NumPeople : f[n] = IF n = 0 THEN c
            ELSE IF person[f[n - 1]].sponsor = 0 THEN f[n - 1] ELSE person[f[n - 1]].sponsor
    <3> SUFFICES ASSUME NEW n \in 0..NumPeople, n # 0 PROVE f[n] = Above(f[n - 1])
      BY <1>1 DEF Above
    <3> QED  BY <1>1
  <2> QED  BY <2>1
<1>3. u = CHOOSE g : Follows(g)
  BY DEF Upward
<1>4. Follows(u)
  <2> HIDE DEF Follows, u
  <2> QED  BY <1>2, <1>3
<1> HIDE DEF u
<1>5. u[0] = c
  BY <1>4
<1>6. \A n \in 1..NumPeople : u[n] = Above(u[n - 1])
  BY <1>4 DEF Above
<1> DEFINE S == {n \in 0..NumPeople : u[n] \in People}
<1>7. ASSUME NEW n \in 0..NumPeople, n < NumPeople, n \in S PROVE n + 1 \in S
  <2>1. n + 1 \in 1..NumPeople /\ (n + 1) - 1 = n
    BY <1>7
  <2>2. u[n + 1] = Above(u[n])
    BY <1>6, <2>1
  <2> QED  BY <1>7, <2>1, <2>2, AboveType
<1>8. 0 \in S
  BY <1>5
<1> HIDE DEF S
<1>9. \A n \in 0..NumPeople : n \in S
  BY <1>7, <1>8, IntervalInduction
<1>10. DOMAIN u = 0..NumPeople /\ u = [n \in 0..NumPeople |-> u[n]]
  <2>1. DOMAIN u = 0..NumPeople
    BY <1>4
  <2> HIDE DEF Follows
  <2>2. \E w : u = [n \in 0..NumPeople |-> w[n]]
    BY <1>4 DEF Follows
  <2> QED  BY <2>1, <2>2
<1> HIDE DEF Follows
<1>11. u \in [0..NumPeople -> People]
  BY <1>9, <1>10 DEF S
<1> QED  BY <1>5, <1>6, <1>11 DEF u

(* Who is nobody's member stays at the top.                                  *)
LEMMA TopStays ==
  ASSUME FamilyTypeOK, NEW c \in People, NEW z \in 0..NumPeople, person[Upward(c)[z]].sponsor = 0
  PROVE  \A n \in z..NumPeople : Upward(c)[n] = Upward(c)[z]
<1> USE FamilyAssumption
<1> DEFINE u == Upward(c)
           S == {n \in 0..NumPeople : u[n] = u[z]}
<1> HIDE DEF u
<1>1. \A n \in 1..NumPeople : u[n] = Above(u[n - 1])
  BY UpwardSteps DEF u
<1>2. ASSUME NEW n \in z..NumPeople, n < NumPeople, n \in S PROVE n + 1 \in S
  <2>1. n + 1 \in 1..NumPeople /\ (n + 1) - 1 = n
    BY <1>2
  <2>2. u[n + 1] = Above(u[n])
    BY <1>1, <2>1
  <2> QED  BY <1>2, <2>1, <2>2 DEF Above, u
<1>3. z \in S
  OBVIOUS
<1> HIDE DEF S
<1>4. \A n \in z..NumPeople : n \in S
  BY <1>2, <1>3, IntervalInduction
<1> QED  BY <1>4 DEF S, u

-----------------------------------------------------------------------------
(* Nobody is above themselves: in every set of people is somebody whose      *)
(* sponsor is not.                                                           *)
NoCircle == \A T \in SUBSET People : T # {} => \E c \in T : person[c].sponsor \notin T

LEMMA ChainsEnd ==
  ASSUME FamilyTypeOK, NoCircle, NEW c \in People
  PROVE  ChainEnds(c)
<1> USE FamilyAssumption
<1> DEFINE u == Upward(c)
<1>1. /\ u \in [0..NumPeople -> People]
      /\ \A n \in 1..NumPeople : u[n] = Above(u[n - 1])
  BY UpwardSteps
<1>2. ASSUME \A n \in 0..NumPeople : person[u[n]].sponsor # 0 PROVE FALSE
  <2> HIDE DEF u
  <2>1. PICK i \in 0..NumPeople, j \in 0..NumPeople : i < j /\ u[i] = u[j]
    <3>1. IsFiniteSet(0..NumPeople) /\ Cardinality(0..NumPeople) = NumPeople + 1
      BY FS_Interval
    <3>2. IsFiniteSet(People) /\ Cardinality(People) = NumPeople
      BY FS_Interval DEF People
    <3>3. PICK x \in 0..NumPeople, y \in 0..NumPeople : x # y /\ u[x] = u[y]
      <4>1. Cardinality(People) < Cardinality(0..NumPeople)
        BY <3>1, <3>2
      <4> QED  BY <1>1, <3>1, <3>2, <4>1, FS_PigeonHole
    <3>4. x < y \/ y < x
      BY <3>3
    <3> QED  BY <3>3, <3>4
  <2> DEFINE T == {u[n] : n \in i..(j - 1)}
  <2>2. T \in SUBSET People /\ T # {}
    <3>1. i \in i..(j - 1) /\ i..(j - 1) \subseteq 0..NumPeople
      BY <2>1
    <3> QED  BY <1>1, <3>1
  <2>3. PICK n \in i..(j - 1) : person[u[n]].sponsor \notin T
    BY <2>2 DEF NoCircle
  <2>4. n + 1 \in 1..NumPeople /\ (n + 1) - 1 = n /\ n \in 0..NumPeople
    BY <2>1
  <2>5. u[n + 1] = person[u[n]].sponsor
    <3>1. u[n + 1] = Above(u[n])
      BY <1>1, <2>4
    <3> QED  BY <1>2, <2>4, <3>1 DEF Above
  <2>6. u[n + 1] \in T
    <3>1. CASE n = j - 1
      <4>1. u[n + 1] = u[i] /\ i \in i..(j - 1)
        BY <2>1, <3>1
      <4> QED  BY <4>1
    <3>2. CASE n # j - 1
      <4>1. n + 1 \in i..(j - 1)
        BY <2>1, <3>2
      <4> QED  BY <4>1
    <3> QED  BY <3>1, <3>2
  <2> QED  BY <2>3, <2>5, <2>6
<1>3. PICK z \in 0..NumPeople : person[u[z]].sponsor = 0
  BY <1>2
<1>4. u[NumPeople] = u[z]
  BY <1>3, TopStays
<1> QED  BY <1>3, <1>4 DEF ChainEnds

LEMMA TopOfAll ==
  ASSUME FamilyTypeOK, NEW c \in People
  PROVE  /\ FamilySponsorFor(c) \in People
         /\ NoCircle => person[FamilySponsorFor(c)].sponsor = 0
<1>1. Upward(c)[NumPeople] \in People
  BY UpwardSteps, FamilyAssumption
<1> QED  BY <1>1, ChainsEnd DEF FamilySponsorFor, ChainEnds

(* A member whose chain does not come back makes no circle.                  *)
LEMMA ValidatedMakesNoCircle ==
  ASSUME FamilyTypeOK, NoCircle, NEW c \in People, NEW s \in People, NEW role \in Roles,
         ValidateSponsorRelationship(c, s), Saved(c, role, s)
  PROVE  NoCircle'
<1> USE FamilyAssumption
<1>1. /\ \A x \in People \ {c} : person'[x].sponsor = person[x].sponsor
      /\ person'[c].sponsor = s
  BY DEF Saved, FamilyTypeOK
<1> SUFFICES ASSUME NEW T \in SUBSET People, T # {}, \A x \in T : person'[x].sponsor \in T
             PROVE  FALSE
  BY DEF NoCircle
<1>2. CASE c \notin T
  BY <1>1, <1>2 DEF NoCircle
<1>3. CASE c \in T
  <2> DEFINE u == Upward(s)
             S == {n \in 0..NumPeople : u[n] \in T}
  <2>1. /\ u \in [0..NumPeople -> People] /\ u[0] = s
        /\ \A n \in 1..NumPeople : u[n] = Above(u[n - 1])
        /\ \A n \in 0..NumPeople : u[n] # c
    BY UpwardSteps DEF ValidateSponsorRelationship
  <2>2. person[u[NumPeople]].sponsor = 0
    BY ChainsEnd DEF ChainEnds
  <2> HIDE DEF u
  <2>3. 0 \in S
    BY <1>1, <1>3, <2>1
  <2>4. ASSUME NEW n \in 0..NumPeople, n < NumPeople, n \in S PROVE n + 1 \in S
    <3>1. n + 1 \in 1..NumPeople /\ (n + 1) - 1 = n
      BY <2>4
    <3>2. u[n + 1] = Above(u[n])
      BY <2>1, <3>1
    <3>3. person[u[n]].sponsor \in T
      BY <1>1, <2>1, <2>4
    <3>4. person[u[n]].sponsor # 0
      BY <3>3 DEF People
    <3> QED  BY <3>1, <3>2, <3>3, <3>4 DEF Above
  <2> HIDE DEF S
  <2>5. \A n \in 0..NumPeople : n \in S
    BY <2>3, <2>4, IntervalInduction
  <2>6. u[NumPeople] \in T
    BY <2>5 DEF S
  <2>7. person[u[NumPeople]].sponsor \in T
    BY <1>1, <2>1, <2>6
  <2> QED  BY <2>2, <2>7 DEF People
<1> QED  BY <1>2, <1>3

(* Fewer sponsors make no circle.                                            *)
LEMMA FewerMakeNoCircle ==
  ASSUME NoCircle, \A x \in People : person'[x].sponsor \in {0, person[x].sponsor}
  PROVE  NoCircle'
<1> SUFFICES ASSUME NEW T \in SUBSET People, T # {}
             PROVE  \E x \in T : person'[x].sponsor \notin T
  BY DEF NoCircle
<1>1. 0 \notin T
  BY FamilyAssumption DEF People
<1>2. PICK x \in T : person[x].sponsor \notin T
  BY DEF NoCircle
<1> QED  BY <1>1, <1>2

SponsorsHaveNone == \A c \in People : person[c].sponsor # 0 => person[c].role # "sponsor"

(* What a form or a page may save.                                           *)
MaySave(of, role, sponsor) ==
    IF role = "income" THEN person[of].sponsor = 0
    ELSE sponsor # 0 => role = "member" /\ ValidateSponsorRelationship(of, sponsor)

PendingHolds == pending # NoForm => pending.of \in People /\ MaySave(pending.of, pending.role, pending.sponsor)

FamilyInv ==
    /\ FamilyTypeOK
    /\ pending # NoForm => pending.of \in People
    /\ overlapped \/ (NoCircle /\ SponsorsHaveNone /\ PendingHolds)

LEMMA NoFormType == NoForm \in [of : 0..NumPeople, role : Roles \cup {"income"}, sponsor : 0..NumPeople]
  BY FamilyAssumption DEF NoForm, Roles

LEMMA FamilyInitInv == FamilyInit => FamilyInv
<1> SUFFICES ASSUME FamilyInit PROVE FamilyInv
  OBVIOUS
<1> USE FamilyAssumption
<1>1. FamilyTypeOK
  <2>1. Nobody \in [role : Roles, sponsor : 0..NumPeople, group : BOOLEAN]
    BY DEF Nobody, Roles
  <2> QED  BY <2>1, NoFormType DEF FamilyInit, FamilyTypeOK
<1>2. NoCircle
  <2> SUFFICES ASSUME NEW T \in SUBSET People, NEW c \in T PROVE person[c].sponsor \notin T
    BY DEF NoCircle
  <2>1. person[c].sponsor = 0
    BY DEF FamilyInit, Nobody
  <2> QED  BY <2>1 DEF People
<1> QED  BY <1>1, <1>2 DEF FamilyInit, FamilyInv, SponsorsHaveNone, PendingHolds, Nobody

LEMMA CleanedMaySave ==
  ASSUME NEW c \in People, NEW f \in Cleaned(c)
  PROVE  f.role \in Roles /\ f.sponsor \in 0..NumPeople /\ MaySave(c, f.role, f.sponsor)
  BY FamilyAssumption DEF Cleaned, MaySave, Roles, People

LEMMA SavedType ==
  ASSUME FamilyTypeOK, NEW c \in People, NEW role \in Roles, NEW s \in 0..NumPeople, Saved(c, role, s)
  PROVE  /\ person' \in [People -> [role : Roles, sponsor : 0..NumPeople, group : BOOLEAN]]
         /\ person'[c].role = role /\ person'[c].sponsor = s
         /\ \A x \in People \ {c} : person'[x] = person[x]
  BY DEF Saved, FamilyTypeOK

LEMMA EnsureType ==
  ASSUME FamilyTypeOK, NEW c \in People, EnsureFamilyGroup(c)
  PROVE  /\ person' \in [People -> [role : Roles, sponsor : 0..NumPeople, group : BOOLEAN]]
         /\ \A x \in People : person'[x].sponsor = person[x].sponsor
         /\ \A x \in People \ {c} : person'[x].role = person[x].role
  BY DEF EnsureFamilyGroup, FamilyTypeOK, Roles

LEMMA SavedKeeps ==
  ASSUME FamilyTypeOK, NoCircle, SponsorsHaveNone, NEW c \in People, NEW role \in Roles, NEW s \in 0..NumPeople,
         MaySave(c, role, s) \/ (s = person[c].sponsor /\ role # "sponsor"), Saved(c, role, s)
  PROVE  NoCircle' /\ SponsorsHaveNone'
<1>1. SponsorsHaveNone'
  BY SavedType DEF SponsorsHaveNone, MaySave, Roles
<1>2. CASE s \in {0, person[c].sponsor}
  BY <1>1, <1>2, SavedType, FewerMakeNoCircle
<1>3. CASE s \notin {0, person[c].sponsor}
  <2>1. s \in People /\ ValidateSponsorRelationship(c, s)
    BY <1>3, FamilyAssumption DEF MaySave, People, Roles
  <2> QED  BY <1>1, <2>1, ValidatedMakesNoCircle
<1> QED  BY <1>1, <1>2, <1>3

LEMMA EnsureKeeps ==
  ASSUME FamilyTypeOK, NoCircle, SponsorsHaveNone, NEW c \in People, person[c].sponsor = 0, EnsureFamilyGroup(c)
  PROVE  NoCircle' /\ SponsorsHaveNone'
<1>1. NoCircle'
  BY EnsureType, FewerMakeNoCircle
<1> QED  BY <1>1, EnsureType DEF SponsorsHaveNone

(* A prompt edit meets nothing under way, or counts as an overlap.           *)
LEMMA AtOnceKeeps ==
  ASSUME FamilyInv, AtOnce,
         person' \in [People -> [role : Roles, sponsor : 0..NumPeople, group : BOOLEAN]],
         NoCircle /\ SponsorsHaveNone => NoCircle' /\ SponsorsHaveNone'
  PROVE  FamilyInv'
<1>1. FamilyTypeOK'
  BY DEF FamilyInv, FamilyTypeOK, AtOnce
<1>2. pending' # NoForm => pending'.of \in People
  BY DEF FamilyInv, AtOnce
<1>3. ASSUME ~overlapped' PROVE NoCircle' /\ SponsorsHaveNone' /\ PendingHolds'
  <2>1. ~overlapped /\ pending = NoForm /\ pending' = NoForm
    BY <1>3 DEF AtOnce, FamilyInv, FamilyTypeOK
  <2> QED  BY <2>1 DEF FamilyInv, PendingHolds
<1>4. (pending # NoForm => pending.of \in People)'
  BY <1>2 DEF NoForm
<1> QED  BY <1>1, <1>3, <1>4 DEF FamilyInv

LEMMA SlowSaveKeeps ==
  ASSUME FamilyInv, SlowSave
  PROVE  FamilyInv'
<1> USE DEF FamilyInv
<1> DEFINE of == pending.of
<1>1. of \in People /\ pending.sponsor \in 0..NumPeople /\ pending.role \in Roles \cup {"income"}
  BY DEF SlowSave, FamilyTypeOK
<1>2. pending' = NoForm /\ overlapped' = overlapped
  BY DEF SlowSave
<1>3. CASE pending.role = "income"
  <2>1. EnsureFamilyGroup(of)
    BY <1>3 DEF SlowSave
  <2>2. FamilyTypeOK'
    BY <1>1, <1>2, <2>1, EnsureType, NoFormType DEF FamilyTypeOK
  <2>3. ~overlapped => person[of].sponsor = 0
    BY <1>3 DEF PendingHolds, MaySave, SlowSave
  <2> HIDE DEF of
  <2>4. ~overlapped => NoCircle' /\ SponsorsHaveNone'
    BY <1>1, <2>1, <2>3, EnsureKeeps
  <2> QED  BY <1>2, <2>2, <2>4 DEF PendingHolds, NoForm
<1>4. CASE pending.role # "income"
  <2>1. pending.role \in Roles /\ Saved(of, pending.role, pending.sponsor)
    BY <1>1, <1>4 DEF SlowSave
  <2>2. FamilyTypeOK'
    BY <1>1, <1>2, <2>1, SavedType, NoFormType DEF FamilyTypeOK
  <2>3. ~overlapped => MaySave(of, pending.role, pending.sponsor)
    BY <1>4 DEF PendingHolds, SlowSave
  <2> HIDE DEF of
  <2>4. ~overlapped => NoCircle' /\ SponsorsHaveNone'
    BY <1>1, <2>1, <2>3, SavedKeeps
  <2> QED  BY <1>2, <2>2, <2>4 DEF PendingHolds, NoForm
<1> QED  BY <1>3, <1>4

LEMMA SlowStartKeeps ==
  ASSUME FamilyInv, UNCHANGED <<person, overlapped>>,
         NEW of \in People, NEW role \in Roles \cup {"income"}, NEW s \in 0..NumPeople,
         pending' = [of |-> of, role |-> role, sponsor |-> s],
         NoCircle => MaySave(of, role, s)
  PROVE  FamilyInv'
<1>1. FamilyTypeOK'
  BY FamilyAssumption DEF FamilyInv, FamilyTypeOK, People
<1>2. pending'.of = of /\ pending'.role = role /\ pending'.sponsor = s
  OBVIOUS
<1>3. NoCircle <=> NoCircle'
  BY DEF NoCircle
<1>4. MaySave(of, role, s) => (MaySave(pending.of, pending.role, pending.sponsor))'
  BY <1>2 DEF MaySave, ValidateSponsorRelationship, Upward
<1> QED  BY <1>1, <1>2, <1>3, <1>4 DEF FamilyInv, SponsorsHaveNone, PendingHolds

LEMMA FamilyStep ==
  ASSUME FamilyInv, [FamilyNext]_familyVars
  PROVE  FamilyInv'
<1> USE FamilyAssumption
<1>0. FamilyTypeOK
  BY DEF FamilyInv
<1>1. CASE UNCHANGED familyVars
  BY <1>1 DEF familyVars, FamilyInv, FamilyTypeOK, NoCircle, SponsorsHaveNone, PendingHolds, MaySave,
              ValidateSponsorRelationship, Upward
<1>2. ASSUME NEW c \in People, EditClient(c) PROVE FamilyInv'
  <2>1. PICK f \in Cleaned(c) : Saved(c, f.role, f.sponsor)
    BY <1>2 DEF EditClient
  <2>2. f.role \in Roles /\ f.sponsor \in 0..NumPeople /\ MaySave(c, f.role, f.sponsor)
    BY CleanedMaySave
  <2> QED  BY <1>0, <1>2, <2>1, <2>2, SavedType, SavedKeeps, AtOnceKeeps DEF EditClient
<1>3. ASSUME NEW c \in People, EditIncome(c) PROVE FamilyInv'
  <2> DEFINE top == FamilySponsorFor(c)
  <2>1. top \in People /\ (NoCircle => person[top].sponsor = 0)
    BY <1>0, TopOfAll
  <2>2. EnsureFamilyGroup(top) /\ AtOnce
    BY <1>3 DEF EditIncome
  <2> HIDE DEF top
  <2> QED  BY <1>0, <2>1, <2>2, EnsureType, EnsureKeeps, AtOnceKeeps
<1>4. ASSUME NEW c \in People, FormIsJudged(c) PROVE FamilyInv'
  <2>1. PICK f \in Cleaned(c) : pending' = [of |-> c, role |-> f.role, sponsor |-> f.sponsor]
    BY <1>4 DEF FormIsJudged
  <2> QED  BY <1>4, <2>1, CleanedMaySave, SlowStartKeeps DEF FormIsJudged
<1>5. ASSUME NEW c \in People, IncomeIsSent(c) PROVE FamilyInv'
  <2> DEFINE top == FamilySponsorFor(c)
  <2>1. top \in People /\ (NoCircle => person[top].sponsor = 0)
    BY <1>0, TopOfAll
  <2>2. pending' = [of |-> top, role |-> "income", sponsor |-> 0]
    BY <1>5 DEF IncomeIsSent, NoForm
  <2>3. NoCircle => MaySave(top, "income", 0)
    BY <2>1 DEF MaySave
  <2>4. UNCHANGED <<person, overlapped>> /\ 0 \in 0..NumPeople
    BY <1>5 DEF IncomeIsSent
  <2> HIDE DEF top
  <2> QED  BY <2>1, <2>2, <2>3, <2>4, SlowStartKeeps
<1>6. ASSUME NEW c \in People, ApplyPurpose(c) PROVE FamilyInv'
  <2>1. PICK r \in {"none", "member"} : Saved(c, r, person[c].sponsor)
    BY <1>6 DEF ApplyPurpose
  <2>2. person[c].sponsor \in 0..NumPeople /\ r \in Roles /\ r # "sponsor"
    BY <1>0 DEF FamilyTypeOK, Roles
  <2> QED  BY <1>0, <1>6, <2>1, <2>2, SavedType, SavedKeeps, AtOnceKeeps DEF ApplyPurpose
<1> QED  BY <1>1, <1>2, <1>3, <1>4, <1>5, <1>6, SlowSaveKeeps DEF FamilyNext

(* The page of the income an alert speaks of.                                *)
LEMMA AlertsFindTheIncome ==
  ASSUME FamilyTypeOK, NEW c \in People, NEW g \in CheckedGroup(c)
  PROVE  \/ g = FamilySponsorFor(c)
         \/ g = c /\ person[c].sponsor # 0
         \/ g # c /\ person[g].sponsor # 0
<1> USE FamilyAssumption
<1>1. Upward(c)[0] = c
  BY UpwardSteps
<1>2. CASE g = c
  <2> SUFFICES ASSUME person[c].sponsor = 0 PROVE c = FamilySponsorFor(c)
    BY <1>2
  <2>1. Upward(c)[NumPeople] = c
    BY <1>1, TopStays
  <2> QED  BY <2>1 DEF FamilySponsorFor
<1>3. CASE g # c
  <2>1. g \in People /\ g = person[c].sponsor /\ g # 0
    BY <1>3 DEF CheckedGroup, People
  <2> SUFFICES ASSUME person[g].sponsor = 0 PROVE g = FamilySponsorFor(c)
    BY <1>3
  <2>2. 1 \in 0..NumPeople /\ 1 \in 1..NumPeople
    BY DEF People
  <2>3. Upward(c)[1] = Above(Upward(c)[0])
    BY <2>2, UpwardSteps
  <2>4. Upward(c)[1] = g
    BY <1>1, <2>1, <2>3 DEF Above
  <2>5. Upward(c)[NumPeople] = g
    BY <2>2, <2>4, TopStays
  <2> QED  BY <2>5 DEF FamilySponsorFor, ChainEnds
<1> QED  BY <1>2, <1>3

LEMMA FamiliesAreSound == ASSUME FamilyInv PROVE FamilyHolds
<1>1. overlapped \/ \A c \in People : person[c].sponsor # 0 => ChainEnds(c) /\ person[c].role # "sponsor"
  BY ChainsEnd DEF FamilyInv, SponsorsHaveNone
<1> QED  BY <1>1, AlertsFindTheIncome DEF FamilyInv, FamilyHolds

LEMMA FamilyInvHolds == FamilySpec => []FamilyInv
  BY FamilyInitInv, FamilyStep, PTL DEF FamilySpec

(* For families of any size: unless two edits overlapped, every chain of     *)
(* sponsors ends and nobody who is called a sponsor has one; overlapping or  *)
(* not, an income alert links to the page where that income is edited        *)
(* (services/family.py, forms/case_client_forms.py,                          *)
(* models/_client_health.py).                                                *)
THEOREM FamiliesHold == FamilySpec => []FamilyHolds
  BY FamilyInvHolds, FamiliesAreSound, PTL

-----------------------------------------------------------------------------
(* A token of something somebody wrote. *)
Real == [key : {Clear, Old, New}, plain : Contents]
Fields(t) == [ColumnsOf(t) -> [known : BOOLEAN, token : Real]]
Loaded == [table : {"client"}, of : Fields("client")] \cup [table : {"questionnaire"}, of : Fields("questionnaire")]
Open == [phase : {"open"}, todo : SUBSET Tables, read : SUBSET Tables,
         rows : UNION {[D -> Real] : D \in SUBSET Columns}, wrote : UNION {[D -> Real] : D \in SUBSET Columns}]

RowsAreReal ==
    /\ stored \in [Columns -> Real]
    /\ ring \in [Processes -> {<<Old>>, Both, <<New>>}]
    /\ object \in [Processes -> {NoObject} \cup Loaded]
    /\ rotation \in {NoRotation} \cup Open
    /\ audit \in {NoAudit} \cup [phase : {"running"}, todo : SUBSET Columns] \cup [phase : {"passed"}]
    /\ locking \in BOOLEAN /\ retired \in BOOLEAN
    /\ digest \in Contents \cup {Placeholder}

(* Clear text is in the JSON column only, and whoever has the new key could  *)
(* read all that is in memory.                                               *)
ProcessesRead ==
    /\ \A f \in Texts : stored[f].key # Clear
    /\ \A p \in Processes :
        /\ object[p] # NoObject =>
              \A f \in ColumnsOf(object[p].table) :
                  object[p].of[f].known \/ (ring[p] = <<Old>> /\ object[p].of[f].token.key # Clear)
        /\ ring[p] = <<New>> => retired

(* What the transaction holds is what is in the rows, under the new key.     *)
RotationFollows ==
    rotation # NoRotation =>
        \A f \in DOMAIN rotation.wrote :
            rotation.wrote[f].key = New /\ rotation.wrote[f].plain = stored[f].plain

(* What the validation has passed stays under the new key, as nobody has the *)
(* old one first on the ring.                                                *)
ValidationHolds ==
    /\ audit # NoAudit => \A p \in Processes : ring[p] # <<Old>>
    /\ audit.phase = "running" => \A f \in Columns \ audit.todo : stored[f].key = New
    /\ audit.phase = "passed" => \A f \in Columns : stored[f].key = New
    /\ retired => audit.phase = "passed"

KeysInv ==
    /\ RowsAreReal
    /\ ProcessesRead
    /\ RotationFollows
    /\ ValidationHolds
    /\ IndexFollowsEmail

LEMMA Cols ==
  /\ \A t \in Tables : ColumnsOf(t) \subseteq Columns
  /\ ColumnsOf("client") = Texts /\ ColumnsOf("questionnaire") = Jsons
  /\ "email" \in Texts /\ "email" \in Columns /\ "email" \notin Jsons
  BY DEF Tables, ColumnsOf, Columns, Texts, Jsons

LEMMA Rings ==
  /\ <<Old>> # Both /\ <<Old>> # <<New>> /\ Both # <<New>>
  /\ Head(Both) = New /\ Head(<<New>>) = New /\ Head(<<Old>>) = Old
  /\ OnRing(Old, Both) /\ OnRing(New, Both) /\ OnRing(New, <<New>>)
<1>1. /\ Both[1] = New /\ Both[2] = Old /\ 1 \in DOMAIN Both /\ 2 \in DOMAIN Both
      /\ <<New>>[1] = New /\ 1 \in DOMAIN <<New>> /\ <<Old>>[1] = Old /\ Len(Both) = 2 /\ Len(<<Old>>) = 1 /\ Len(<<New>>) = 1
  BY DEF Both
<1>2. Head(Both) = New /\ Head(<<New>>) = New /\ Head(<<Old>>) = Old
  BY DEF Both
<1> QED  BY <1>1, <1>2 DEF OnRing, Old, New

LEMMA NoRotationIsShut == NoRotation \notin Open /\ NoRotation.phase = "none" /\ \A r \in Open : r.phase = "open" /\ r # NoRotation
  BY DEF NoRotation, Open

LEMMA NoAuditIsNone == NoAudit.phase = "none"
  BY DEF NoAudit

LEMMA NoObjectIsNone == NoObject.table = "none" /\ \A o \in Loaded : o # NoObject /\ o.table \in Tables /\ o.of \in Fields(o.table)
  BY DEF NoObject, Loaded, Tables

LEMMA KeysInitInv == KeysInit => KeysInv
<1> SUFFICES ASSUME KeysInit PROVE KeysInv
  OBVIOUS
<1>1. PICK c \in Contents, k \in {Clear, Old} :
        /\ stored = [f \in Columns |-> [key |-> IF f \in Jsons THEN k ELSE Old, plain |-> c]]
        /\ digest = c
  BY DEF KeysInit
<1>2. stored \in [Columns -> Real] /\ stored["email"].plain = c /\ \A f \in Texts : stored[f].key # Clear
  <2>1. \A f \in Texts : f \in Columns /\ f \notin Jsons
    BY DEF Texts, Jsons, Columns
  <2>2. \A f \in Columns : [key |-> IF f \in Jsons THEN k ELSE Old, plain |-> c] \in Real
    BY DEF Real
  <2> QED  BY <1>1, <2>1, <2>2, Cols DEF Clear, Old
<1>3. RowsAreReal
  BY <1>1, <1>2 DEF KeysInit, RowsAreReal
<1> QED  BY <1>1, <1>2, <1>3, Rings, NoAuditIsNone, NoRotationIsShut
         DEF KeysInit, KeysInv, ProcessesRead, RotationFollows, ValidationHolds, IndexFollowsEmail

LEMMA ReadableOrNot ==
  ASSUME NEW f, NEW token, NEW r
  PROVE  Readable(f, token, r) \in BOOLEAN
<1>1. OnRing(token.key, r) \in BOOLEAN
  BY DEF OnRing
<1>2. CASE token.key = Clear
  BY <1>2 DEF Readable
<1>3. CASE token.key # Clear
  <2>1. Readable(f, token, r) = OnRing(token.key, r)
    BY <1>3 DEF Readable
  <2> QED  BY <1>1, <2>1
<1> QED  BY <1>2, <1>3

LEMMA LoadKeeps ==
  ASSUME KeysInv, NEW p \in Processes, NEW t \in Tables, Load(p, t)
  PROVE  KeysInv'
<1> USE DEF KeysInv
<1> DEFINE of == [f \in ColumnsOf(t) |-> FromDbValue(f, stored[f], ring[p])]
           o == [table |-> t, of |-> of]
<1>1. ASSUME NEW f \in ColumnsOf(t)
      PROVE  /\ FromDbValue(f, stored[f], ring[p]) \in [known : BOOLEAN, token : Real]
             /\ \/ FromDbValue(f, stored[f], ring[p]).known
                \/ ring[p] = <<Old>> /\ FromDbValue(f, stored[f], ring[p]).token.key # Clear
  <2> DEFINE known == Readable(f, stored[f], ring[p])
             key == IF known THEN Clear ELSE stored[f].key
  <2>1. stored[f] \in Real /\ f \in Columns
    BY Cols DEF RowsAreReal
  <2>2. known \in BOOLEAN
    BY ReadableOrNot
  <2>3. key \in {Clear, Old, New}
    BY <2>1 DEF Real
  <2>4. ring[p] # <<Old>> => known
    <3> SUFFICES ASSUME ring[p] # <<Old>> PROVE known
      OBVIOUS
    <3>1. CASE ring[p] = Both
      BY <2>1, <3>1, Rings DEF Readable, ProcessesRead, Columns, Real
    <3>2. CASE ring[p] = <<New>>
      <4>1. stored[f].key = New
        BY <2>1, <3>2 DEF ProcessesRead, ValidationHolds
      <4> QED  BY <3>2, <4>1, Rings DEF Readable, New, Clear
    <3> QED  BY <3>1, <3>2 DEF RowsAreReal
  <2>5. FromDbValue(f, stored[f], ring[p]) = [known |-> known, token |-> [stored[f] EXCEPT !.key = key]]
    BY <2>1 DEF FromDbValue, Real
  <2>6. ~known => key # Clear
    BY <2>1, Cols DEF ProcessesRead, Readable, Columns
  <2>7. ring[p] # <<Old>> \/ ring[p] = <<Old>>
    OBVIOUS
  <2> HIDE DEF known, key
  <2> QED  BY <2>1, <2>2, <2>3, <2>4, <2>5, <2>6, <2>7 DEF Real
<1>2. of \in Fields(t) /\ \A f \in ColumnsOf(t) : of[f].known \/ (ring[p] = <<Old>> /\ of[f].token.key # Clear)
  BY <1>1 DEF Fields
<1> HIDE DEF of
<1>3. o \in Loaded /\ o.table = t /\ o.of = of
  BY <1>2 DEF Loaded, Tables
<1>4. object' = [object EXCEPT ![p] = o]
  BY DEF Load, of
<1> HIDE DEF o
<1>5. object' \in [Processes -> {NoObject} \cup Loaded] /\ object'[p] = o
      /\ \A q \in Processes \ {p} : object'[q] = object[q]
  BY <1>3, <1>4 DEF RowsAreReal
<1>6. RowsAreReal'
  BY <1>5 DEF Load, RowsAreReal
<1>7. ProcessesRead'
  BY <1>2, <1>3, <1>5 DEF Load, ProcessesRead
<1> QED  BY <1>6, <1>7 DEF Load, RotationFollows, ValidationHolds, IndexFollowsEmail

LEMMA SaveRowKeeps ==
  ASSUME KeysInv, NEW p \in Processes, NEW f \in Columns, NEW c \in Contents, SaveRow(p, f, c)
  PROVE  KeysInv'
<1> USE DEF KeysInv
<1> DEFINE o == object[p]
           known == [known |-> TRUE, token |-> [key |-> Clear, plain |-> c]]
           now == [o EXCEPT !.of[f] = known]
<1>1. o \in Loaded /\ o.table \in Tables /\ o.of \in Fields(o.table) /\ f \in ColumnsOf(o.table)
  BY NoObjectIsNone DEF SaveRow, RowsAreReal
<1>2. known \in [known : BOOLEAN, token : Real] /\ known.known
  BY DEF Real
<1>3. now.table = o.table /\ now.of \in Fields(o.table)
      /\ \A g \in ColumnsOf(o.table) : now.of[g].known \/ (ring[p] = <<Old>> /\ now.of[g].token.key # Clear)
  <2>1. \A g \in ColumnsOf(o.table) : o.of[g].known \/ (ring[p] = <<Old>> /\ o.of[g].token.key # Clear)
    BY <1>1, NoObjectIsNone DEF ProcessesRead
  <2> HIDE DEF known
  <2>2. now.table = o.table /\ now.of = [o.of EXCEPT ![f] = known]
    BY <1>1 DEF Loaded
  <2> HIDE DEF now, o
  <2> QED  BY <1>1, <1>2, <2>1, <2>2 DEF Fields
<1>4. PICK fields \in {{f}, ColumnsOf(o.table)} :
         /\ stored' = [g \in Columns |-> IF g \in fields THEN GetPrepValue(now.of[g], ring[p]) ELSE stored[g]]
         /\ digest' = IF IndexWritten(now, fields) THEN Shows(now.of["email"]) ELSE digest
  BY DEF SaveRow
<1>5. fields \subseteq ColumnsOf(o.table) /\ fields \subseteq Columns
  BY <1>1, Cols
<1>6. UNCHANGED <<ring, rotation, audit, locking, retired>> /\ object' = [object EXCEPT ![p] = NoObject]
      /\ \A g \in ColumnsOf(o.table) : ~Locked(g)
  BY DEF SaveRow
<1> HIDE DEF now, known, o
<1>7. ASSUME NEW g \in fields
      PROVE  /\ stored'[g] \in Real
             /\ stored'[g].key # Clear
             /\ ring[p] # <<Old>> => stored'[g].key = New
             /\ now.of[g].known => stored'[g].plain = now.of[g].token.plain
  <2>1. stored'[g] = GetPrepValue(now.of[g], ring[p]) /\ now.of[g] \in [known : BOOLEAN, token : Real]
    BY <1>3, <1>4, <1>5 DEF Fields
  <2>2. ring[p] \in {<<Old>>, Both, <<New>>}
    BY DEF RowsAreReal
  <2> QED
    <3> DEFINE m == now.of[g]
    <3>1. m.token \in Real /\ m.known \in BOOLEAN /\ (m.known \/ (ring[p] = <<Old>> /\ m.token.key # Clear))
      BY <1>3, <1>5, <2>1
    <3>2. Head(ring[p]) \in {Old, New} /\ (ring[p] # <<Old>> => Head(ring[p]) = New)
      BY <2>2, Rings
    <3>3. stored'[g] = GetPrepValue(m, ring[p])
      BY <2>1
    <3> HIDE DEF m
    <3>4. CASE m.known
      <4>1. stored'[g] = [key |-> Head(ring[p]), plain |-> m.token.plain]
        BY <3>3, <3>4 DEF GetPrepValue
      <4> QED  BY <3>1, <3>2, <3>4, <4>1 DEF Real, Old, New, Clear, m
    <3>5. CASE ~m.known
      <4>1. stored'[g] = m.token
        BY <3>3, <3>5 DEF GetPrepValue
      <4> QED  BY <3>1, <3>5, <4>1 DEF m
    <3> QED  BY <3>1, <3>4, <3>5
<1>8. \A g \in Columns \ fields : stored'[g] = stored[g]
  BY <1>4
<1>9. digest' \in {stored'["email"].plain, Placeholder}
  <2>1. CASE IndexWritten(now, fields)
    <3>1. "email" \in fields /\ digest' = Shows(now.of["email"])
      BY <1>4, <2>1 DEF IndexWritten
    <3> QED  BY <1>7, <3>1 DEF Shows
  <2>2. CASE ~IndexWritten(now, fields)
    <3>1. "email" \notin fields
      BY <1>1, <1>3, <1>5, <2>2, Cols DEF IndexWritten, Tables
    <3> QED  BY <1>4, <1>8, <2>2, <3>1, Cols DEF IndexFollowsEmail
  <2> QED  BY <2>1, <2>2
<1>10. \A g \in Columns : stored'[g] \in Real
  BY <1>7, <1>8 DEF RowsAreReal
<1>11. RowsAreReal'
  <2>1. stored' \in [Columns -> Real]
    BY <1>4, <1>10
  <2>2. stored'["email"].plain \in Contents
    BY <1>10, Cols DEF Real
  <2> QED  BY <1>6, <1>9, <2>1, <2>2 DEF RowsAreReal
<1>12. ProcessesRead'
  BY <1>5, <1>6, <1>7, <1>8, Cols DEF ProcessesRead, RowsAreReal, Columns
<1>13. RotationFollows'
  <2> SUFFICES ASSUME rotation # NoRotation, NEW g \in DOMAIN rotation.wrote
               PROVE  stored'[g] = stored[g]
    BY <1>6 DEF RotationFollows
  <2>1. rotation.phase = "open" /\ g \in Columns
    BY NoRotationIsShut DEF RowsAreReal, Open
  <2>2. g \notin fields
    BY <1>1, <1>5, <1>6, <2>1 DEF Locked
  <2> QED  BY <1>8, <2>1, <2>2
<1>14. ValidationHolds'
  BY <1>6, <1>7, <1>8 DEF ValidationHolds, NoAudit
<1> QED  BY <1>9, <1>11, <1>12, <1>13, <1>14 DEF IndexFollowsEmail

(* Processes restarted with another ring have forgotten what they had. *)
LEMMA RestartKeeps ==
  ASSUME KeysInv, NEW p \in Processes, NEW r \in {Both, <<New>>},
         ring' = [ring EXCEPT ![p] = r], object' = [object EXCEPT ![p] = NoObject],
         UNCHANGED <<stored, digest, rotation, audit, locking>>,
         retired' \in BOOLEAN, retired => retired', r = <<New>> => retired', retired' => audit.phase = "passed"
  PROVE  KeysInv'
<1> USE DEF KeysInv
<1>1. /\ ring' \in [Processes -> {<<Old>>, Both, <<New>>}] /\ ring'[p] = r
      /\ object' \in [Processes -> {NoObject} \cup Loaded] /\ object'[p] = NoObject
      /\ \A q \in Processes \ {p} : ring'[q] = ring[q] /\ object'[q] = object[q]
  BY DEF RowsAreReal
<1>2. RowsAreReal'
  BY <1>1 DEF RowsAreReal
<1>3. ProcessesRead'
  BY <1>1 DEF ProcessesRead
<1>4. ValidationHolds'
  BY <1>1, Rings DEF ValidationHolds, NoAudit
<1> QED  BY <1>2, <1>3, <1>4 DEF RotationFollows, IndexFollowsEmail

(* The steps of a transaction that has not ended. *)
LEMMA RotationStepKeeps ==
  ASSUME KeysInv, rotation' \in {NoRotation} \cup Open, RotationFollows',
         UNCHANGED <<stored, digest, ring, object, audit, locking, retired>>
  PROVE  KeysInv'
  BY DEF KeysInv, RowsAreReal, ProcessesRead, ValidationHolds, IndexFollowsEmail

LEMMA AbortKeeps == ASSUME KeysInv, AbortRotation PROVE KeysInv'
  BY RotationStepKeeps DEF AbortRotation, RotationFollows, NoRotation

LEMMA RotateKeeps ==
  ASSUME KeysInv, NEW tables \in SUBSET Tables, RotateFernetFields(tables)
  PROVE  KeysInv'
<1> DEFINE r == [phase |-> "open", todo |-> tables, read |-> {}, rows |-> <<>>, wrote |-> <<>>]
<1>1. <<>> \in [{} -> Real] /\ DOMAIN <<>> = {}
  OBVIOUS
<1>2. <<>> \in UNION {[D -> Real] : D \in SUBSET Columns}
  BY <1>1
<1>3. r \in Open /\ r.wrote = <<>>
  BY <1>2 DEF Open
<1>4. rotation' = r
  BY DEF RotateFernetFields
<1> HIDE DEF r
<1>5. RotationFollows'
  BY <1>1, <1>3, <1>4 DEF RotationFollows
<1> QED  BY <1>3, <1>4, <1>5, RotationStepKeeps DEF RotateFernetFields

LEMMA RotateModelKeeps ==
  ASSUME KeysInv, NEW t \in Tables, RotateModel(t)
  PROVE  KeysInv'
<1> USE DEF KeysInv
<1>1. CASE AbortRotation
  BY <1>1, AbortKeeps
<1>2. CASE ~AbortRotation
  <2> DEFINE rows == [f \in ColumnsOf(t) |-> stored[f]]
             r == [rotation EXCEPT !.todo = @ \ {t}, !.read = @ \cup {t}, !.rows = rows]
  <2>1. rotation \in Open /\ rotation' = r
    BY <1>2, NoRotationIsShut DEF RotateModel, RowsAreReal, NoRotation
  <2>2. rows \in UNION {[D -> Real] : D \in SUBSET Columns}
    <3>1. rows \in [ColumnsOf(t) -> Real] /\ ColumnsOf(t) \in SUBSET Columns
      BY Cols DEF RowsAreReal
    <3> HIDE DEF rows
    <3> QED  BY <3>1
  <2> HIDE DEF rows
  <2>3. rotation' \in Open /\ rotation'.wrote = rotation.wrote
    BY <2>1, <2>2 DEF Open
  <2>4. RotationFollows'
    BY <1>2, <2>1, <2>3, NoRotationIsShut DEF RotationFollows, RotateModel
  <2> QED  BY <1>2, <2>3, <2>4, RotationStepKeeps DEF RotateModel
<1> QED  BY <1>1, <1>2

LEMMA RotateFieldKeeps ==
  ASSUME KeysInv, NEW f \in Columns, RotateField(f)
  PROVE  KeysInv'
<1> USE DEF KeysInv
<1>1. CASE AbortRotation
  BY <1>1, AbortKeeps
<1>2. CASE ~AbortRotation
  <2> DEFINE rows == [g \in DOMAIN rotation.rows \ {f} |-> rotation.rows[g]]
             token == [rotation.rows[f] EXCEPT !.key = New]
             wrote == [g \in DOMAIN rotation.wrote \cup {f} |-> IF g = f THEN token ELSE rotation.wrote[g]]
             r == [rotation EXCEPT !.rows = rows, !.wrote = wrote]
  <2>1. rotation \in Open /\ stored[f] = rotation.rows[f]
    BY <1>2, NoRotationIsShut DEF RotateField, RowsAreReal, NoRotation, ConditionalUpdateRaw
  <2>2. rotation' = r
    BY <1>2, <2>1 DEF RotateField, ConditionalUpdateRaw, Open
  <2>3. PICK D \in SUBSET Columns, E \in SUBSET Columns : rotation.rows \in [D -> Real] /\ rotation.wrote \in [E -> Real]
    BY <2>1 DEF Open
  <2>4. token \in Real /\ token.key = New /\ token.plain = stored[f].plain
    BY <2>1 DEF RowsAreReal, Real
  <2> HIDE DEF token
  <2>5. rows \in [D \ {f} -> Real] /\ D \ {f} \in SUBSET Columns
    BY <2>3
  <2>6. wrote \in [E \cup {f} -> Real] /\ E \cup {f} \in SUBSET Columns /\ wrote[f] = token
        /\ \A g \in E \ {f} : wrote[g] = rotation.wrote[g]
    BY <2>3, <2>4
  <2> HIDE DEF rows, wrote
  <2>7. /\ rows \in UNION {[X -> Real] : X \in SUBSET Columns}
        /\ wrote \in UNION {[X -> Real] : X \in SUBSET Columns}
    BY <2>5, <2>6
  <2>8. rotation' \in Open /\ rotation'.wrote = wrote
    BY <2>1, <2>2, <2>7 DEF Open
  <2>9. RotationFollows'
    <3>1. \A g \in E : rotation.wrote[g].key = New /\ rotation.wrote[g].plain = stored[g].plain
      BY <2>1, <2>3, NoRotationIsShut DEF RotationFollows
    <3>2. UNCHANGED stored
      BY <1>2 DEF RotateField
    <3> QED  BY <2>4, <2>6, <2>8, <3>1, <3>2 DEF RotationFollows
  <2> QED  BY <1>2, <2>8, <2>9, RotationStepKeeps DEF RotateField
<1> QED  BY <1>1, <1>2

LEMMA CommitKeeps ==
  ASSUME KeysInv, CommitRotation
  PROVE  KeysInv' /\ \A f \in Columns : stored'[f].plain = stored[f].plain
<1> USE DEF KeysInv
<1>1. rotation \in Open /\ rotation # NoRotation
  BY NoRotationIsShut DEF CommitRotation, RowsAreReal, NoRotation
<1>2. PICK E \in SUBSET Columns : rotation.wrote \in [E -> Real]
  BY <1>1 DEF Open
<1>3. ASSUME NEW f \in Columns
      PROVE  /\ stored'[f] \in Real /\ stored'[f].plain = stored[f].plain
             /\ stored'[f].key \in {New, stored[f].key}
  BY <1>1, <1>2 DEF CommitRotation, RotationFollows, RowsAreReal
<1>4. stored' \in [Columns -> Real]
  BY <1>3 DEF CommitRotation
<1>5. RowsAreReal'
  BY <1>4 DEF CommitRotation, RowsAreReal
<1>6. ProcessesRead'
  BY <1>3 DEF CommitRotation, ProcessesRead, Columns, New, Clear
<1>7. ValidationHolds'
  BY <1>3 DEF CommitRotation, ValidationHolds
<1>8. IndexFollowsEmail'
  BY <1>3, Cols DEF CommitRotation, IndexFollowsEmail
<1> QED  BY <1>3, <1>5, <1>6, <1>7, <1>8 DEF CommitRotation, RotationFollows

LEMMA AuditKeeps ==
  ASSUME KeysInv, ValidateEncryptedData \/ \E f \in Columns : CheckField(f)
  PROVE  KeysInv'
<1> USE DEF KeysInv
<1> DEFINE Audits == {NoAudit} \cup [phase : {"running"}, todo : SUBSET Columns] \cup [phase : {"passed"}]
<1> SUFFICES audit' \in Audits /\ ValidationHolds' /\ UNCHANGED <<stored, digest, ring, object, rotation, locking, retired>>
  BY DEF RowsAreReal, ProcessesRead, RotationFollows, IndexFollowsEmail
<1>1. CASE ValidateEncryptedData
  <2>1. audit' = [phase |-> "running", todo |-> Columns] /\ audit'.phase = "running" /\ audit'.todo = Columns
    BY <1>1 DEF ValidateEncryptedData
  <2> QED  BY <1>1, <2>1, Rings DEF ValidateEncryptedData, ValidationHolds
<1>2. ASSUME NEW f \in Columns, CheckField(f) PROVE audit' \in Audits /\ ValidationHolds'
  <2>1. /\ audit \in [phase : {"running"}, todo : SUBSET Columns] /\ ~retired /\ audit # NoAudit
        /\ \A g \in Columns \ audit.todo : stored[g].key = New
    BY <1>2 DEF CheckField, RowsAreReal, ValidationHolds, NoAudit
  <2>2. UNCHANGED <<stored, ring, retired>>
    BY <1>2 DEF CheckField
  <2>3. CASE audit' = NoAudit
    BY <2>1, <2>2, <2>3 DEF ValidationHolds, NoAudit
  <2>4. CASE ClassifyValue(stored[f]) /\ audit.todo = {f}
    <3>1. audit' = [phase |-> "passed"] /\ audit'.phase = "passed"
      BY <1>2, <2>4 DEF CheckField
    <3> QED  BY <2>1, <2>2, <2>4, <3>1 DEF ValidationHolds, ClassifyValue
  <2>5. CASE ClassifyValue(stored[f]) /\ audit.todo # {f}
    <3>1. audit' = [audit EXCEPT !.todo = @ \ {f}]
      BY <1>2, <2>5 DEF CheckField
    <3>2. audit' \in [phase : {"running"}, todo : SUBSET Columns] /\ audit'.todo = audit.todo \ {f} /\ audit'.phase = "running"
      BY <2>1, <3>1
    <3> QED  BY <2>1, <2>2, <2>5, <3>2 DEF ValidationHolds, ClassifyValue
  <2> QED  BY <1>2, <2>3, <2>4, <2>5 DEF CheckField
<1> QED  BY <1>1, <1>2 DEF CheckField

LEMMA KeysStep ==
  ASSUME KeysInv, [KeysNext]_keysVars
  PROVE  KeysInv'
<1>1. CASE UNCHANGED keysVars
  BY <1>1 DEF keysVars, KeysInv, RowsAreReal, ProcessesRead, RotationFollows, ValidationHolds, IndexFollowsEmail
<1>2. ASSUME NEW p \in Processes, Configure(p) PROVE KeysInv'
  <2>1. retired \in BOOLEAN /\ (retired => audit.phase = "passed")
    BY DEF KeysInv, RowsAreReal, ValidationHolds
  <2> QED  BY <1>2, <2>1, RestartKeeps, Rings DEF Configure
<1>3. ASSUME NEW p \in Processes, RemoveOldKey(p) PROVE KeysInv'
  BY <1>3, RestartKeeps DEF RemoveOldKey
<1> QED  BY <1>1, <1>2, <1>3, LoadKeeps, SaveRowKeeps, RotateKeeps, RotateModelKeeps, RotateFieldKeeps, CommitKeeps,
            AuditKeeps DEF KeysNext

LEMMA KeysHaveTheirTypes == ASSUME KeysInv PROVE KeysTypeOK
<1>1. \A x \in Real : x \in Token
  BY DEF Real, Token
<1>2. stored \in [Columns -> Token]
  BY <1>1 DEF KeysInv, RowsAreReal
<1>3. \A t \in Tables : \A x \in Fields(t) : x \in [ColumnsOf(t) -> Seen]
  BY <1>1 DEF Fields, Seen
<1>4. ASSUME NEW p \in Processes, object[p] # NoObject
      PROVE  object[p].table \in Tables /\ object[p].of \in [ColumnsOf(object[p].table) -> Seen]
  <2>1. object[p] \in Loaded
    BY <1>4 DEF KeysInv, RowsAreReal
  <2> QED  BY <1>3, <2>1, NoObjectIsNone
<1>5. rotation.phase \in {"none", "open"} /\ audit.phase \in {"none", "running", "passed"}
  BY NoRotationIsShut, NoAuditIsNone DEF KeysInv, RowsAreReal
<1> QED  BY <1>2, <1>4, <1>5 DEF KeysInv, RowsAreReal, KeysTypeOK

LEMMA KeysInvHolds == KeysSpec => []KeysInv
  BY KeysInitInv, KeysStep, PTL DEF KeysSpec

(* For any number of processes and any contents: no column ever holds the    *)
(* placeholder, and nothing is under a key that was taken off the rings      *)
(* (fernet_fields/fields.py get_prep_value, validate_encrypted_data.py).     *)
THEOREM ValuesAreReadable == KeysSpec => []ValuesSurvive
<1>1. KeysInv => ValuesSurvive
  BY KeysAssumption DEF KeysInv, RowsAreReal, ValidationHolds, ValuesSurvive, Real
<1> QED  BY <1>1, KeysInvHolds, PTL

(* The blind index is of the address in its row, or of the placeholder       *)
(* (Client.save).                                                            *)
THEOREM IndexIsOfTheEmail == KeysSpec => []IndexFollowsEmail
<1>1. KeysInv => IndexFollowsEmail
  BY DEF KeysInv
<1> QED  BY <1>1, KeysInvHolds, PTL

(* A commit of the rotation changes no value, whoever saves meanwhile        *)
(* (rotate_fernet_fields.py, _conditional_update_raw).                       *)
THEOREM RotationChangesNoValue == KeysSpec => RotationKeepsValues
<1> DEFINE Kept == rotation' # rotation => \A f \in Columns : stored'[f].plain = stored[f].plain
<1>1. KeysInv /\ [KeysNext]_keysVars => [Kept]_keysVars
  <2> SUFFICES ASSUME KeysInv, KeysNext, rotation' # rotation
               PROVE  \A f \in Columns : stored'[f].plain = stored[f].plain
    OBVIOUS
  <2>1. CASE CommitRotation
    BY <2>1, CommitKeeps
  <2>2. CASE UNCHANGED stored
    BY <2>2
  <2>3. ASSUME NEW p \in Processes, NEW f \in Columns, NEW c \in Contents, SaveRow(p, f, c) PROVE FALSE
    BY <2>3 DEF SaveRow
  <2> QED  BY <2>1, <2>2, <2>3 DEF KeysNext, Load, Configure, RemoveOldKey, RotateFernetFields, RotateModel,
              RotateField, AbortRotation, ValidateEncryptedData, CheckField
<1>2. KeysSpec => [][Kept]_keysVars
  BY <1>1, KeysInvHolds, PTL DEF KeysSpec
<1> QED  BY <1>2 DEF RotationKeepsValues

-----------------------------------------------------------------------------
(* The parts together (MCClientFile): a behaviour of one part stutters in    *)
(* the others.                                                               *)

LEMMA FormsFollowTheirSpecs == Spec => IntakeSpec /\ QuestionnaireSpec /\ PrivacySpec /\ ChecklistSpec
<1>1. Init => IntakeInit /\ QuestionnaireInit /\ PrivacyInit /\ ChecklistInit
  BY DEF Init
<1>2. [Next]_fileVars => [IntakeNext]_intakeVars
  BY DEF Next, fileVars
<1>3. [Next]_fileVars => [QuestionnaireNext]_questionnaireVars
  BY DEF Next, fileVars
<1>4. [Next]_fileVars => [PrivacyNext]_privacyVars
  BY DEF Next, fileVars, PrivacyNext, privacyVars
<1>5. [Next]_fileVars => [ChecklistNext]_checklistVars
  BY DEF Next, fileVars
<1> QED
  BY <1>1, <1>2, <1>3, <1>4, <1>5, PTL DEF Spec, IntakeSpec, QuestionnaireSpec, PrivacySpec, ChecklistSpec

LEMMA FilesFollowTheirSpecs == Spec => PapersSpec /\ FamilySpec /\ KeysSpec
<1>1. Init => PapersInit /\ FamilyInit /\ KeysInit
  BY DEF Init
<1>2. [Next]_fileVars => [PapersNext]_papersVars
  BY DEF Next, fileVars
<1>3. [Next]_fileVars => [FamilyNext]_familyVars
  BY DEF Next, fileVars
<1>4. [Next]_fileVars => [KeysNext]_keysVars
  BY DEF Next, fileVars
<1> QED  BY <1>1, <1>2, <1>3, <1>4, PTL DEF Spec, PapersSpec, FamilySpec, KeysSpec

(* Every row of a client's file, and every request on it, has its type in    *)
(* every behaviour of the whole (models/onboarding.py, models/consent.py,    *)
(* models/client.py, models/document.py, models/wniosek.py, models/task.py,  *)
(* fernet_fields/fields.py).                                                 *)
THEOREM ClientFilesHaveTheirTypes == Spec => []TypeOK
<1>1. IntakeInv /\ QuestionnaireInv /\ PrivacyInv /\ ChecklistTypeOK /\ PapersInv /\ FamilyInv /\ KeysInv => TypeOK
  BY QuestionnaireHasItsTypes, PrivacyHasItsTypes, PapersHaveTheirTypes, KeysHaveTheirTypes DEF IntakeInv, FamilyInv, TypeOK
<1> QED
  BY <1>1, FormsFollowTheirSpecs, FilesFollowTheirSpecs, IntakeInvHolds, QuestionnaireInvHolds, PrivacyInvHolds,
     ChecklistTypeHolds, PapersInvHolds, FamilyInvHolds, KeysInvHolds, PTL

(* What the parts promise, the whole promises, in every behaviour that a run *)
(* of it explores and for any number of visitors, papers, people and keys.   *)
THEOREM ClientFilesKeepTheirPromises ==
  Spec => /\ [](NoOrphanedFormClient /\ ErasureLeavesNothing /\ ListsAgree /\ NothingBorrowed)
          /\ [](PapersAreSeen /\ FamilyHolds /\ ValuesSurvive /\ IndexFollowsEmail)
          /\ PortalRespectsLocks /\ HoldsYieldToListedOnly /\ RotationKeepsValues
BY FormsFollowTheirSpecs, FilesFollowTheirSpecs, FormClientsHaveAccounts, ErasuresAreComplete,
   BothListsAgree, NoPaperIsBorrowed, NoPaperIsForgotten, FamiliesHold, ValuesAreReadable,
   IndexIsOfTheEmail, LockedFormsStayLocked, HoldsAreHeeded, RotationChangesNoValue, PTL
=============================================================================
