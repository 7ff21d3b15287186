------------------------- MODULE AutomationProofs --------------------------
(* Theorems about the work that runs by itself: the reminder passes, the     *)
(* loops that start them, the letters, the uploads kept in the database and  *)
(* the dumps of it.  Each part is proved of its own specification, and what  *)
(* the model is checked as (MCAutomation) behaves as all of them.            *)
EXTENDS MCAutomation, FiniteSetTheorems, TLAPS

-----------------------------------------------------------------------------
(* Reminders and the passes (ReminderPasses).                                *)

PassRecord == [at : SectionNames \union {"idle"}, saw : BOOLEAN, only : Scopes \union {{}}]

Writers(section) == {p \in Passes : Writing(p, section)}

PassesInv == pass \in [Passes -> PassRecord]

PaymentInv ==
    /\ pay \in [there : BOOLEAN, archived : BOOLEAN, status : Statuses, paid : 0..Total, due : {"later", "now"}]
    /\ pay.there => Storable(FormOf(pay))
    /\ payRem \in RemStates
    /\ raced \in BOOLEAN
    /\ RemindersMatchDebts

(* Whoever has found the case without a reminder will add one.               *)
StayInv ==
    /\ stay \in BOOLEAN /\ overlapped \in BOOLEAN /\ stayRows \in Nat
    /\ stayRows + Cardinality(Writers("legal-stay")) <= Cardinality(Passes)
    /\ overlapped \/ stayRows + Cardinality(Writers("legal-stay")) <= 1

RequirementInv ==
    /\ req \in {"none", "wanted", "answered"} /\ reqOn \in BOOLEAN /\ reqRows \in Nat
    /\ reqRows + Cardinality(Writers("custom")) <= Cardinality(Passes)
    /\ req = "none" => reqRows = 0 /\ Writers("custom") = {}

RestInv ==
    /\ docRem \in RemStates /\ doc \in {"far", "near", "archived"}
    /\ {waiting, task, manyCases, misled} \subseteq BOOLEAN
    /\ edits \in 0..MaxEdits

RemindersInv == PassesInv /\ PaymentInv /\ StayInv /\ RequirementInv /\ RestInv

-----------------------------------------------------------------------------
(* Payments: what a form may say can be stored, and what is stored has none  *)
(* of the issues the audit looks for.                                        *)

LEMMA CleanIsStorable ==
  ASSUME NEW f \in Offered, Clean(f)
  PROVE  Storable(f) /\ f.paid \in 0..Total /\ f.status \in Statuses /\ f.due \in {"later", "now"}
<1>1. f \in [status : {"pending", "partial", "paid", "refunded"}, paid : 0..(Total + 1), due : {"later", "now"}]
  BY RemindersAssumption
<1>2. Total \in Nat \ {0} /\ f.paid \in 0..(Total + 1) /\ f.paid <= Total
  BY <1>1, RemindersAssumption DEF Clean
<1> QED  BY <1>1, <1>2 DEF Clean, Storable, Statuses

LEMMA StorableHasNoIssues ==
  ASSUME NEW row, row.paid \in 0..Total, Storable(FormOf(row))
  PROVE  Issues(FormOf(row)) = {}
<1>1. Total \in Nat \ {0}
  BY RemindersAssumption
<1>2. FormOf(row).paid = row.paid /\ FormOf(row).status = row.status
  BY DEF FormOf
<1> QED  BY <1>1, <1>2 DEF Issues, Storable

LEMMA RowIsStored ==
  ASSUME NEW f \in Offered, Clean(f), NEW archived \in BOOLEAN
  PROVE  /\ Row(f, archived) \in [there : BOOLEAN, archived : BOOLEAN, status : Statuses, paid : 0..Total, due : {"later", "now"}]
         /\ Storable(FormOf(Row(f, archived)))
         /\ SyncedRem(Row(f, archived)) = "active" => Unpaid(Row(f, archived))
<1>1. Storable(f) /\ f.paid \in 0..Total /\ f.status \in Statuses /\ f.due \in {"later", "now"}
  BY CleanIsStorable
<1>2. Row(f, archived) \in [there : BOOLEAN, archived : BOOLEAN, status : Statuses, paid : 0..Total, due : {"later", "now"}]
  BY <1>1 DEF Row
<1>3. FormOf(Row(f, archived)).status = f.status /\ FormOf(Row(f, archived)).paid = f.paid
  BY DEF Row, FormOf
<1>4. Storable(FormOf(Row(f, archived)))
  BY <1>1, <1>3 DEF Storable
<1>5. SyncedRem(Row(f, archived)) = "active" => Unpaid(Row(f, archived))
  BY DEF SyncedRem, Owed, Off
<1> QED  BY <1>2, <1>4, <1>5

LEMMA SyncedIsState == ASSUME PaymentInv, NEW row PROVE SyncedRem(row) \in RemStates
  BY DEF PaymentInv, RemStates, SyncedRem, Off

LEMMA FormsKeepPayment ==
  ASSUME PaymentInv, NEW f \in Offered, AddPayment(f) \/ EditPayment(f) \/ AdminSavesPayment(f)
  PROVE  PaymentInv'
<1>1. UNCHANGED raced
  BY DEF AddPayment, EditPayment, AdminSavesPayment, OnlyPayments, passVars
<1>2. \/ UNCHANGED <<pay, payRem>>
      \/ \E archived \in BOOLEAN : Clean(f) /\ pay' = Row(f, archived) /\ payRem' = SyncedRem(pay')
  BY DEF PaymentInv, AddPayment, EditPayment, AdminSavesPayment
<1>3. CASE UNCHANGED <<pay, payRem>>
  BY <1>1, <1>3 DEF PaymentInv, RemindersMatchDebts
<1>4. ASSUME NEW archived \in BOOLEAN, Clean(f), pay' = Row(f, archived), payRem' = SyncedRem(pay')
      PROVE  PaymentInv'
  <2>1. payRem' \in RemStates
    BY <1>4, SyncedIsState
  <2>2. payRem' = "active" => Unpaid(pay')
    BY <1>4, RowIsStored
  <2>3. Storable(FormOf(pay'))
    BY <1>4, RowIsStored
  <2>4. pay' \in [there : BOOLEAN, archived : BOOLEAN, status : Statuses, paid : 0..Total, due : {"later", "now"}]
    BY <1>4, RowIsStored
  <2> QED  BY <1>1, <2>1, <2>2, <2>3, <2>4 DEF PaymentInv, RemindersMatchDebts, Unpaid
<1> QED  BY <1>2, <1>3, <1>4

LEMMA StoredStaysStorable ==
  ASSUME PaymentInv,
         \/ \E b \in BOOLEAN : pay' = [pay EXCEPT !.archived = b]
         \/ pay' = [pay EXCEPT !.due = "now"]
  PROVE  /\ pay' \in [there : BOOLEAN, archived : BOOLEAN, status : Statuses, paid : 0..Total, due : {"later", "now"}]
         /\ pay'.there => Storable(FormOf(pay'))
         /\ pay'.there = pay.there /\ pay'.status = pay.status
<1>1. pay' \in [there : BOOLEAN, archived : BOOLEAN, status : Statuses, paid : 0..Total, due : {"later", "now"}]
  BY DEF PaymentInv
<1>2. pay'.there = pay.there /\ pay'.status = pay.status /\ pay'.paid = pay.paid
  BY DEF PaymentInv
<1>3. pay'.there => Storable(FormOf(pay'))
  BY <1>2 DEF PaymentInv, Storable, FormOf
<1> QED  BY <1>1, <1>2, <1>3

LEMMA PaymentStaysKept ==
  ASSUME PaymentInv, DeletePayment \/ RestorePayment \/ DueDateArrives
  PROVE  PaymentInv'
<1>1. UNCHANGED raced
  BY DEF DeletePayment, RestorePayment, DueDateArrives, OnlyPayments, passVars
<1>2. /\ pay' \in [there : BOOLEAN, archived : BOOLEAN, status : Statuses, paid : 0..Total, due : {"later", "now"}]
      /\ pay'.there => Storable(FormOf(pay'))
      /\ pay'.there = pay.there /\ pay'.status = pay.status
  BY StoredStaysStorable DEF DeletePayment, RestorePayment, DueDateArrives
<1>3. payRem' \in RemStates
  BY DEF DeletePayment, RestorePayment, DueDateArrives, PaymentInv, RemStates, Off
<1>4. CASE DeletePayment
  <2>1. payRem' # "active"
    BY <1>4 DEF DeletePayment, Off
  <2> QED  BY <1>1, <1>2, <1>3, <2>1 DEF PaymentInv, RemindersMatchDebts
<1>5. CASE RestorePayment
  <2>1. pay.archived /\ pay'.archived = FALSE
    BY <1>5 DEF RestorePayment, PaymentInv
  <2>2. ~Unpaid(pay)
    BY <2>1 DEF Unpaid
  <2>3. payRem' = "active" => (pay.status = "partial" \/ payRem = "active")
    BY <1>5 DEF RestorePayment
  <2>4. pay.there
    BY <1>5 DEF RestorePayment
  <2>5. payRem' = "active" => Unpaid(pay') \/ raced
    BY <1>2, <2>1, <2>2, <2>3, <2>4 DEF PaymentInv, RemindersMatchDebts, Unpaid
  <2> QED  BY <1>1, <1>2, <1>3, <2>5 DEF PaymentInv, RemindersMatchDebts
<1>6. CASE DueDateArrives
  <2>1. pay'.archived = pay.archived /\ payRem' = payRem
    BY <1>6 DEF DueDateArrives, PaymentInv
  <2> QED  BY <1>1, <1>2, <1>3, <2>1 DEF PaymentInv, RemindersMatchDebts, Unpaid
<1> QED  BY <1>4, <1>5, <1>6

-----------------------------------------------------------------------------
(* The passes.                                                               *)

LEMMA SectionsInOrder ==
  /\ DOMAIN Sections = 1..5
  /\ \A i \in 1..5 : Sections[i] \in SectionNames
  /\ SectionNames = {"documents", "payments", "legal-stay", "custom", "fingerprints"}
  /\ "idle" \notin SectionNames
<1>1. DOMAIN Sections = 1..5 /\ Len(Sections) = 5
  BY DEF Sections
<1>2. /\ Sections[1] = "documents" /\ Sections[2] = "payments" /\ Sections[3] = "legal-stay"
      /\ Sections[4] = "custom" /\ Sections[5] = "fingerprints"
  BY DEF Sections
<1> HIDE DEF Sections
<1>3. 1..5 = {1, 2, 3, 4, 5}
  OBVIOUS
<1>4. SectionNames = {"documents", "payments", "legal-stay", "custom", "fingerprints"}
  BY <1>1, <1>2, <1>3 DEF SectionNames
<1> QED  BY <1>1, <1>2, <1>3, <1>4

LEMMA StartIsPlace ==
  ASSUME NEW i \in Nat, NEW only
  PROVE  Start(i, only) \in SectionNames \union {"idle"}
<1>1. ASSUME NEW j \in Later(i, only)
      PROVE  \E m \in Later(i, only) : \A k \in Later(i, only) : m <= k
  <2> DEFINE L == Later(i, only)
  <2>1. L \subseteq 1..5
    BY SectionsInOrder DEF Later
  <2>2. 1..5 = {1, 2, 3, 4, 5}
    OBVIOUS
  <2> HIDE DEF L
  <2>3. j \in L
    BY <1>1 DEF L
  <2>4. \E m \in L : \A k \in L : m <= k
    BY <2>1, <2>2, <2>3
  <2> QED  BY <2>4 DEF L
<1>2. CASE Later(i, only) = {}
  BY <1>2 DEF Start
<1>3. CASE Later(i, only) # {}
  <2> DEFINE m == CHOOSE j \in Later(i, only) : \A k \in Later(i, only) : j <= k
  <2>1. m \in Later(i, only)
    BY <1>1, <1>3
  <2>2. m \in 1..5
    BY <2>1, SectionsInOrder DEF Later
  <2> QED  BY <1>3, <2>2, SectionsInOrder DEF Start
<1> QED  BY <1>2, <1>3

LEMMA PositionIsNumber == ASSUME NEW at \in SectionNames PROVE Position(at) \in Nat
<1>1. \E i \in DOMAIN Sections : Sections[i] = at
  BY DEF SectionNames
<1>2. Position(at) \in DOMAIN Sections
  BY <1>1 DEF Position
<1> QED  BY <1>2, SectionsInOrder

(* A pass that goes on, or ends, is about to write nothing.                  *)
Lets(p) == \E r \in PassRecord : ~r.saw /\ pass' = [pass EXCEPT ![p] = r]

LEMMA IdleIsRecord == Idle \in PassRecord /\ ~Idle.saw
  BY DEF Idle, PassRecord

LEMMA GoesOnLets ==
  ASSUME PassesInv, NEW p \in Passes, pass[p].at \in SectionNames, GoesOn(p) \/ Ends(p)
  PROVE  Lets(p)
<1>1. CASE Ends(p)
  BY <1>1, IdleIsRecord DEF Ends, Lets
<1>2. CASE GoesOn(p)
  <2> DEFINE next == Start(Position(pass[p].at), pass[p].only)
             r == [pass[p] EXCEPT !.at = next, !.saw = FALSE]
  <2>1. next \in SectionNames \union {"idle"}
    BY PositionIsNumber, StartIsPlace
  <2>2. pass[p] \in PassRecord
    BY DEF PassesInv
  <2> HIDE DEF next
  <2>3. r \in PassRecord /\ ~r.saw
    BY <2>1, <2>2 DEF PassRecord
  <2>4. CASE next = "idle"
    BY <1>2, <1>1, <2>4 DEF GoesOn, next
  <2>5. CASE next # "idle"
    <3>1. pass' = [pass EXCEPT ![p].at = next, ![p].saw = FALSE]
      BY <1>2, <2>5 DEF GoesOn, next
    <3>2. pass' = [pass EXCEPT ![p] = r]
      BY <3>1 DEF PassesInv
    <3> QED  BY <2>3, <3>2 DEF Lets
  <2> QED  BY <2>4, <2>5
<1> QED  BY <1>1, <1>2

LEMMA LetsWriters ==
  ASSUME PassesInv, NEW p \in Passes, Lets(p)
  PROVE  PassesInv' /\ \A section : Writers(section)' = Writers(section) \ {p}
<1>1. PICK r \in PassRecord : ~r.saw /\ pass' = [pass EXCEPT ![p] = r]
  BY DEF Lets
<1>2. PassesInv' /\ pass'[p] = r /\ \A q \in Passes : q # p => pass'[q] = pass[q]
  BY <1>1 DEF PassesInv
<1> QED  BY <1>1, <1>2 DEF Writers, Writing

LEMMA FindsWriters ==
  ASSUME PassesInv, NEW p \in Passes, NEW section, Reading(p, section), Finds(p)
  PROVE  /\ PassesInv'
         /\ Writers(section)' = Writers(section) \union {p}
         /\ \A other : other # section => Writers(other)' = Writers(other)
<1> DEFINE r == [pass[p] EXCEPT !.saw = TRUE]
<1>1. pass[p] \in PassRecord
  BY DEF PassesInv
<1>2. r \in PassRecord /\ r.saw /\ r.at = pass[p].at
  BY <1>1 DEF PassRecord
<1>3. pass' = [pass EXCEPT ![p] = r]
  BY DEF Finds, PassesInv
<1> HIDE DEF r
<1>4. PassesInv' /\ pass'[p] = r /\ \A q \in Passes : q # p => pass'[q] = pass[q]
  BY <1>2, <1>3 DEF PassesInv
<1> QED  BY <1>2, <1>4 DEF Writers, Writing, Reading

LEMMA WritersCount ==
  ASSUME NEW section
  PROVE  /\ IsFiniteSet(Writers(section)) /\ Cardinality(Writers(section)) \in Nat
         /\ Cardinality(Writers(section)) <= Cardinality(Passes)
         /\ Cardinality(Passes) \in Nat \ {0}
<1>1. Writers(section) \subseteq Passes
  BY DEF Writers
<1>2. IsFiniteSet(Passes) /\ Passes # {}
  BY RemindersAssumption
<1>3. IsFiniteSet(Writers(section)) /\ Cardinality(Writers(section)) <= Cardinality(Passes)
  BY <1>1, <1>2, FS_Subset
<1> QED  BY <1>2, <1>3, FS_CardinalityType, FS_EmptySet

(* A pass that stops writing leaves one writer less, or as many.             *)
LEMMA OneWriterLess ==
  ASSUME NEW section, NEW p
  PROVE  /\ Cardinality(Writers(section) \ {p}) \in Nat
         /\ Cardinality(Writers(section) \ {p}) <= Cardinality(Writers(section))
         /\ p \in Writers(section) => Cardinality(Writers(section) \ {p}) + 1 = Cardinality(Writers(section))
<1>1. IsFiniteSet(Writers(section)) /\ Cardinality(Writers(section)) \in Nat
  BY WritersCount
<1>2. CASE p \in Writers(section)
  <2>1. Cardinality(Writers(section) \ {p}) = Cardinality(Writers(section)) - 1 /\ Cardinality(Writers(section)) # 0
    BY <1>1, <1>2, FS_RemoveElement, FS_EmptySet
  <2> QED  BY <1>1, <2>1
<1>3. CASE p \notin Writers(section)
  <2>1. Writers(section) \ {p} = Writers(section)
    BY <1>3
  <2>2. Cardinality(Writers(section) \ {p}) = Cardinality(Writers(section))
    BY <2>1
  <2> HIDE DEF Writers
  <2> QED  BY <1>1, <1>3, <2>2
<1> QED  BY <1>2, <1>3

LEMMA WritersShrink ==
  ASSUME NEW section, NEW p, NEW V \in {Writers(section), Writers(section) \ {p}}
  PROVE  /\ Cardinality(V) \in Nat /\ Cardinality(Writers(section)) \in Nat
         /\ Cardinality(V) <= Cardinality(Writers(section))
<1>1. CASE V = Writers(section)
  BY <1>1, WritersCount
<1>2. CASE V = Writers(section) \ {p}
  BY <1>2, WritersCount, OneWriterLess
<1> QED  BY <1>1, <1>2

LEMMA SameWriters ==
  ASSUME UNCHANGED pass
  PROVE  \A section : Writers(section)' = Writers(section)
  BY DEF Writers, Writing

-----------------------------------------------------------------------------
(* The legal stay.                                                           *)

LEMMA SumsShrink ==
  ASSUME NEW a \in Nat, NEW b \in Nat, NEW c \in Nat, NEW d \in Nat, NEW e \in Nat, a <= c, b <= d, c + d <= e
  PROVE  a + b <= e /\ (c + d <= 1 => a + b <= 1)
  OBVIOUS

LEMMA StayInvFollows ==
  ASSUME StayInv, stay' \in BOOLEAN, overlapped' \in BOOLEAN, overlapped => overlapped',
         stayRows' \in Nat, stayRows' <= stayRows, NEW p,
         Writers("legal-stay")' \in {Writers("legal-stay"), Writers("legal-stay") \ {p}}
  PROVE  StayInv'
<1> DEFINE n == Cardinality(Writers("legal-stay"))
           m == Cardinality(Writers("legal-stay")')
<1>1. m \in Nat /\ n \in Nat /\ m <= n
  BY WritersShrink
<1>2. Cardinality(Passes) \in Nat /\ Cardinality(Passes)' = Cardinality(Passes) /\ Cardinality(Writers("legal-stay"))' = m
  BY WritersCount
<1>3. stayRows + n <= Cardinality(Passes) /\ (overlapped \/ stayRows + n <= 1) /\ stayRows \in Nat
  BY DEF StayInv
<1> HIDE DEF n, m
<1>4. stayRows' + m <= Cardinality(Passes) /\ (stayRows + n <= 1 => stayRows' + m <= 1)
  <2>1. Cardinality(Passes) \in Nat /\ stayRows + n <= Cardinality(Passes) /\ stayRows \in Nat
    BY <1>2, <1>3
  <2>2. stayRows' \in Nat /\ stayRows' <= stayRows
    OBVIOUS
  <2> QED  BY <1>1, <2>1, <2>2, SumsShrink
<1>5. overlapped' \/ stayRows' + m <= 1
  BY <1>3, <1>4
<1> QED  BY <1>2, <1>4, <1>5 DEF StayInv

LEMMA FindLegalStaysKeeps ==
  ASSUME PassesInv, StayInv, NEW p \in Passes, FindLegalStays(p)
  PROVE  PassesInv' /\ StayInv'
<1>1. Reading(p, "legal-stay") /\ pass[p].at \in SectionNames
  BY SectionsInOrder DEF FindLegalStays, Reading
<1>2. UNCHANGED <<stay, stayRows>> /\ overlapped' = (overlapped \/ SomeoneElseWrites(p, "legal-stay"))
  BY DEF FindLegalStays, fileVars
<1>3. Lets(p) \/ (Finds(p) /\ stayRows = 0)
  BY <1>1, GoesOnLets DEF FindLegalStays, Aborts
<1>4. CASE Lets(p)
  BY <1>2, <1>4, LetsWriters, StayInvFollows DEF StayInv, SomeoneElseWrites
<1>5. CASE Finds(p) /\ stayRows = 0
  <2> DEFINE W == Writers("legal-stay")
  <2>1. PassesInv' /\ W' = W \union {p}
    BY <1>1, <1>5, FindsWriters
  <2>2. Cardinality(W') \in Nat /\ Cardinality(W') <= Cardinality(Passes) /\ Cardinality(Passes) \in Nat
    <3>1. W' \subseteq Passes /\ IsFiniteSet(Passes)
      BY <2>1, RemindersAssumption DEF Writers
    <3> QED  BY <3>1, FS_Subset, FS_CardinalityType
  <2>3. overlapped' \/ W' = {p}
    BY <1>2, <2>1 DEF SomeoneElseWrites, Writers
  <2>4. overlapped' \/ Cardinality(W') = 1
    BY <2>3, FS_Singleton
  <2>5. stayRows' = 0 /\ stayRows' \in Nat /\ stay' \in BOOLEAN /\ overlapped' \in BOOLEAN
    BY <1>2, <1>5 DEF StayInv, SomeoneElseWrites
  <2>6. Cardinality(Writers("legal-stay"))' = Cardinality(W') /\ Cardinality(Passes)' = Cardinality(Passes)
    OBVIOUS
  <2> HIDE DEF W
  <2>7. stayRows' + Cardinality(W') <= Cardinality(Passes) /\ (overlapped' \/ stayRows' + Cardinality(W') <= 1)
    BY <2>2, <2>4, <2>5
  <2> QED  BY <2>1, <2>5, <2>6, <2>7 DEF StayInv
<1> QED  BY <1>3, <1>4, <1>5

LEMMA RemindOfLegalStayKeeps ==
  ASSUME PassesInv, StayInv, NEW p \in Passes, RemindOfLegalStay(p)
  PROVE  PassesInv' /\ StayInv'
<1> DEFINE W == Writers("legal-stay")
<1>1. p \in W /\ pass[p].at \in SectionNames
  BY SectionsInOrder DEF RemindOfLegalStay, Writing, Writers
<1>2. PassesInv' /\ W' = W \ {p}
  BY <1>1, GoesOnLets, LetsWriters DEF RemindOfLegalStay
<1>3. UNCHANGED <<stay, overlapped>> /\ stayRows' = stayRows + 1
  BY DEF RemindOfLegalStay
<1>4. Cardinality(W \ {p}) \in Nat /\ Cardinality(W \ {p}) + 1 = Cardinality(W) /\ Cardinality(Passes) \in Nat
  BY <1>1, OneWriterLess, WritersCount
<1>5. Cardinality(W)' = Cardinality(W \ {p})
  BY <1>2
<1>6. /\ stayRows + Cardinality(W) <= Cardinality(Passes) /\ stayRows \in Nat
      /\ overlapped \/ stayRows + Cardinality(W) <= 1
  BY DEF StayInv
<1> DEFINE n == Cardinality(W)
           m == Cardinality(W \ {p})
<1>7. n = m + 1 /\ m \in Nat
  BY <1>4
<1> HIDE DEF n, m
<1>8. stayRows' \in Nat /\ stayRows' + m = stayRows + n
  BY <1>3, <1>6, <1>7
<1>9. Cardinality(Passes)' = Cardinality(Passes)
  OBVIOUS
<1>10. /\ stayRows' + Cardinality(W)' <= Cardinality(Passes)
       /\ overlapped' \/ stayRows' + Cardinality(W)' <= 1
  BY <1>3, <1>5, <1>6, <1>8 DEF n, m
<1> QED  BY <1>2, <1>3, <1>8, <1>9, <1>10 DEF StayInv

-----------------------------------------------------------------------------
(* The requirement's reminders, counted in the same way.                     *)

LEMMA RequirementInvFollows ==
  ASSUME RequirementInv, req' \in {"none", "wanted", "answered"}, reqOn' \in BOOLEAN,
         req' = "none" => req = "none",
         reqRows' \in Nat, reqRows' <= reqRows, NEW p,
         Writers("custom")' \in {Writers("custom"), Writers("custom") \ {p}}
  PROVE  RequirementInv'
<1> DEFINE n == Cardinality(Writers("custom"))
           m == Cardinality(Writers("custom")')
<1>1. m \in Nat /\ n \in Nat /\ m <= n
  BY WritersShrink
<1>2. Cardinality(Passes) \in Nat /\ Cardinality(Passes)' = Cardinality(Passes) /\ Cardinality(Writers("custom"))' = m
  BY WritersCount
<1>3. reqRows + n <= Cardinality(Passes) /\ reqRows \in Nat
  BY DEF RequirementInv
<1>4. req' = "none" => reqRows' = 0 /\ Writers("custom")' = {}
  BY DEF RequirementInv
<1> HIDE DEF n, m
<1>5. reqRows' + m <= Cardinality(Passes)
  BY <1>1, <1>2, <1>3
<1> QED  BY <1>2, <1>4, <1>5 DEF RequirementInv

LEMMA RequirementChangesKeeps ==
  ASSUME PassesInv, RequirementInv, RequirementChanges
  PROVE  RequirementInv'
<1>1. UNCHANGED pass
  BY DEF RequirementChanges, passVars
<1>2. CASE req = "none" /\ req' = "wanted" /\ RequirementSynced(TRUE)
  <2>1. reqRows = 0 /\ Writers("custom") = {}
    BY <1>2 DEF RequirementInv
  <2>2. reqRows' = 1 /\ reqOn' \in BOOLEAN
    BY <1>2, <2>1 DEF RequirementSynced
  <2>3. Writers("custom")' = {}
    BY <1>1, <2>1, SameWriters
  <2>4. Cardinality(Writers("custom")') = 0 /\ Cardinality(Passes) \in Nat \ {0}
    BY <2>3, FS_EmptySet, WritersCount
  <2>5. reqRows' + Cardinality(Writers("custom")') <= Cardinality(Passes)
    BY <2>2, <2>4
  <2> QED  BY <1>2, <2>2, <2>5 DEF RequirementInv
<1>3. CASE req = "wanted" /\ req' = "answered" /\ RequirementSynced(FALSE)
  <2>1. reqRows' = reqRows /\ reqOn' = FALSE
    BY <1>3 DEF RequirementSynced
  <2>2. Writers("custom")' = Writers("custom")
    BY <1>1, SameWriters
  <2>3. reqRows' \in Nat /\ reqRows' <= reqRows
    BY <2>1 DEF RequirementInv
  <2> QED  BY <1>3, <2>1, <2>2, <2>3, RequirementInvFollows
<1> QED  BY <1>2, <1>3 DEF RequirementChanges

LEMMA SyncRequirementsKeeps ==
  ASSUME PassesInv, RequirementInv, NEW p \in Passes, SyncRequirements(p)
  PROVE  PassesInv' /\ RequirementInv'
<1>1. Reading(p, "custom") /\ pass[p].at \in SectionNames
  BY SectionsInOrder DEF SyncRequirements, Reading
<1>2. UNCHANGED <<req, reqRows>> /\ reqOn' \in BOOLEAN
  BY DEF SyncRequirements, RequirementInv
<1>3. Lets(p) \/ (Finds(p) /\ reqRows = 0 /\ req = "wanted")
  BY <1>1, GoesOnLets DEF SyncRequirements, Aborts
<1>4. CASE Lets(p)
  <2>1. PassesInv' /\ Writers("custom")' = Writers("custom") \ {p}
    BY <1>4, LetsWriters
  <2>2. reqRows' \in Nat /\ reqRows' <= reqRows
    BY <1>2 DEF RequirementInv
  <2>3. req' = req /\ req \in {"none", "wanted", "answered"}
    BY <1>2 DEF RequirementInv
  <2> QED  BY <1>2, <2>1, <2>2, <2>3, RequirementInvFollows
<1>5. CASE Finds(p) /\ reqRows = 0 /\ req = "wanted"
  <2> DEFINE W == Writers("custom")
  <2>1. PassesInv' /\ W' = W \union {p}
    BY <1>1, <1>5, FindsWriters
  <2>2. Cardinality(W') \in Nat /\ Cardinality(W') <= Cardinality(Passes) /\ Cardinality(Passes) \in Nat
    <3>1. W' \subseteq Passes /\ IsFiniteSet(Passes)
      BY <2>1, RemindersAssumption DEF Writers
    <3> QED  BY <3>1, FS_Subset, FS_CardinalityType
  <2>3. reqRows' = 0 /\ reqRows' \in Nat /\ req' = "wanted"
    BY <1>2, <1>5
  <2> HIDE DEF W
  <2>4. reqRows' + Cardinality(W') <= Cardinality(Passes)
    BY <2>2, <2>3
  <2> QED  BY <1>2, <2>1, <2>3, <2>4 DEF RequirementInv, W
<1> QED  BY <1>3, <1>4, <1>5

LEMMA RemindOfRequirementKeeps ==
  ASSUME PassesInv, RequirementInv, NEW p \in Passes, RemindOfRequirement(p)
  PROVE  PassesInv' /\ RequirementInv'
<1> DEFINE W == Writers("custom")
<1>1. p \in W /\ pass[p].at \in SectionNames
  BY SectionsInOrder DEF RemindOfRequirement, Writing, Writers
<1>2. PassesInv' /\ W' = W \ {p}
  BY <1>1, GoesOnLets, LetsWriters DEF RemindOfRequirement
<1>3. UNCHANGED req /\ reqRows' = reqRows + 1 /\ reqOn' = TRUE
  BY DEF RemindOfRequirement
<1>4. Cardinality(W \ {p}) \in Nat /\ Cardinality(W \ {p}) + 1 = Cardinality(W) /\ Cardinality(Passes) \in Nat
  BY <1>1, OneWriterLess, WritersCount
<1>5. Cardinality(W') = Cardinality(W \ {p})
  BY <1>2
<1>6. req # "none" /\ reqRows + Cardinality(W) <= Cardinality(Passes) /\ reqRows \in Nat
  BY <1>1 DEF RequirementInv
<1> DEFINE n == Cardinality(W)
           m == Cardinality(W \ {p})
<1>7. n = m + 1 /\ m \in Nat
  BY <1>4
<1> HIDE DEF n, m
<1>8. reqRows' \in Nat /\ reqRows' + m = reqRows + n
  BY <1>3, <1>6, <1>7
<1>9. reqRows' + Cardinality(W') <= Cardinality(Passes)
  BY <1>5, <1>6, <1>8 DEF n, m
<1> QED  BY <1>2, <1>3, <1>6, <1>8, <1>9 DEF RequirementInv

-----------------------------------------------------------------------------
(* Steps that leave a part of the file alone.                                *)

LEMMA StayStays ==
  ASSUME StayInv, UNCHANGED <<stay, stayRows, overlapped>>, NEW p,
         Writers("legal-stay")' \in {Writers("legal-stay"), Writers("legal-stay") \ {p}}
  PROVE  StayInv'
<1>1. stayRows' \in Nat /\ stayRows' <= stayRows
  BY DEF StayInv
<1> QED  BY <1>1, StayInvFollows DEF StayInv

LEMMA RequirementStays ==
  ASSUME RequirementInv, UNCHANGED <<req, reqRows, reqOn>>, NEW p,
         Writers("custom")' \in {Writers("custom"), Writers("custom") \ {p}}
  PROVE  RequirementInv'
<1>1. reqRows' \in Nat /\ reqRows' <= reqRows
  BY DEF RequirementInv
<1>2. req' = req /\ req \in {"none", "wanted", "answered"} /\ reqOn' \in BOOLEAN
  BY DEF RequirementInv
<1> QED  BY <1>1, <1>2, RequirementInvFollows

LEMMA PaymentStays ==
  ASSUME PaymentInv, UNCHANGED <<pay, payRem, raced>>
  PROVE  PaymentInv'
  BY DEF PaymentInv, RemindersMatchDebts

LEMMA RestStays ==
  ASSUME RestInv, docRem' \in RemStates, doc' \in {"far", "near", "archived"},
         {waiting', task', manyCases', misled'} \subseteq BOOLEAN, Edit \/ UNCHANGED edits
  PROVE  RestInv'
<1>1. edits' \in 0..MaxEdits
  BY RemindersAssumption DEF RestInv, Edit
<1> QED  BY <1>1 DEF RestInv

LEMMA PaymentsKeep ==
  ASSUME RemindersInv,
         \/ \E f \in Offered : AddPayment(f) \/ EditPayment(f) \/ AdminSavesPayment(f)
         \/ DeletePayment \/ RestorePayment \/ DueDateArrives
  PROVE  RemindersInv'
<1>1. PaymentInv'
  BY FormsKeepPayment, PaymentStaysKept DEF RemindersInv
<1>2. OnlyPayments /\ Edit /\ misled' \in BOOLEAN
  BY DEF AddPayment, EditPayment, AdminSavesPayment, DeletePayment, RestorePayment, DueDateArrives
<1>3. PassesInv' /\ \A section : Writers(section)' = Writers(section)
  BY <1>2, SameWriters DEF OnlyPayments, passVars, RemindersInv, PassesInv
<1>4. StayInv'
  BY <1>2, <1>3, StayStays DEF OnlyPayments, passVars, RemindersInv
<1>5. RequirementInv'
  BY <1>2, <1>3, RequirementStays DEF OnlyPayments, RemindersInv
<1>6. RestInv'
  BY <1>2, RestStays DEF OnlyPayments, RemindersInv, RestInv
<1> QED  BY <1>1, <1>3, <1>4, <1>5, <1>6 DEF RemindersInv

LEMMA FileKeeps ==
  ASSUME RemindersInv,
         DocumentChanges \/ CaseIsSubmitted \/ DecisionArrives \/ RequirementChanges
  PROVE  RemindersInv'
<1>1. UNCHANGED <<pay, payRem, pass, raced, overlapped, manyCases, misled, docRem, stayRows, task>> /\ Edit
  BY DEF DocumentChanges, CaseIsSubmitted, DecisionArrives, RequirementChanges, passVars
<1>2. PaymentInv'
  BY <1>1, PaymentStays DEF RemindersInv
<1>3. PassesInv' /\ \A section : Writers(section)' = Writers(section)
  BY <1>1, SameWriters DEF RemindersInv, PassesInv
<1>4. stay' \in BOOLEAN
  BY DEF DocumentChanges, CaseIsSubmitted, DecisionArrives, RequirementChanges, RemindersInv, StayInv
<1>10. stayRows' \in Nat /\ stayRows' <= stayRows
  BY <1>1 DEF RemindersInv, StayInv
<1>5. StayInv'
  BY <1>1, <1>3, <1>4, <1>10, StayInvFollows DEF RemindersInv, StayInv
<1>6. UNCHANGED <<req, reqRows, reqOn>> \/ RequirementChanges
  BY DEF DocumentChanges, CaseIsSubmitted, DecisionArrives
<1>7. RequirementInv'
  BY <1>3, <1>6, RequirementStays, RequirementChangesKeeps DEF RemindersInv
<1>8. doc' \in {"far", "near", "archived"} /\ waiting' \in BOOLEAN
  BY DEF DocumentChanges, CaseIsSubmitted, DecisionArrives, RequirementChanges, RemindersInv, RestInv
<1>9. RestInv'
  BY <1>1, <1>8, RestStays DEF RemindersInv, RestInv
<1> QED  BY <1>2, <1>3, <1>5, <1>7, <1>9 DEF RemindersInv

LEMMA DismissalsKeep == ASSUME RemindersInv, StaffDismisses PROVE RemindersInv'
<1>1. UNCHANGED <<pay, doc, stay, req, waiting, task, pass, raced, overlapped, manyCases, misled>> /\ Edit
  BY DEF StaffDismisses, passVars
<1>2. /\ payRem' \in RemStates /\ (payRem' = "active" => payRem = "active")
      /\ docRem' \in RemStates
  BY DEF StaffDismisses, RemindersInv, PaymentInv, RestInv, RemStates
<1>3. /\ stayRows' \in Nat /\ stayRows' <= stayRows
      /\ reqRows' \in Nat /\ reqRows' <= reqRows
  BY DEF StaffDismisses, RemindersInv, StayInv, RequirementInv
<1>4. reqOn' \in BOOLEAN
  BY DEF StaffDismisses, RemindersInv, RequirementInv
<1>5. PaymentInv'
  BY <1>1, <1>2 DEF RemindersInv, PaymentInv, RemindersMatchDebts
<1>6. PassesInv' /\ \A section : Writers(section)' = Writers(section)
  BY <1>1, SameWriters DEF RemindersInv, PassesInv
<1>7. StayInv'
  BY <1>1, <1>3, <1>6, StayInvFollows DEF RemindersInv, StayInv
<1>8. RequirementInv'
  BY <1>1, <1>3, <1>4, <1>6, RequirementInvFollows DEF RemindersInv, RequirementInv
<1>9. RestInv'
  BY <1>1, <1>2, RestStays DEF RemindersInv, RestInv
<1> QED  BY <1>5, <1>6, <1>7, <1>8, <1>9 DEF RemindersInv

LEMMA StartsAndCrashesKeep ==
  ASSUME RemindersInv, NEW p \in Passes, PassCrashes(p) \/ \E only \in Scopes : StartPass(p, only)
  PROVE  RemindersInv'
<1>1. UNCHANGED <<fileVars, raced, overlapped, manyCases, misled>> /\ (Edit \/ UNCHANGED edits)
  BY DEF PassCrashes, StartPass
<1>2. Lets(p)
  <2>1. CASE PassCrashes(p)
    BY <2>1, IdleIsRecord DEF PassCrashes, Lets
  <2>2. ASSUME NEW only \in Scopes, StartPass(p, only) PROVE Lets(p)
    <3> DEFINE r == [at |-> Start(0, only), saw |-> FALSE, only |-> only]
    <3>1. r \in PassRecord /\ ~r.saw
      BY StartIsPlace DEF PassRecord
    <3> QED  BY <2>2, <3>1 DEF StartPass, Lets
  <2> QED  BY <2>1, <2>2
<1>3. PassesInv' /\ \A section : Writers(section)' = Writers(section) \ {p}
  BY <1>2, LetsWriters DEF RemindersInv
<1>4. PaymentInv'
  BY <1>1, PaymentStays DEF RemindersInv, fileVars
<1>5. StayInv'
  BY <1>1, <1>3, StayStays DEF RemindersInv, fileVars
<1>6. RequirementInv'
  BY <1>1, <1>3, RequirementStays DEF RemindersInv, fileVars
<1>7. RestInv'
  BY <1>1, RestStays DEF RemindersInv, RestInv, fileVars
<1> QED  BY <1>3, <1>4, <1>5, <1>6, <1>7 DEF RemindersInv

(* The sections of documents, payments and follow-ups write no row that is   *)
(* counted.                                                                  *)
LEMMA OtherSectionsKeep ==
  ASSUME RemindersInv, NEW p \in Passes,
         FindDocuments(p) \/ RemindOfDocuments(p) \/ FindPayments(p) \/ RemindOfPayments(p) \/ FollowUpFingerprints(p)
  PROVE  RemindersInv'
<1>1. UNCHANGED <<pay, doc, stay, stayRows, req, reqRows, reqOn, waiting, overlapped, manyCases, edits, misled>>
  BY DEF FindDocuments, RemindOfDocuments, FindPayments, RemindOfPayments, FollowUpFingerprints, fileVars, Unedited
<1>2. pass[p].at \in SectionNames
  BY SectionsInOrder DEF FindDocuments, RemindOfDocuments, FindPayments, RemindOfPayments, FollowUpFingerprints, Reading, Writing
<1>3. Lets(p) \/ \E section \in {"documents", "payments"} : Reading(p, section) /\ Finds(p)
  BY <1>2, GoesOnLets
     DEF RemindersInv, FindDocuments, RemindOfDocuments, FindPayments, RemindOfPayments, FollowUpFingerprints, Aborts
<1>4. /\ PassesInv'
      /\ Writers("legal-stay")' \in {Writers("legal-stay"), Writers("legal-stay") \ {p}}
      /\ Writers("custom")' \in {Writers("custom"), Writers("custom") \ {p}}
  BY <1>3, LetsWriters, FindsWriters DEF RemindersInv
<1>5. StayInv' /\ RequirementInv'
  BY <1>1, <1>4, StayStays, RequirementStays DEF RemindersInv
<1>6. PaymentInv'
  <2>1. CASE RemindOfPayments(p)
    <3>1. UNCHANGED pay /\ payRem' = "active" /\ raced' = (raced \/ ~Owed(pay))
      BY <2>1 DEF RemindOfPayments
    <3>2. raced' \in BOOLEAN /\ (Unpaid(pay)' \/ raced')
      BY <3>1 DEF RemindersInv, PaymentInv, Owed, Unpaid
    <3>3. pay' = pay /\ (pay.there => Storable(FormOf(pay)))
      BY <3>1 DEF RemindersInv, PaymentInv
    <3> QED  BY <3>1, <3>2, <3>3 DEF RemindersInv, PaymentInv, RemindersMatchDebts, RemStates
  <2>2. CASE UNCHANGED <<pay, payRem, raced>>
    BY <2>2, PaymentStays DEF RemindersInv
  <2> QED  BY <2>1, <2>2 DEF FindDocuments, RemindOfDocuments, FindPayments, FollowUpFingerprints, fileVars
<1>7. docRem' \in RemStates /\ task' \in BOOLEAN
  BY DEF FindDocuments, RemindOfDocuments, FindPayments, RemindOfPayments, FollowUpFingerprints, fileVars,
         RemindersInv, RestInv, RemStates
<1>8. RestInv'
  BY <1>1, <1>7, RestStays DEF RemindersInv, RestInv
<1> QED  BY <1>4, <1>5, <1>6, <1>8 DEF RemindersInv

LEMMA StaySectionKeeps ==
  ASSUME RemindersInv, NEW p \in Passes, FindLegalStays(p) \/ RemindOfLegalStay(p)
  PROVE  RemindersInv'
<1>1. UNCHANGED <<pay, payRem, doc, docRem, req, reqRows, reqOn, waiting, task, raced, manyCases, edits, misled>>
  BY DEF FindLegalStays, RemindOfLegalStay, fileVars, Unedited
<1>2. PassesInv' /\ StayInv'
  BY FindLegalStaysKeeps, RemindOfLegalStayKeeps DEF RemindersInv
<1>3. pass[p].at \in SectionNames
  BY SectionsInOrder DEF FindLegalStays, RemindOfLegalStay, Reading, Writing
<1>4. Lets(p) \/ (Reading(p, "legal-stay") /\ Finds(p))
  BY <1>3, GoesOnLets DEF RemindersInv, FindLegalStays, RemindOfLegalStay, Aborts
<1>5. Writers("custom")' \in {Writers("custom"), Writers("custom") \ {p}}
  BY <1>4, LetsWriters, FindsWriters DEF RemindersInv
<1>6. PaymentInv' /\ RequirementInv' /\ RestInv'
  BY <1>1, <1>5, PaymentStays, RequirementStays, RestStays DEF RemindersInv, RestInv
<1> QED  BY <1>2, <1>6 DEF RemindersInv

LEMMA CustomSectionKeeps ==
  ASSUME RemindersInv, NEW p \in Passes, SyncRequirements(p) \/ RemindOfRequirement(p)
  PROVE  RemindersInv'
<1>1. UNCHANGED <<pay, payRem, doc, docRem, stay, stayRows, waiting, task, raced, overlapped, manyCases, edits, misled>>
  BY DEF SyncRequirements, RemindOfRequirement, Unedited
<1>2. PassesInv' /\ RequirementInv'
  BY SyncRequirementsKeeps, RemindOfRequirementKeeps DEF RemindersInv
<1>3. pass[p].at \in SectionNames
  BY SectionsInOrder DEF SyncRequirements, RemindOfRequirement, Reading, Writing
<1>4. Lets(p) \/ (Reading(p, "custom") /\ Finds(p))
  BY <1>3, GoesOnLets DEF RemindersInv, SyncRequirements, RemindOfRequirement, Aborts
<1>5. Writers("legal-stay")' \in {Writers("legal-stay"), Writers("legal-stay") \ {p}}
  BY <1>4, LetsWriters, FindsWriters DEF RemindersInv
<1>6. PaymentInv' /\ StayInv' /\ RestInv'
  BY <1>1, <1>5, PaymentStays, StayStays, RestStays DEF RemindersInv, RestInv
<1> QED  BY <1>2, <1>6 DEF RemindersInv

LEMMA RemindersInvHolds == RemindersSpec => []RemindersInv
<1>1. RemindersInit => RemindersInv
  <2> SUFFICES ASSUME RemindersInit PROVE RemindersInv
    OBVIOUS
  <2>1. PassesInv /\ \A section : Writers(section) = {}
    BY IdleIsRecord DEF RemindersInit, PassesInv, Writers, Writing
  <2>2. PaymentInv
    <3>1. Total \in Nat /\ pay = NoPayment /\ payRem = "none" /\ raced = FALSE
      BY RemindersAssumption DEF RemindersInit
    <3>2. NoPayment \in [there : BOOLEAN, archived : BOOLEAN, status : Statuses, paid : 0..Total, due : {"later", "now"}]
      BY <3>1 DEF NoPayment, Statuses
    <3> QED  BY <3>1, <3>2 DEF PaymentInv, NoPayment, RemStates, RemindersMatchDebts
  <2>3. Cardinality(Passes) \in Nat /\ \A section : Cardinality(Writers(section)) = 0
    BY <2>1, WritersCount, FS_EmptySet
  <2>4. StayInv
    <3>1. stay \in BOOLEAN /\ overlapped \in BOOLEAN /\ stayRows = 0
      BY DEF RemindersInit
    <3> QED  BY <2>3, <3>1 DEF StayInv
  <2>5. RequirementInv
    <3>1. req = "none" /\ reqOn \in BOOLEAN /\ reqRows = 0
      BY DEF RemindersInit
    <3> QED  BY <2>1, <2>3, <3>1 DEF RequirementInv
  <2>6. RestInv
    <3>1. edits = 0 /\ MaxEdits \in Nat
      BY RemindersAssumption DEF RemindersInit
    <3>2. edits \in 0..MaxEdits
      BY <3>1
    <3>3. docRem \in RemStates /\ doc \in {"far", "near", "archived"} /\ {waiting, task, manyCases, misled} \subseteq BOOLEAN
      BY DEF RemindersInit, RemStates
    <3> QED  BY <3>2, <3>3 DEF RestInv
  <2> QED  BY <2>1, <2>2, <2>4, <2>5, <2>6 DEF RemindersInv
<1>2. RemindersInv /\ [RemindersNext]_remindersVars => RemindersInv'
  <2>1. ASSUME RemindersInv, UNCHANGED remindersVars PROVE RemindersInv'
    <3>1. UNCHANGED <<pay, payRem, doc, docRem, stay, stayRows, req, reqRows, reqOn, waiting, task, pass, raced, overlapped, manyCases, edits, misled>>
      BY <2>1 DEF remindersVars, fileVars, passVars
    <3>2. PassesInv' /\ \A section : Writers(section)' = Writers(section)
      BY <2>1, <3>1, SameWriters DEF RemindersInv, PassesInv
    <3> QED  BY <2>1, <3>1, <3>2, PaymentStays, StayStays, RequirementStays, RestStays DEF RemindersInv, RestInv
  <2> QED  BY <2>1, PaymentsKeep, FileKeeps, DismissalsKeep, StartsAndCrashesKeep, OtherSectionsKeep,
              StaySectionKeeps, CustomSectionKeeps DEF RemindersNext, PassStep
<1> QED  BY <1>1, <1>2, PTL DEF RemindersSpec

(* An active reminder of a payment always stands for a debt, for any number  *)
(* of passes, sections and changes of the payment, unless a pass had decided *)
(* to write it before the debt was settled (clients/signals.py,              *)
(* update_reminders.py, the archive hooks of models/payment.py).             *)
THEOREM SettledPaymentsAreLeftAlone == RemindersSpec => []RemindersMatchDebts
<1>1. RemindersInv => RemindersMatchDebts
  BY DEF RemindersInv, PaymentInv
<1> QED  BY <1>1, RemindersInvHolds, PTL

(* A case has one active legal-stay reminder at most unless two passes       *)
(* looked for it at once: every pass that is about to write one is counted   *)
(* with the rows (update_reminders.py:373).                                  *)
THEOREM StayIsRemindedOnce == RemindersSpec => []OneLegalStayReminder
<1>1. RemindersInv => OneLegalStayReminder
  <2> SUFFICES ASSUME RemindersInv PROVE OneLegalStayReminder
    OBVIOUS
  <2>1. overlapped \/ stayRows + Cardinality(Writers("legal-stay")) <= 1
    BY DEF RemindersInv, StayInv
  <2>2. stayRows \in Nat /\ Cardinality(Writers("legal-stay")) \in Nat
    BY WritersCount DEF RemindersInv, StayInv
  <2>3. stayRows + Cardinality(Writers("legal-stay")) <= 1 => stayRows <= 1
    BY <2>2
  <2> QED  BY <2>1, <2>3 DEF OneLegalStayReminder
<1> QED  BY <1>1, RemindersInvHolds, PTL

(* The payment, its reminder, the rows of the legal stay and the passes have *)
(* their types in every behaviour.                                           *)
THEOREM RemindersHaveTheirTypes == RemindersSpec => []RemindersTypeOK
<1>1. RemindersInv => RemindersTypeOK
  <2> SUFFICES ASSUME RemindersInv PROVE RemindersTypeOK
    OBVIOUS
  <2>1. pay.there => Issues(FormOf(pay)) = {}
    BY StorableHasNoIssues DEF RemindersInv, PaymentInv
  <2>2. \A section : Cardinality(Writers(section)) \in Nat /\ Cardinality(Passes) \in Nat
    BY WritersCount
  <2>3. stayRows \in 0..Cardinality(Passes) /\ reqRows \in 0..Cardinality(Passes)
    BY <2>2 DEF RemindersInv, StayInv, RequirementInv
  <2>4. \A p \in Passes :
           /\ pass[p].at \in SectionNames \union {"idle"} /\ pass[p].only \in Scopes \union {{}}
           /\ pass[p].saw \in BOOLEAN
    BY DEF RemindersInv, PassesInv, PassRecord
  <2> QED  BY <2>1, <2>3, <2>4 DEF RemindersInv, PaymentInv, StayInv, RequirementInv, RestInv, RemindersTypeOK
<1> QED  BY <1>1, RemindersInvHolds, PTL

-----------------------------------------------------------------------------
(* The loops and their guards (AutomationLoop).                              *)

LoopRecord == [at : 1..Len(cycle) + 1, state : {"asleep", "between", "running", "dead"},
               failed : BOOLEAN, late : BOOLEAN, old : BOOLEAN]

LoopsInv ==
    /\ cycle \in Seq(Tasks) /\ cycle \in Cycles /\ lock \subseteq Tasks
    /\ loop \in [Loops -> LoopRecord]
    /\ \A l \in Loops : loop[l].state = "running" => loop[l].at <= Len(cycle)
    /\ blips \in 0..MaxBlips

(* Whoever runs in time holds the key, and of two in one task one is late.   *)
KeysInv ==
    /\ \A l \in Loops : loop[l].state = "running" /\ ~loop[l].late => Task(l) \in lock
    /\ \A l, k \in Loops : l # k /\ loop[l].state = "running" /\ loop[k].state = "running" /\ Task(l) = Task(k)
                              => loop[l].late \/ loop[k].late

(* A guard stands for the work it let through; without the cache one more    *)
(* pass can begin.                                                           *)
GuardsInv ==
    /\ slot \in 0..2 /\ {taken, weekly} \subseteq BOOLEAN
    /\ passes \in Nat /\ passes <= blips + 1 /\ (~taken => passes <= blips)
    /\ cleanups \in 0..1 /\ (~weekly => cleanups = 0)

BackupsInv ==
    /\ marked \in BOOLEAN /\ dump \in {"none", "old", "today"}
    /\ marked => dump = "today"
    /\ heartbeat \in {"none", "ok", "error"}

LoopInv == LoopsInv /\ KeysInv /\ GuardsInv /\ BackupsInv

-----------------------------------------------------------------------------
(* The loops and the keys.                                                   *)

LEMMA TaskIsTask ==
  ASSUME LoopsInv, NEW l \in Loops, loop[l].at <= Len(cycle)
  PROVE  loop[l].at \in 1..Len(cycle) /\ Task(l) \in Tasks
<1>1. loop[l] \in LoopRecord /\ Len(cycle) \in Nat
  BY DEF LoopsInv
<1>2. loop[l].at \in 1..Len(cycle)
  BY <1>1 DEF LoopRecord
<1> QED  BY <1>2 DEF LoopsInv, Task

(* One loop's record is replaced by one that does not run.                   *)
LEMMA RestingKeeps ==
  ASSUME LoopsInv, KeysInv, NEW l \in Loops, NEW r \in LoopRecord, r.state # "running",
         loop' = [loop EXCEPT ![l] = r], UNCHANGED <<cycle, lock>>, blips' \in 0..MaxBlips
  PROVE  LoopsInv' /\ KeysInv'
<1>1. loop' \in [Loops -> LoopRecord] /\ loop'[l] = r /\ \A k \in Loops : k # l => loop'[k] = loop[k]
  BY DEF LoopsInv
<1>2. LoopRecord' = LoopRecord
  BY DEF LoopRecord
<1>3. \A k \in Loops : k # l => Task(k)' = Task(k)
  BY <1>1 DEF Task
<1>4. \A k \in Loops : loop'[k].state = "running" => k # l
  BY <1>1
<1>5. LoopsInv'
  BY <1>1, <1>2, <1>4 DEF LoopsInv
<1>6. KeysInv'
  BY <1>1, <1>3, <1>4 DEF KeysInv
<1> QED  BY <1>5, <1>6

LEMMA TakesLockKeeps ==
  ASSUME LoopsInv, KeysInv, NEW l \in Loops, TakesLock(l)
  PROVE  LoopsInv' /\ KeysInv'
<1> DEFINE r == [loop[l] EXCEPT !.state = "running"]
<1>0. loop[l] \in LoopRecord
  BY DEF LoopsInv
<1>1. r \in LoopRecord /\ r.state = "running" /\ r.at = loop[l].at /\ r.late = loop[l].late
  BY <1>0 DEF LoopRecord
<1>2. loop' = [loop EXCEPT ![l] = r] /\ UNCHANGED <<cycle, blips>> /\ lock' = lock \union {Task(l)}
  BY DEF TakesLock, LoopsInv
<1> HIDE DEF r
<1>3. loop' \in [Loops -> LoopRecord] /\ loop'[l] = r /\ \A k \in Loops : k # l => loop'[k] = loop[k]
  BY <1>1, <1>2 DEF LoopsInv
<1>4. LoopRecord' = LoopRecord
  BY <1>2 DEF LoopRecord
<1>5. \A k \in Loops : Task(k)' = Task(k)
  BY <1>1, <1>2, <1>3 DEF Task
<1>6. loop[l].at <= Len(cycle) /\ Task(l) \in Tasks /\ Task(l) \notin lock
  BY TaskIsTask DEF TakesLock
<1>7. lock' \subseteq Tasks
  BY <1>2, <1>6 DEF LoopsInv
<1>8. \A k \in Loops : loop'[k].state = "running" => loop'[k].at <= Len(cycle')
  BY <1>1, <1>2, <1>3, <1>6 DEF LoopsInv
<1>9. LoopsInv'
  BY <1>2, <1>3, <1>4, <1>7, <1>8 DEF LoopsInv
<1>10. \A k \in Loops : k # l /\ loop[k].state = "running" /\ Task(k) = Task(l) => loop[k].late
  BY <1>6 DEF KeysInv
<1>11. ASSUME NEW k \in Loops, loop'[k].state = "running", ~loop'[k].late PROVE Task(k)' \in lock'
  BY <1>2, <1>3, <1>5, <1>11 DEF KeysInv
<1>12. ASSUME NEW j \in Loops, NEW k \in Loops, j # k, loop'[j].state = "running", loop'[k].state = "running",
              Task(j)' = Task(k)'
       PROVE  loop'[j].late \/ loop'[k].late
  <2>1. CASE j = l
    BY <1>3, <1>5, <1>10, <1>12, <2>1
  <2>2. CASE k = l
    BY <1>3, <1>5, <1>10, <1>12, <2>2
  <2>3. CASE j # l /\ k # l
    <3>1. loop'[j] = loop[j] /\ loop'[k] = loop[k]
      BY <1>3, <2>3
    <3> QED  BY <1>5, <1>12, <3>1 DEF KeysInv
  <2> QED  BY <2>1, <2>2, <2>3
<1>13. KeysInv'
  BY <1>11, <1>12 DEF KeysInv
<1> QED  BY <1>9, <1>13

(* The record of a loop after another has moved on.                          *)
LEMMA MovesOnRecords ==
  ASSUME LoopsInv, NEW l \in Loops, loop[l].at <= Len(cycle), NEW ok \in BOOLEAN, MovesOn(l, ok), UNCHANGED cycle
  PROVE  /\ loop' \in [Loops -> LoopRecord] /\ loop'[l].state = "between"
         /\ \A k \in Loops : k # l =>
               /\ loop'[k].at = loop[k].at /\ loop'[k].state = loop[k].state
               /\ Task(k)' = Task(k)
               /\ loop'[k].late = (loop[k].late \/ (loop[l].state = "running" /\ Running(k, Task(l))))
<1>1. loop[l] \in LoopRecord /\ Len(cycle) \in Nat /\ loop[l].at \in 1..Len(cycle)
  BY TaskIsTask DEF LoopsInv
<1> DEFINE failed == loop[l].failed \/ (~ok /\ Task(l) # "db-backup")
           r == [at |-> loop[l].at + 1, state |-> "between", late |-> FALSE, old |-> FALSE, failed |-> failed]
           late(k) == loop[k].late \/ (loop[l].state = "running" /\ Running(k, Task(l)))
           s(k) == [loop[k] EXCEPT !.late = late(k)]
<1>2. failed \in BOOLEAN
  BY <1>1 DEF LoopRecord
<1>3. \A k \in Loops : late(k) \in BOOLEAN
  BY DEF LoopsInv, LoopRecord, Running
<1>4. loop' = [k \in Loops |-> IF k = l THEN r ELSE s(k)]
  BY DEF MovesOn
<1> HIDE DEF failed, late
<1>5. r \in LoopRecord /\ r.state = "between"
  BY <1>1, <1>2 DEF LoopRecord
<1>6. \A k \in Loops : s(k) \in LoopRecord /\ s(k).at = loop[k].at /\ s(k).state = loop[k].state /\ s(k).late = late(k)
  BY <1>3 DEF LoopsInv, LoopRecord
<1> HIDE DEF r, s
<1>7. loop'[l] = r /\ \A k \in Loops : k # l => loop'[k] = s(k)
  BY <1>4
<1>8. loop' \in [Loops -> LoopRecord]
  BY <1>4, <1>5, <1>6
<1>9. \A k \in Loops : k # l => Task(k)' = Task(k)
  BY <1>6, <1>7 DEF Task
<1> QED  BY <1>5, <1>6, <1>7, <1>8, <1>9 DEF late

LEMMA MovesOnKeeps ==
  ASSUME LoopsInv, KeysInv, NEW l \in Loops, loop[l].at <= Len(cycle), NEW ok \in BOOLEAN, MovesOn(l, ok),
         UNCHANGED cycle, blips' \in 0..MaxBlips,
         \/ loop[l].state # "running" /\ UNCHANGED lock
         \/ loop[l].state = "running" /\ Releases(l)
  PROVE  LoopsInv' /\ KeysInv'
<1>1. LoopRecord' = LoopRecord
  BY DEF LoopRecord
<1>2. lock' \subseteq lock
  BY DEF Releases
<1>3. \A k \in Loops : loop'[k].state = "running" => k # l
  BY MovesOnRecords
<1>4. LoopsInv'
  BY <1>1, <1>2, <1>3, MovesOnRecords DEF LoopsInv
<1>5. \A k \in Loops : k # l => (loop[k].late => loop'[k].late)
  BY MovesOnRecords
<1>6. ASSUME NEW k \in Loops, loop'[k].state = "running", ~loop'[k].late PROVE Task(k)' \in lock'
  <2>1. k # l /\ loop[k].state = "running" /\ ~loop[k].late /\ Task(k)' = Task(k)
    BY <1>3, <1>5, <1>6, MovesOnRecords
  <2>2. Task(k) \in lock
    BY <2>1 DEF KeysInv
  <2>3. ~(loop[l].state = "running" /\ Running(k, Task(l)))
    BY <1>6, <2>1, MovesOnRecords
  <2> QED  BY <2>1, <2>2, <2>3 DEF Running, Releases
<1>7. ASSUME NEW j \in Loops, NEW k \in Loops, j # k, loop'[j].state = "running", loop'[k].state = "running",
             Task(j)' = Task(k)'
      PROVE  loop'[j].late \/ loop'[k].late
  <2>1. j # l /\ k # l
    BY <1>3, <1>7
  <2>2. loop[j].state = "running" /\ loop[k].state = "running" /\ Task(j) = Task(k)
    BY <1>7, <2>1, MovesOnRecords
  <2> QED  BY <1>5, <1>7, <2>1, <2>2 DEF KeysInv
<1>8. KeysInv'
  BY <1>6, <1>7 DEF KeysInv
<1> QED  BY <1>4, <1>8

LEMMA LockExpiresKeeps ==
  ASSUME LoopsInv, KeysInv, NEW t \in Tasks, LockExpires(t)
  PROVE  LoopsInv' /\ KeysInv'
<1> DEFINE s(k) == [loop[k] EXCEPT !.late = TRUE]
<1>1. \A k \in Loops : s(k) \in LoopRecord /\ s(k).at = loop[k].at /\ s(k).state = loop[k].state /\ s(k).late
  BY DEF LoopsInv, LoopRecord
<1>2. loop' = [k \in Loops |-> IF k \in Runs(t) THEN s(k) ELSE loop[k]] /\ UNCHANGED <<cycle, blips>> /\ lock' = lock \ {t}
  BY DEF LockExpires
<1> HIDE DEF s
<1>3. loop' \in [Loops -> LoopRecord]
  BY <1>1, <1>2 DEF LoopsInv
<1>4. \A k \in Loops : /\ loop'[k].at = loop[k].at /\ loop'[k].state = loop[k].state
                       /\ loop[k].late => loop'[k].late
                       /\ k \in Runs(t) => loop'[k].late
  BY <1>1, <1>2
<1>5. \A k \in Loops : Task(k)' = Task(k)
  BY <1>2, <1>4 DEF Task
<1>6. LoopRecord' = LoopRecord
  BY <1>2 DEF LoopRecord
<1>7. LoopsInv'
  BY <1>2, <1>3, <1>4, <1>6 DEF LoopsInv
<1>8. \A k \in Loops : loop'[k].state = "running" /\ ~loop'[k].late => Task(k)' \in lock'
  BY <1>2, <1>4, <1>5 DEF KeysInv, Runs, Running
<1>9. KeysInv'
  BY <1>4, <1>5, <1>8 DEF KeysInv
<1> QED  BY <1>7, <1>9

LEMMA RedeployedKeeps ==
  ASSUME LoopsInv, KeysInv, Redeployed
  PROVE  LoopsInv' /\ KeysInv'
<1>1. Asleep \in LoopRecord /\ Asleep.state # "running"
  BY DEF Asleep, LoopRecord, LoopsInv
<1>2. loop' = [k \in Loops |-> IF loop[k].state = "dead" THEN Asleep ELSE loop[k]] /\ UNCHANGED <<cycle, lock, blips>>
  BY DEF Redeployed
<1> HIDE DEF Asleep
<1>3. loop' \in [Loops -> LoopRecord] /\ \A k \in Loops : loop'[k] \in {Asleep, loop[k]}
  BY <1>1, <1>2 DEF LoopsInv
<1>4. \A k \in Loops : loop'[k].state = "running" => loop'[k] = loop[k]
  BY <1>1, <1>3
<1>5. \A k \in Loops : loop'[k].state = "running" => Task(k)' = Task(k)
  BY <1>2, <1>4 DEF Task
<1>6. LoopRecord' = LoopRecord
  BY <1>2 DEF LoopRecord
<1>7. LoopsInv'
  BY <1>2, <1>3, <1>4, <1>6 DEF LoopsInv
<1>8. KeysInv'
  BY <1>2, <1>4, <1>5 DEF KeysInv
<1> QED  BY <1>7, <1>8

LEMMA AsleepIsRecord ==
  ASSUME LoopsInv
  PROVE  /\ Asleep \in LoopRecord /\ Asleep.state # "running"
         /\ [Asleep EXCEPT !.state = "dead"] \in LoopRecord /\ [Asleep EXCEPT !.state = "dead"].state # "running"
<1>1. 1 \in 1..Len(cycle) + 1
  BY DEF LoopsInv
<1> QED  BY <1>1 DEF Asleep, LoopRecord

LEMMA BlipsAreCounted ==
  ASSUME LoopsInv, UNCHANGED blips \/ (blips < MaxBlips /\ blips' = blips + 1)
  PROVE  blips' \in 0..MaxBlips /\ blips' \in Nat /\ blips \in Nat /\ blips <= blips'
  BY AutomationAssumption DEF LoopsInv

-----------------------------------------------------------------------------
(* The guards.                                                               *)

LEMMA StillWithin == ASSUME NEW a \in Nat, NEW b \in Nat, NEW c \in Nat, a <= b + 1, b <= c PROVE a <= c + 1
  OBVIOUS

LEMMA GuardsStay ==
  ASSUME LoopsInv, GuardsInv, UNCHANGED guards, UNCHANGED blips \/ (blips < MaxBlips /\ blips' = blips + 1)
  PROVE  GuardsInv'
<1>1. UNCHANGED <<slot, taken, passes, weekly, cleanups>>
  BY DEF guards
<1>2. blips' \in Nat /\ blips \in Nat /\ blips <= blips'
  BY BlipsAreCounted
<1>3. passes <= blips + 1 /\ (~taken => passes <= blips) /\ passes \in Nat
  BY DEF GuardsInv
<1>4. passes <= blips' + 1
  <2>1. passes <= blips + 1 /\ passes \in Nat
    BY <1>3
  <2> QED  BY <1>2, <2>1, StillWithin
<1>5. ~taken => passes <= blips'
  BY <1>2, <1>3
<1> QED  BY <1>1, <1>4, <1>5 DEF GuardsInv

LEMMA RemindersKeepGuards ==
  ASSUME LoopsInv, GuardsInv, NEW l \in Loops, RunsReminders(l)
  PROVE  GuardsInv' /\ (UNCHANGED blips \/ (blips < MaxBlips /\ blips' = blips + 1))
<1>1. UNCHANGED <<slot, weekly, cleanups>>
  BY DEF RunsReminders
<1>2. \/ ~taken /\ taken' = TRUE /\ passes' = passes + 1 /\ UNCHANGED blips
      \/ UNCHANGED <<taken, passes, blips>>
      \/ blips < MaxBlips /\ blips' = blips + 1 /\ passes' = passes + 1 /\ UNCHANGED taken
  BY DEF RunsReminders
<1>3. blips \in Nat /\ passes \in Nat /\ passes <= blips + 1 /\ (~taken => passes <= blips) /\ taken \in BOOLEAN
  BY DEF GuardsInv, LoopsInv
<1>4. taken' \in BOOLEAN
  BY <1>2, <1>3
<1>5. passes' \in Nat
  BY <1>2, <1>3
<1>6. passes' <= blips' + 1
  BY <1>2, <1>3
<1>8. ~taken' => passes' <= blips'
  BY <1>2, <1>3
<1>7. UNCHANGED blips \/ (blips < MaxBlips /\ blips' = blips + 1)
  BY <1>2
<1> QED  BY <1>1, <1>4, <1>5, <1>6, <1>7, <1>8 DEF GuardsInv

LEMMA RetentionKeepsGuards ==
  ASSUME LoopsInv, GuardsInv, (\E l \in Loops : RunsRetention(l)) \/ CronRetention
  PROVE  GuardsInv' /\ (UNCHANGED blips \/ (blips < MaxBlips /\ blips' = blips + 1))
<1>1. UNCHANGED <<slot, taken, passes>>
  BY DEF RunsRetention, CronRetention
<1>2. \/ ~weekly /\ weekly' = TRUE /\ cleanups' = cleanups + 1 /\ UNCHANGED blips
      \/ UNCHANGED <<weekly, cleanups>> /\ (UNCHANGED blips \/ (blips < MaxBlips /\ blips' = blips + 1))
  BY DEF RunsRetention, CronRetention
<1>3. UNCHANGED blips \/ (blips < MaxBlips /\ blips' = blips + 1)
  BY <1>2
<1>4. CASE ~weekly /\ weekly' = TRUE /\ cleanups' = cleanups + 1 /\ UNCHANGED blips
  <2>1. cleanups' = 1
    BY <1>4 DEF GuardsInv
  <2> QED  BY <1>1, <1>3, <1>4, <2>1 DEF GuardsInv
<1>5. CASE UNCHANGED <<weekly, cleanups>>
  BY <1>1, <1>3, <1>5, GuardsStay DEF guards
<1> QED  BY <1>2, <1>4, <1>5

LEMMA DumpsKeep ==
  ASSUME BackupsInv, NEW ok \in BOOLEAN, Dumps(ok), marked' = TRUE => marked \/ ok, marked' \in BOOLEAN, UNCHANGED heartbeat
  PROVE  BackupsInv'
<1>1. dump' \in {"none", "old", "today"} /\ (dump = "today" \/ ok => dump' = "today")
  BY DEF Dumps, BackupsInv
<1> QED  BY <1>1 DEF BackupsInv

-----------------------------------------------------------------------------
(* The steps.                                                                *)

LEMMA LoopStepKeeps == ASSUME LoopInv, NEW l \in Loops, LoopStep(l) PROVE LoopInv'
<1>0. LoopsInv /\ KeysInv /\ GuardsInv /\ BackupsInv /\ loop[l] \in LoopRecord
  BY DEF LoopInv, LoopsInv
<1>1. CASE WakeUp(l)
  <2> DEFINE r == [loop[l] EXCEPT !.state = "between"]
  <2>1. r \in LoopRecord /\ r.state # "running" /\ loop' = [loop EXCEPT ![l] = r]
    BY <1>0, <1>1 DEF LoopRecord, LoopsInv, WakeUp
  <2> HIDE DEF r
  <2>2. UNCHANGED <<cycle, lock, guards, backups, heartbeat, blips>>
    BY <1>1 DEF WakeUp
  <2>3. LoopsInv' /\ KeysInv'
    BY <1>0, <2>1, <2>2, BlipsAreCounted, RestingKeeps
  <2> QED  BY <1>0, <2>2, <2>3, GuardsStay DEF LoopInv, BackupsInv, backups
<1>2. CASE TakesLock(l)
  <2>1. UNCHANGED <<guards, backups, heartbeat, blips>>
    BY <1>2 DEF TakesLock
  <2> QED  BY <1>0, <1>2, <2>1, TakesLockKeeps, GuardsStay DEF LoopInv, BackupsInv, backups
<1>3. CASE SkipsTask(l)
  <2>1. /\ UNCHANGED <<cycle, lock, guards, backups, heartbeat>> /\ loop[l].at <= Len(cycle)
        /\ loop[l].state # "running" /\ MovesOn(l, FALSE)
        /\ UNCHANGED blips \/ (blips < MaxBlips /\ blips' = blips + 1)
    BY <1>3 DEF SkipsTask
  <2>2. LoopsInv' /\ KeysInv'
    BY <1>0, <2>1, BlipsAreCounted, MovesOnKeeps
  <2> QED  BY <1>0, <2>1, <2>2, GuardsStay DEF LoopInv, BackupsInv, backups
<1>4. ASSUME RunsJobs(l) \/ RunsReminders(l) \/ RunsRetention(l) \/ RunsBackup(l),
             UNCHANGED blips \/ (blips < MaxBlips /\ blips' = blips + 1)
      PROVE  LoopsInv' /\ KeysInv'
  <2>1. loop[l].state = "running" /\ Releases(l) /\ UNCHANGED cycle /\ \E ok \in BOOLEAN : MovesOn(l, ok)
    BY <1>4 DEF RunsJobs, RunsReminders, RunsRetention, RunsBackup, Running
  <2>2. loop[l].at <= Len(cycle)
    BY <1>0, <2>1 DEF LoopsInv
  <2> QED  BY <1>0, <1>4, <2>1, <2>2, BlipsAreCounted, MovesOnKeeps
<1>5. CASE RunsJobs(l)
  <2>1. UNCHANGED <<guards, backups, heartbeat, blips>>
    BY <1>5 DEF RunsJobs
  <2> QED  BY <1>0, <1>4, <1>5, <2>1, GuardsStay DEF LoopInv, BackupsInv, backups
<1>6. CASE RunsReminders(l)
  <2>1. UNCHANGED <<backups, heartbeat>>
    BY <1>6 DEF RunsReminders
  <2> QED  BY <1>0, <1>4, <1>6, <2>1, RemindersKeepGuards DEF LoopInv, BackupsInv, backups
<1>7. CASE RunsRetention(l)
  <2>1. UNCHANGED <<backups, heartbeat>>
    BY <1>7 DEF RunsRetention
  <2> QED  BY <1>0, <1>4, <1>7, <2>1, RetentionKeepsGuards DEF LoopInv, BackupsInv, backups
<1>8. CASE RunsBackup(l)
  <2>1. UNCHANGED <<guards, heartbeat>> /\ (UNCHANGED blips \/ (blips < MaxBlips /\ blips' = blips + 1))
    BY <1>8 DEF RunsBackup
  <2>2. (Dumps(TRUE) /\ marked' \in {~loop[l].old, marked}) \/ (Dumps(FALSE) /\ UNCHANGED marked)
    BY <1>8 DEF RunsBackup
  <2>4. loop[l].old \in BOOLEAN /\ marked \in BOOLEAN
    BY <1>0 DEF LoopRecord, BackupsInv
  <2>5. marked' \in BOOLEAN
    BY <2>2, <2>4
  <2>3. BackupsInv'
    BY <1>0, <2>1, <2>2, <2>5, DumpsKeep DEF BackupsInv
  <2> QED  BY <1>0, <1>4, <1>8, <2>1, <2>3, GuardsStay DEF LoopInv
<1>9. CASE EndsCycle(l)
  <2>1. /\ UNCHANGED <<cycle, lock, guards, backups, blips>> /\ heartbeat' \in {"ok", "error"}
        /\ loop' = [loop EXCEPT ![l] = Asleep]
    BY <1>9 DEF EndsCycle
  <2>2. LoopsInv' /\ KeysInv'
    BY <1>0, <2>1, BlipsAreCounted, AsleepIsRecord, RestingKeeps
  <2> QED  BY <1>0, <2>1, <2>2, GuardsStay DEF LoopInv, BackupsInv, backups
<1> QED  BY <1>1, <1>2, <1>3, <1>5, <1>6, <1>7, <1>8, <1>9 DEF LoopStep

LEMMA LoopDiesKeeps == ASSUME LoopInv, NEW l \in Loops, LoopDies(l) PROVE LoopInv'
<1>1. UNCHANGED <<cycle, lock, guards, backups, heartbeat, blips>> /\ loop' = [loop EXCEPT ![l] = [Asleep EXCEPT !.state = "dead"]]
  BY DEF LoopDies
<1>2. LoopsInv' /\ KeysInv'
  BY <1>1, BlipsAreCounted, AsleepIsRecord, RestingKeeps DEF LoopInv
<1> QED  BY <1>1, <1>2, GuardsStay DEF LoopInv, BackupsInv, backups

LEMMA LoopsStay ==
  ASSUME LoopsInv, KeysInv, UNCHANGED <<cycle, lock, loop>>, blips' \in 0..MaxBlips
  PROVE  LoopsInv' /\ KeysInv'
<1>1. LoopRecord' = LoopRecord /\ \A l \in Loops : Task(l)' = Task(l)
  BY DEF LoopRecord, Task
<1> QED  BY <1>1 DEF LoopsInv, KeysInv

LEMMA NewDayKeeps ==
  ASSUME LoopsInv, KeysInv, ClockTicks
  PROVE  LoopsInv' /\ KeysInv'
<1> DEFINE aged(k) == loop[k].old \/ (slot = 2 /\ Running(k, "db-backup"))
           s(k) == [loop[k] EXCEPT !.old = aged(k)]
<1>1. \A k \in Loops : aged(k) \in BOOLEAN
  BY DEF LoopsInv, LoopRecord, Running
<1>2. loop' = [k \in Loops |-> s(k)] /\ UNCHANGED <<cycle, lock, blips>>
  BY DEF ClockTicks
<1> HIDE DEF aged
<1>3. \A k \in Loops : s(k) \in LoopRecord /\ s(k).at = loop[k].at /\ s(k).state = loop[k].state /\ s(k).late = loop[k].late
  BY <1>1 DEF LoopsInv, LoopRecord
<1> HIDE DEF s
<1>4. loop' \in [Loops -> LoopRecord] /\ \A k \in Loops : loop'[k] = s(k)
  BY <1>2, <1>3
<1>5. LoopRecord' = LoopRecord /\ \A k \in Loops : Task(k)' = Task(k)
  BY <1>2, <1>3, <1>4 DEF LoopRecord, Task
<1>6. LoopsInv'
  BY <1>2, <1>3, <1>4, <1>5 DEF LoopsInv
<1>7. KeysInv'
  BY <1>2, <1>3, <1>4, <1>5 DEF KeysInv
<1> QED  BY <1>6, <1>7

LEMMA OutsideKeeps ==
  ASSUME LoopInv, CronBackup \/ CronRetention \/ HeartbeatExpires \/ ClockTicks
  PROVE  LoopInv'
<1>0. LoopsInv /\ KeysInv /\ GuardsInv /\ BackupsInv
  BY DEF LoopInv
<1>1. UNCHANGED <<cycle, lock, blips>> /\ (UNCHANGED loop \/ ClockTicks)
  BY DEF CronBackup, CronRetention, HeartbeatExpires, ClockTicks
<1>2. LoopsInv' /\ KeysInv'
  BY <1>0, <1>1, LoopsStay, NewDayKeeps, BlipsAreCounted
<1>3. CASE CronBackup
  <2>1. UNCHANGED <<guards, heartbeat, marked>> /\ \E ok \in BOOLEAN : Dumps(ok)
    BY <1>3 DEF CronBackup
  <2>2. BackupsInv'
    BY <1>0, <2>1, DumpsKeep DEF BackupsInv
  <2> QED  BY <1>0, <1>1, <1>2, <2>1, <2>2, GuardsStay DEF LoopInv
<1>4. CASE CronRetention
  <2>1. UNCHANGED <<backups, heartbeat>>
    BY <1>4 DEF CronRetention
  <2> QED  BY <1>0, <1>2, <1>4, <2>1, RetentionKeepsGuards DEF LoopInv, BackupsInv, backups
<1>5. CASE HeartbeatExpires
  <2>1. UNCHANGED <<guards, backups>> /\ heartbeat' = "none"
    BY <1>5 DEF HeartbeatExpires
  <2> QED  BY <1>0, <1>1, <1>2, <2>1, GuardsStay DEF LoopInv, BackupsInv, backups
<1>6. CASE ClockTicks
  <2>0. slot' \in 0..2
    BY <1>0, <1>6 DEF ClockTicks, GuardsInv
  <2>1. taken' = FALSE /\ passes' = 0 /\ UNCHANGED <<weekly, cleanups, heartbeat, blips>>
    BY <1>6 DEF ClockTicks
  <2>6. passes' \in Nat /\ passes' <= blips' + 1 /\ passes' <= blips'
    BY <1>0, <1>1, <2>1, BlipsAreCounted
  <2>3. GuardsInv'
    BY <1>0, <2>0, <2>1, <2>6 DEF GuardsInv
  <2>4. (marked' = FALSE /\ dump' \in {"none", "old"}) \/ UNCHANGED backups
    BY <1>6 DEF ClockTicks
  <2>5. BackupsInv'
    <3>1. CASE marked' = FALSE /\ dump' \in {"none", "old"}
      BY <1>0, <2>1, <3>1 DEF BackupsInv
    <3>2. CASE UNCHANGED backups
      BY <1>0, <2>1, <3>2 DEF BackupsInv, backups
    <3> QED  BY <2>4, <3>1, <3>2
  <2> QED  BY <1>2, <2>3, <2>5 DEF LoopInv
<1> QED  BY <1>3, <1>4, <1>5, <1>6

LEMMA LoopInvHolds == AutomationSpec => []LoopInv
<1>1. AutomationInit => LoopInv
  <2> SUFFICES ASSUME AutomationInit PROVE LoopInv
    OBVIOUS
  <2>1. cycle \in Seq(Tasks) /\ cycle \in Cycles /\ lock = {} /\ loop = [l \in Loops |-> Asleep]
    BY AutomationAssumption DEF AutomationInit
  <2>2. 1 \in 1..Len(cycle) + 1
    BY <2>1
  <2>3. Asleep \in LoopRecord /\ Asleep.state # "running"
    BY <2>2 DEF Asleep, LoopRecord
  <2>4. blips \in 0..MaxBlips /\ blips = 0
    BY AutomationAssumption DEF AutomationInit
  <2>5. LoopsInv /\ KeysInv
    BY <2>1, <2>3, <2>4 DEF LoopsInv, KeysInv
  <2>6. GuardsInv
    <3>1. slot = 0 /\ taken = FALSE /\ weekly = FALSE
      BY DEF AutomationInit
    <3>2. passes = 0 /\ cleanups = 0
      BY DEF AutomationInit
    <3>3. passes \in Nat /\ passes <= blips + 1 /\ passes <= blips
      BY <2>4, <3>2
    <3>4. slot \in 0..2 /\ cleanups \in 0..1
      BY <3>1, <3>2
    <3>5. {taken, weekly} \subseteq BOOLEAN
      BY <3>1
    <3> QED  BY <3>2, <3>3, <3>4, <3>5 DEF GuardsInv
  <2> QED  BY <2>5, <2>6 DEF AutomationInit, LoopInv, BackupsInv
<1>2. LoopInv /\ [AutomationNext]_automationVars => LoopInv'
  <2>1. ASSUME LoopInv, UNCHANGED automationVars PROVE LoopInv'
    BY <2>1, LoopsStay, GuardsStay DEF automationVars, LoopInv, LoopsInv, BackupsInv, backups
  <2>2. ASSUME LoopInv, NEW t \in Tasks, LockExpires(t) PROVE LoopInv'
    BY <2>2, LockExpiresKeeps, GuardsStay DEF LockExpires, LoopInv, BackupsInv, backups
  <2>3. ASSUME LoopInv, Redeployed PROVE LoopInv'
    BY <2>3, RedeployedKeeps, GuardsStay DEF Redeployed, LoopInv, BackupsInv, backups
  <2> QED  BY <2>1, <2>2, <2>3, LoopStepKeeps, LoopDiesKeeps, OutsideKeeps DEF AutomationNext
<1> QED  BY <1>1, <1>2, PTL DEF AutomationSpec

(* Two loops are in one task only when one of them has outlasted its key: a  *)
(* loop that is in time holds it (_run_locked of run_automation_loop.py).    *)
THEOREM TwoInATaskMeansOneLate == AutomationSpec => []OneLoopPerTask
<1>1. LoopInv => OneLoopPerTask
  <2> SUFFICES ASSUME LoopInv, NEW t \in Tasks, \A l \in Runs(t) : ~loop[l].late
               PROVE  Cardinality(Runs(t)) <= 1
    BY DEF OneLoopPerTask
  <2>1. \A l, k \in Runs(t) : l = k
    BY DEF LoopInv, KeysInv, Runs, Running
  <2>2. Runs(t) = {} \/ \E l : Runs(t) = {l}
    BY <2>1
  <2>3. CASE Runs(t) = {}
    BY <2>3, FS_EmptySet
  <2>4. ASSUME NEW l, Runs(t) = {l} PROVE Cardinality(Runs(t)) = 1
    BY <2>4, FS_Singleton
  <2> QED  BY <2>2, <2>3, <2>4
<1> QED  BY <1>1, LoopInvHolds, PTL

(* However many loops and endpoints try, fail and try again, one pass is     *)
(* started in a reminder slot and one clean-up in a week, unless the cache   *)
(* failed, and a day is marked as backed up only with its dump there         *)
(* (_run_if_due, _take_guard, _run_db_backup).                               *)
THEOREM GuardsLetWorkThroughOnce == AutomationSpec => []GuardedWorkRunsOnce
<1>1. LoopInv => GuardedWorkRunsOnce
  <2> SUFFICES ASSUME LoopInv PROVE GuardedWorkRunsOnce
    OBVIOUS
  <2>1. passes <= 1 \/ blips > 0
    BY AutomationAssumption DEF LoopInv, GuardsInv, LoopsInv
  <2> QED  BY <2>1 DEF GuardedWorkRunsOnce, LoopInv, GuardsInv, BackupsInv
<1> QED  BY <1>1, LoopInvHolds, PTL

(* The loops, the keys and the guards have their types in every behaviour.   *)
THEOREM LoopsHaveTheirTypes == AutomationSpec => []AutomationTypeOK
<1>1. LoopInv => AutomationTypeOK
  <2> SUFFICES ASSUME LoopInv PROVE AutomationTypeOK
    OBVIOUS
  <2>1. passes \in 0..(1 + MaxBlips) /\ cleanups \in 0..(1 + MaxBlips)
    BY AutomationAssumption DEF LoopInv, GuardsInv, LoopsInv
  <2> QED  BY <2>1 DEF AutomationTypeOK, LoopInv, LoopsInv, GuardsInv, BackupsInv, LoopRecord
<1> QED  BY <1>1, LoopInvHolds, PTL

-----------------------------------------------------------------------------
(* The letters and their keys (Letters).                                     *)

File == [until : Dates, early : BOOLEAN, expiry : [Docs -> Dates], open : SUBSET Cases,
         cases : [Cases -> CaseFile], at : {"idle", "uploaded", "completed"},
         known : BOOLEAN, invited : BOOLEAN, task : BOOLEAN, answered : BOOLEAN, missed : BOOLEAN]

CalendarInv ==
    /\ topic \in Topics /\ day \in 0..Horizon[topic] /\ shift \in 0..2
    /\ file \in File
    /\ ran \in BOOLEAN /\ changes \in 0..MaxChanges

IsLetter(l) == l = [about |-> l.about, said |-> l.said, age |-> l.age] /\ l.age \in 0..day

LettersAreLetters == \A l \in letters : IsLetter(l)

(* A taken key stands for a letter that is there, and a key of an interval   *)
(* or a week is of the present one, as its letter.                           *)
Says(about, said) == \E l \in letters : l.about = about /\ l.said = said

Stands(k) ==
    /\ k[1] = "stay" => Says("stay", k[2])
    /\ k[1] = "critical" =>
          /\ k[3] = Interval(day)
          /\ \E l \in letters : l.about = "stay" /\ l.said = k[2] /\ Interval(day - l.age) = k[3]
    /\ k[1] = "papers" => Says("papers", k[2])
    /\ k[1] = "missing" =>
          /\ k[3] = Week(day)
          /\ \E l \in letters : l.about = "missing" /\ l.said = k[2] /\ Week(day - l.age) = k[3]
    /\ k[1] = "completed" => \E l \in letters : l.about = "completed"

KeysStand == \A k \in keys : Stands(k)

OfficeInv ==
    /\ file.invited /\ file.at # "uploaded" /\ ~file.missed => file.task
    /\ file.answered /\ file.at # "completed" /\ ~file.missed => \E l \in letters : l.about = "completed"

NewsInv ==
    /\ ran /\ topic = "stay" => StayIsCalled
    /\ ran /\ topic = "papers" => ExpiryIsNamed
    /\ ran /\ topic = "missing" => MissingIsAskedFor
    /\ topic = "staff" => OfficeInv

LettersInv == CalendarInv /\ LettersAreLetters /\ KeysStand /\ NewsInv

-----------------------------------------------------------------------------
(* Weeks and intervals.                                                      *)

LEMMA DayIsNumber == ASSUME CalendarInv PROVE day \in Nat /\ shift \in 0..2 /\ Horizon[topic] \in Nat /\ day <= Horizon[topic]
  BY LettersAssumption DEF CalendarInv

LEMMA SameInterval ==
  ASSUME NEW d \in Nat, NEW a \in 0..d, NEW s \in 0..2, (d + s) \div 3 = (d - a + s) \div 3
  PROVE  a <= 2
  OBVIOUS

LEMMA SameWeek ==
  ASSUME NEW d \in Nat, NEW a \in 0..d, NEW s \in 0..2, (d + s) \div 7 = (d - a + s) \div 7
  PROVE  a <= 6
  OBVIOUS

LEMMA TimePasses ==
  ASSUME NEW d \in Nat, NEW s \in 0..2
  PROVE  /\ (d + s) \div 3 \in Nat /\ (d + 1 + s) \div 3 \in Nat /\ (d + s) \div 3 <= (d + 1 + s) \div 3
         /\ (d + s) \div 7 \in Nat /\ (d + 1 + s) \div 7 \in Nat /\ (d + s) \div 7 <= (d + 1 + s) \div 7
  OBVIOUS

-----------------------------------------------------------------------------
(* What the letters said is still said after new ones.                       *)

Fresh(new) == \A n \in new : n = [about |-> n.about, said |-> n.said, age |-> 0] /\ n.age = 0

LEMMA WithKeepsWord ==
  ASSUME NEW new, NEW l \in letters
  PROVE  \E m \in With(new) : m.about = l.about /\ m.said = l.said /\ (m = l \/ m \in new)
  BY DEF With

LEMMA WithKeeps ==
  ASSUME CalendarInv, LettersAreLetters, NEW new, Fresh(new), letters' = With(new), UNCHANGED <<day, shift>>
  PROVE  /\ LettersAreLetters'
         /\ \A k : Stands(k) => Stands(k)'
         /\ \A about, said : Says(about, said) => Says(about, said)'
<1>0. day \in Nat /\ shift \in 0..2
  BY DayIsNumber
<1>1. day - 0 = day /\ 0 \in 0..day
  BY <1>0
<1>2. \A n \in new : n.age = 0
  BY DEF Fresh
<1>3. LettersAreLetters'
  BY <1>1 DEF Fresh, LettersAreLetters, IsLetter, With
<1>4. \A l \in letters : \E m \in letters' : m.about = l.about /\ m.said = l.said /\ (m = l \/ m.age = 0)
  BY <1>2, WithKeepsWord
<1>5. \A about, said : Says(about, said) => Says(about, said)'
  BY <1>4 DEF Says
<1>6. ASSUME NEW k, Stands(k) PROVE Stands(k)'
  <2>1. (k[1] = "stay" => Says("stay", k[2]))' /\ (k[1] = "papers" => Says("papers", k[2]))'
    BY <1>5, <1>6 DEF Stands
  <2>2. k[1] = "critical" => \E l \in letters' : l.about = "stay" /\ l.said = k[2] /\ Interval(day - l.age) = k[3]
    BY <1>1, <1>4, <1>6 DEF Stands
  <2>3. k[1] = "missing" => \E l \in letters' : l.about = "missing" /\ l.said = k[2] /\ Week(day - l.age) = k[3]
    BY <1>1, <1>4, <1>6 DEF Stands
  <2>4. k[1] = "completed" => \E l \in letters' : l.about = "completed"
    BY <1>4, <1>6 DEF Stands
  <2> QED  BY <1>6, <2>1, <2>2, <2>3, <2>4 DEF Stands, Week, Interval
<1> QED  BY <1>3, <1>5, <1>6

(* A letter posted today under its key.                                      *)
Fits(k, l) ==
    /\ l = [about |-> l.about, said |-> l.said, age |-> 0] /\ l.age = 0
    /\ k[1] \in {"stay", "critical"} => l.about = "stay" /\ l.said = k[2]
    /\ k[1] = "critical" => k[3] = Interval(day)
    /\ k[1] = "papers" => l.about = "papers" /\ l.said = k[2]
    /\ k[1] = "missing" => l.about = "missing" /\ l.said = k[2] /\ k[3] = Week(day)
    /\ k[1] = "completed" => l.about = "completed"

LEMMA SendingKeeps ==
  ASSUME CalendarInv, LettersAreLetters, KeysStand, NEW new, NEW out, letters' = With(new), UNCHANGED <<day, shift>>,
         keys' = keys \union out, Fresh(new), \A k \in out : \E n \in new : Fits(k, n)
  PROVE  LettersAreLetters' /\ KeysStand' /\ \A about, said : Says(about, said) => Says(about, said)'
<1>0. day \in Nat /\ day - 0 = day
  BY DayIsNumber
<1>1. ASSUME NEW k \in out PROVE Stands(k)'
  <2>1. PICK n \in new : Fits(k, n)
    OBVIOUS
  <2>2. n \in letters' /\ n.age = 0
    BY <2>1 DEF With, Fits
  <2> QED  BY <1>0, <2>1, <2>2 DEF Fits, Stands, Says, Week, Interval
<1> QED  BY <1>1, WithKeeps DEF KeysStand

LEMMA PostKeeps ==
  ASSUME CalendarInv, LettersAreLetters, KeysStand, NEW posts, Post(posts), UNCHANGED <<day, shift>>,
         \A p \in posts : Fits(p.key, p.letter)
  PROVE  /\ LettersAreLetters' /\ KeysStand' /\ ran' \in BOOLEAN
         /\ ran' => \A p \in posts : p.key \in keys'
<1>1. PICK refused \in SUBSET {p \in posts : p.key \notin keys} :
         LET out == {p \in posts : p.key \notin keys} \ refused
         IN  /\ keys' = keys \union {p.key : p \in out}
             /\ letters' = With({p.letter : p \in out})
             /\ ran' = (refused = {})
  BY DEF Post
<1> DEFINE out == {p \in posts : p.key \notin keys} \ refused
           new == {p.letter : p \in out}
<1>2. keys' = keys \union {p.key : p \in out} /\ letters' = With(new) /\ ran' = (refused = {})
  BY <1>1
<1>3. Fresh(new) /\ \A k \in {p.key : p \in out} : \E n \in new : Fits(k, n)
  <2>1. \A p \in out : Fits(p.key, p.letter)
    OBVIOUS
  <2> HIDE DEF out
  <2>2. \A p \in out : p.letter = [about |-> p.letter.about, said |-> p.letter.said, age |-> 0] /\ p.letter.age = 0
    BY <2>1 DEF Fits
  <2> QED  BY <2>1, <2>2 DEF Fresh
<1>4. LettersAreLetters' /\ KeysStand'
  <2> HIDE DEF out, new
  <2> DEFINE ks == {p.key : p \in out}
  <2>1. \A k \in ks : \E n \in new : Fits(k, n)
    BY <1>3
  <2>2. keys' = keys \union ks
    BY <1>2
  <2> HIDE DEF ks
  <2> QED  BY <1>2, <1>3, <2>1, <2>2, SendingKeeps
<1>5. ran' => \A p \in posts : p.key \in keys'
  BY <1>2
<1> QED  BY <1>2, <1>4, <1>5

LEMMA PostedOne ==
  ASSUME CalendarInv, LettersAreLetters, KeysStand, NEW key, NEW about, NEW said, PostOne(key, about, said),
         UNCHANGED <<day, shift>>, Fits(key, Letter(about, said))
  PROVE  LettersAreLetters' /\ KeysStand' /\ ran' \in BOOLEAN /\ (ran' => key \in keys')
<1> DEFINE p == [key |-> key, letter |-> Letter(about, said)]
<1>1. Post({p})
  BY DEF PostOne
<1>2. p.key = key /\ p.letter = Letter(about, said)
  OBVIOUS
<1> HIDE DEF p
<1> QED  BY <1>1, <1>2, PostKeeps

LEMMA QuietKeeps ==
  ASSUME CalendarInv, LettersAreLetters, KeysStand, UNCHANGED <<keys, letters, day, shift>>
  PROVE  LettersAreLetters' /\ KeysStand' /\ \A about, said : Says(about, said) => Says(about, said)'
  BY DEF LettersAreLetters, IsLetter, KeysStand, Stands, Says, Week, Interval

-----------------------------------------------------------------------------
(* The calendar.                                                             *)

LEMMA NextDayKeeps == ASSUME LettersInv, NextDay PROVE LettersInv'
<1>0. CalendarInv /\ LettersAreLetters /\ KeysStand /\ NewsInv /\ day \in Nat /\ shift \in 0..2 /\ Horizon[topic] \in Nat
  BY DayIsNumber DEF LettersInv
<1>1. day' = day + 1 /\ day < Horizon[topic] /\ ran' = FALSE /\ UNCHANGED <<topic, shift, file, changes>>
  BY DEF NextDay
<1>2. CalendarInv'
  <2>1. day' \in 0..Horizon[topic]
    BY <1>0, <1>1
  <2> QED  BY <1>0, <1>1, <2>1 DEF CalendarInv
<1> DEFINE age(l) == IF Timed(l) /\ l.age < 7 THEN l.age + 1 ELSE l.age
           older(l) == [l EXCEPT !.age = age(l)]
<1>3. letters' = {older(l) : l \in letters}
  BY DEF NextDay
<1>4. ASSUME NEW l \in letters
      PROVE  /\ age(l) \in 0..day' /\ older(l) = [about |-> l.about, said |-> l.said, age |-> age(l)]
             /\ (Timed(l) /\ l.age < 7 => age(l) = l.age + 1)
  <2>1. l = [about |-> l.about, said |-> l.said, age |-> l.age] /\ l.age \in 0..day
    BY <1>0 DEF LettersAreLetters, IsLetter
  <2>2. age(l) \in 0..day'
    BY <1>0, <1>1, <2>1
  <2> HIDE DEF age
  <2>3. older(l) = [about |-> l.about, said |-> l.said, age |-> age(l)]
    BY <2>1
  <2> QED  BY <2>2, <2>3 DEF age
<1> HIDE DEF age, older
<1>5. \A l \in letters : /\ older(l) \in letters' /\ older(l).about = l.about /\ older(l).said = l.said
                         /\ older(l).age = age(l)
  BY <1>3, <1>4
<1>6. LettersAreLetters'
  BY <1>3, <1>4 DEF LettersAreLetters, IsLetter
<1>7. \A about, said : Says(about, said) => Says(about, said)'
  BY <1>5 DEF Says
<1>8. ASSUME NEW k \in keys' PROVE Stands(k)'
  <2>1. k \in keys /\ ~Over(k, day')
    BY DEF NextDay
  <2>2. Stands(k)
    BY <1>0, <2>1 DEF KeysStand
  <2>3. (k[1] = "stay" => Says("stay", k[2]))' /\ (k[1] = "papers" => Says("papers", k[2]))'
    BY <1>7, <2>2 DEF Stands
  <2>4. k[1] = "completed" => \E l \in letters' : l.about = "completed"
    BY <1>5, <2>2 DEF Stands
  <2>5. ASSUME k[1] = "critical"
        PROVE  (k[3] = Interval(day) /\ \E l \in letters : l.about = "stay" /\ l.said = k[2] /\ Interval(day - l.age) = k[3])'
    <3>1. PICK l \in letters : l.about = "stay" /\ l.said = k[2] /\ Interval(day - l.age) = k[3] /\ k[3] = Interval(day)
      BY <2>2, <2>5 DEF Stands
    <3>2. l.age \in 0..day
      BY <1>0 DEF LettersAreLetters, IsLetter
    <3>3. l.age <= 2
      BY <1>0, <3>1, <3>2, SameInterval DEF Interval
    <3>4. Timed(l) /\ l.age < 7
      BY <3>1, <3>2, <3>3 DEF Timed
    <3>5. day' - age(l) = day - l.age
      BY <1>0, <1>1, <1>4, <3>2, <3>4
    <3>6. ~(k[3] < (day' + shift) \div 3)
      BY <2>1, <2>5 DEF Over, Interval
    <3>7. k[3] = (day' + shift) \div 3
      BY <1>0, <1>1, <3>1, <3>6, TimePasses DEF Interval
    <3> QED  BY <1>1, <1>5, <3>1, <3>5, <3>7 DEF Interval
  <2>6. ASSUME k[1] = "missing"
        PROVE  (k[3] = Week(day) /\ \E l \in letters : l.about = "missing" /\ l.said = k[2] /\ Week(day - l.age) = k[3])'
    <3>1. PICK l \in letters : l.about = "missing" /\ l.said = k[2] /\ Week(day - l.age) = k[3] /\ k[3] = Week(day)
      BY <2>2, <2>6 DEF Stands
    <3>2. l.age \in 0..day
      BY <1>0 DEF LettersAreLetters, IsLetter
    <3>3. l.age <= 6
      BY <1>0, <3>1, <3>2, SameWeek DEF Week
    <3>4. Timed(l) /\ l.age < 7
      BY <3>1, <3>2, <3>3 DEF Timed
    <3>5. day' - age(l) = day - l.age
      BY <1>0, <1>1, <1>4, <3>2, <3>4
    <3>6. ~(k[3] < (day' + shift) \div 7)
      BY <2>1, <2>6 DEF Over, Week
    <3>7. k[3] = (day' + shift) \div 7
      BY <1>0, <1>1, <3>1, <3>6, TimePasses DEF Week
    <3> QED  BY <1>1, <1>5, <3>1, <3>5, <3>7 DEF Week
  <2> QED  BY <2>3, <2>4, <2>5, <2>6 DEF Stands
<1>9. NewsInv'
  BY <1>0, <1>1, <1>5 DEF NewsInv, OfficeInv
<1> QED  BY <1>2, <1>6, <1>8, <1>9 DEF LettersInv, KeysStand

(* A change to the file takes the day's pass back.                           *)
LEMMA ChangesKeep ==
  ASSUME LettersInv, NEW of \in {"stay", "papers", "missing"}, Changes(of), file' \in File
  PROVE  LettersInv'
<1>1. /\ topic' = of /\ ran' = FALSE /\ changes' \in 0..MaxChanges
      /\ UNCHANGED <<topic, day, shift, keys, letters>>
  BY LettersAssumption DEF Changes, LettersInv, CalendarInv
<1>2. CalendarInv'
  BY <1>1 DEF LettersInv, CalendarInv
<1>3. LettersAreLetters' /\ KeysStand'
  BY <1>1, QuietKeeps DEF LettersInv
<1>4. NewsInv'
  BY <1>1 DEF NewsInv
<1> QED  BY <1>2, <1>3, <1>4 DEF LettersInv

LEMMA CalendarStays ==
  ASSUME CalendarInv, UNCHANGED <<topic, day, shift, file, changes>>, ran' \in BOOLEAN
  PROVE  CalendarInv'
  BY DEF CalendarInv

-----------------------------------------------------------------------------
(* The end of a stay.                                                        *)

LEMMA StayKeeps == ASSUME LettersInv, StayNext PROVE LettersInv'
<1>0. CalendarInv /\ LettersAreLetters /\ KeysStand /\ day \in Nat /\ shift \in 0..2
  BY DayIsNumber DEF LettersInv
<1>1. CASE PassStays
  <2>0. topic = "stay" /\ UNCHANGED <<topic, day, shift, file, changes>>
    BY <1>1 DEF PassStays, NothingElse
  <2>1. CASE ~StayEnds
    <3>1. UNCHANGED <<keys, letters>> /\ ran' = TRUE
      BY <1>1, <2>1 DEF PassStays, Quiet
    <3>2. ~StayEnds'
      BY <2>0, <2>1 DEF StayEnds
    <3>3. NewsInv'
      BY <2>0, <3>2 DEF NewsInv, StayIsCalled
    <3> QED  BY <1>0, <2>0, <3>1, <3>3, CalendarStays, QuietKeeps DEF LettersInv
  <2>2. CASE StayEnds
    <3>1. PostOne(StayKey, "stay", file.until)
      BY <1>1, <2>2 DEF PassStays
    <3>2. Fits(StayKey, Letter("stay", file.until))
      BY DEF Fits, StayKey, Letter
    <3>3. LettersAreLetters' /\ KeysStand' /\ ran' \in BOOLEAN /\ (ran' => StayKey \in keys')
      BY <1>0, <2>0, <3>1, <3>2, PostedOne
    <3>4. CalendarInv'
      BY <1>0, <2>0, <3>3, CalendarStays
    <3>5. ASSUME ran' PROVE StayIsCalled'
      <4>1. Stands(StayKey)'
        <5>1. StayKey' = StayKey
          BY <2>0 DEF StayKey, DaysLeft, Interval
        <5> QED  BY <3>3, <3>5, <5>1 DEF KeysStand
      <4>2. CASE DaysLeft <= 14
        <5>1. StayKey[1] = "critical" /\ StayKey[2] = file.until /\ StayKey[3] = Interval(day)
          BY <4>2 DEF StayKey
        <5>6. StayKey' = StayKey
          BY <2>0 DEF StayKey, DaysLeft, Interval
        <5>2. PICK l \in letters' : l.about = "stay" /\ l.said = file.until /\ (day' - l.age + shift') \div 3 = StayKey[3]
          BY <4>1, <5>1, <5>6 DEF Stands, Interval
        <5>3. l.age \in 0..day
          BY <2>0, <3>3, <5>2 DEF LettersAreLetters, IsLetter
        <5>4. (day + shift) \div 3 = (day - l.age + shift) \div 3
          BY <2>0, <5>1, <5>2 DEF Interval
        <5>5. l.age <= 2
          BY <1>0, <5>3, <5>4, SameInterval
        <5> QED  BY <2>0, <5>2, <5>5 DEF StayIsCalled
      <4>3. CASE ~(DaysLeft <= 14)
        <5>1. StayKey = <<"stay", file.until>> /\ StayKey' = <<"stay", file.until>>
          BY <2>0, <4>3 DEF StayKey, DaysLeft
        <5>2. PICK l \in letters' : l.about = "stay" /\ l.said = file.until
          BY <4>1, <5>1 DEF Stands, Says
        <5> QED  BY <2>0, <4>3, <5>2 DEF StayIsCalled, DaysLeft
      <4> QED  BY <4>2, <4>3
    <3>6. NewsInv'
      BY <2>0, <3>5 DEF NewsInv
    <3> QED  BY <3>3, <3>4, <3>6 DEF LettersInv
  <2> QED  BY <2>1, <2>2
<1>2. CASE StayChanges
  <2>1. file' \in File
    BY <1>0, <1>2 DEF StayChanges, CalendarInv, File
  <2> QED  BY <1>2, <2>1, ChangesKeep DEF StayChanges
<1> QED  BY <1>1, <1>2 DEF StayNext

-----------------------------------------------------------------------------
(* Papers that expire.                                                       *)

LEMMA ExpiryStaysNamed ==
  ASSUME ExpiryIsNamed, UNCHANGED <<day, file>>, \A about, said : Says(about, said) => Says(about, said)'
  PROVE  ExpiryIsNamed'
<1>1. Named(Expiring)' = Named(Expiring)
  BY DEF Named, Expiring
<1>2. ASSUME NEW e \in Named(Expiring) PROVE \E l \in letters' : l.about = "papers" /\ e \in l.said
  <2>1. PICK l \in letters : l.about = "papers" /\ e \in l.said
    BY DEF ExpiryIsNamed
  <2>2. Says("papers", l.said)'
    BY <2>1 DEF Says
  <2> QED  BY <2>1, <2>2 DEF Says
<1> QED  BY <1>1, <1>2 DEF ExpiryIsNamed

LEMMA PapersKeep == ASSUME LettersInv, PapersNext PROVE LettersInv'
<1>0. CalendarInv /\ LettersAreLetters /\ KeysStand /\ NewsInv
  BY DEF LettersInv
<1>1. CASE PassExpiring
  <2>0. topic = "papers" /\ UNCHANGED <<topic, day, shift, file, changes>>
    BY <1>1 DEF PassExpiring, NothingElse
  <2>9. Named(Expiring)' = Named(Expiring) /\ Expiring' = Expiring
    BY <2>0 DEF Named, Expiring
  <2>1. CASE Expiring = {}
    <3>1. UNCHANGED <<keys, letters>> /\ ran' = TRUE
      BY <1>1, <2>1 DEF PassExpiring, Quiet
    <3>2. ExpiryIsNamed'
      BY <2>1, <2>9 DEF ExpiryIsNamed, Named
    <3>3. NewsInv'
      BY <2>0, <3>2 DEF NewsInv
    <3> QED  BY <1>0, <2>0, <3>1, <3>3, CalendarStays, QuietKeeps DEF LettersInv
  <2>2. CASE Expiring # {}
    <3> DEFINE key == <<"papers", Named(Expiring)>>
    <3>1. PostOne(key, "papers", Named(Expiring))
      BY <1>1, <2>2 DEF PassExpiring, TellOf
    <3>2. Fits(key, Letter("papers", Named(Expiring))) /\ key[1] = "papers" /\ key[2] = Named(Expiring)
      BY DEF Fits, Letter
    <3> HIDE DEF key
    <3>3. LettersAreLetters' /\ KeysStand' /\ ran' \in BOOLEAN /\ (ran' => key \in keys')
      BY <1>0, <2>0, <3>1, <3>2, PostedOne
    <3>4. CalendarInv'
      BY <1>0, <2>0, <3>3, CalendarStays
    <3>5. ASSUME ran' PROVE ExpiryIsNamed'
      <4>1. Says("papers", Named(Expiring))'
        <5>1. key \in keys'
          BY <3>3, <3>5
        <5>2. PICK l \in letters' : l.about = "papers" /\ l.said = key[2]
          BY <3>2, <3>3, <5>1 DEF KeysStand, Stands, Says
        <5> QED  BY <2>9, <3>2, <5>2 DEF Says
      <4> QED  BY <2>9, <4>1 DEF ExpiryIsNamed, Says
    <3>6. NewsInv'
      BY <2>0, <3>5 DEF NewsInv
    <3> QED  BY <3>3, <3>4, <3>6 DEF LettersInv
  <2> QED  BY <2>1, <2>2
<1>2. CASE PaperIsExtended
  <2>1. PICK d \in Docs, e \in Dates : file' = [file EXCEPT !.expiry[d] = e]
    BY <1>2 DEF PaperIsExtended
  <2>2. [file.expiry EXCEPT ![d] = e] \in [Docs -> Dates]
    BY <1>0, <2>1 DEF CalendarInv, File
  <2> DEFINE expiry == [file.expiry EXCEPT ![d] = e]
  <2>3. file' = [file EXCEPT !.expiry = expiry]
    BY <2>1
  <2> HIDE DEF expiry
  <2>4. file' \in File
    BY <1>0, <2>2, <2>3 DEF CalendarInv, File, expiry
  <2> QED  BY <1>2, <2>4, ChangesKeep DEF PaperIsExtended
<1>3. ASSUME NEW docs \in SUBSET Docs, StaffTells(docs) PROVE LettersInv'
  <2> DEFINE key == <<"papers", Named(docs)>>
             letter == Letter("papers", Named(docs))
  <2>1. /\ keys' = keys \union {key} /\ letters' = With({letter})
        /\ topic = "papers" /\ UNCHANGED <<topic, day, shift, file, changes, ran>>
    BY <1>3 DEF StaffTells, NothingElse
  <2>2. Fits(key, letter) /\ Fresh({letter})
    BY DEF Fits, Letter, Fresh
  <2> HIDE DEF key, letter
  <2>3. LettersAreLetters' /\ KeysStand' /\ \A about, said : Says(about, said) => Says(about, said)'
    <3> DEFINE out == {key}
               new == {letter}
    <3>1. (\A k \in out : \E n \in new : Fits(k, n)) /\ Fresh(new)
      BY <2>2
    <3>2. keys' = keys \union out /\ letters' = With(new)
      BY <2>1
    <3> HIDE DEF out, new
    <3> QED  BY <1>0, <2>1, <3>1, <3>2, SendingKeeps
  <2>4. ran' => ExpiryIsNamed'
    BY <1>0, <2>1, <2>3, ExpiryStaysNamed DEF NewsInv
  <2>5. NewsInv'
    BY <2>1, <2>4 DEF NewsInv
  <2> QED  BY <1>0, <2>1, <2>3, <2>5, CalendarStays DEF LettersInv, CalendarInv
<1> QED  BY <1>1, <1>2, <1>3 DEF PapersNext

-----------------------------------------------------------------------------
(* Papers that are missing.                                                  *)

LEMMA AskedStaysAsked ==
  ASSUME CalendarInv, MissingIsAskedFor, UNCHANGED <<day, shift, file>>, NEW new, Fresh(new), letters' = With(new)
  PROVE  MissingIsAskedFor'
<1>0. day \in Nat /\ day - 0 = day
  BY DayIsNumber
<1>1. \A l \in letters : \E m \in letters' : m.about = l.about /\ m.said = l.said /\ (m = l \/ m.age = 0)
  BY WithKeepsWord DEF Fresh
<1>2. Waiting' = Waiting /\ \A c : Missing(c)' = Missing(c)
  BY DEF Waiting, Missing
<1>3. ASSUME NEW c \in Waiting, Missing(c) # {}
      PROVE  \E l \in letters' : l.about = "missing" /\ l.said = c /\ Week(day) = Week(day - l.age)
  <2>1. PICK l \in letters : l.about = "missing" /\ l.said = c /\ Week(day) = Week(day - l.age)
    BY <1>3 DEF MissingIsAskedFor
  <2>2. PICK m \in letters' : m.about = l.about /\ m.said = l.said /\ (m = l \/ m.age = 0)
    BY <1>1
  <2> QED  BY <1>0, <2>1, <2>2
<1> QED  BY <1>2, <1>3 DEF MissingIsAskedFor, Week

(* The letters of the office and of the section about insurance months.      *)
LEMMA MissingSent ==
  ASSUME LettersInv, topic = "missing", UNCHANGED <<topic, day, shift, file, changes, ran>>,
         NEW out, NEW new, keys' = keys \union out, letters' = With(new), Fresh(new),
         \A k \in out : k[1] \in {"zus", "verified"}, \A k \in out : \E n \in new : TRUE
  PROVE  LettersInv'
<1>0. CalendarInv /\ LettersAreLetters /\ KeysStand /\ NewsInv
  BY DEF LettersInv
<1>1. LettersAreLetters' /\ \A k : Stands(k) => Stands(k)'
  BY <1>0, WithKeeps
<1>2. \A k \in out : Stands(k)'
  BY DEF Stands
<1>3. KeysStand'
  BY <1>0, <1>1, <1>2 DEF KeysStand
<1>4. ran' => MissingIsAskedFor'
  BY <1>0, AskedStaysAsked DEF NewsInv
<1>5. NewsInv'
  BY <1>4 DEF NewsInv
<1> QED  BY <1>0, <1>1, <1>3, <1>5, CalendarStays DEF LettersInv, CalendarInv

LEMMA MissingKeeps == ASSUME LettersInv, MissingNext PROVE LettersInv'
<1>0. CalendarInv /\ LettersAreLetters /\ KeysStand /\ NewsInv
  BY DEF LettersInv
<1>1. CASE PassMissing
  <2>0. topic = "missing" /\ UNCHANGED <<topic, day, shift, file, changes>>
    BY <1>1 DEF PassMissing, NothingElse
  <2> DEFINE posts == {WeeklyPost(c) : c \in {w \in Waiting : Missing(w) # {}}}
  <2>1. Post(posts)
    BY <1>1 DEF PassMissing
  <2>2. \A c : WeeklyPost(c).key = <<"missing", c, Week(day)>> /\ WeeklyPost(c).letter = Letter("missing", c)
    BY DEF WeeklyPost, MissingLetter
  <2>3. \A c : Fits(<<"missing", c, Week(day)>>, Letter("missing", c))
    BY DEF Fits, Letter
  <2>4. \A p \in posts : Fits(p.key, p.letter)
    BY <2>2, <2>3
  <2>5. \A c \in Waiting : Missing(c) # {} => WeeklyPost(c) \in posts
    OBVIOUS
  <2> HIDE DEF posts
  <2>6. LettersAreLetters' /\ KeysStand' /\ ran' \in BOOLEAN /\ (ran' => \A p \in posts : p.key \in keys')
    BY <1>0, <2>0, <2>1, <2>4, PostKeeps
  <2>7. Waiting' = Waiting /\ \A c : Missing(c)' = Missing(c)
    BY <2>0 DEF Waiting, Missing
  <2>8. ASSUME ran', NEW c \in Waiting, Missing(c) # {}
        PROVE  \E l \in letters' : l.about = "missing" /\ l.said = c /\ (day + shift) \div 7 = (day - l.age + shift) \div 7
    <3>5. PICK k : k = <<"missing", c, Week(day)>>
      OBVIOUS
    <3>1. k \in keys'
      BY <2>2, <2>5, <2>6, <2>8, <3>5
    <3>2. k[1] = "missing" /\ k[2] = c /\ k[3] = (day + shift) \div 7
      BY <3>5 DEF Week
    <3>3. Stands(k)'
      BY <2>6, <3>1 DEF KeysStand
    <3>4. PICK l \in letters' : l.about = "missing" /\ l.said = k[2] /\ (day' - l.age + shift') \div 7 = k[3]
      BY <3>2, <3>3 DEF Stands, Week
    <3> QED  BY <2>0, <3>2, <3>4
  <2>9. ran' => MissingIsAskedFor'
    BY <2>0, <2>7, <2>8 DEF MissingIsAskedFor, Week
  <2>10. NewsInv'
    BY <2>0, <2>9 DEF NewsInv
  <2> QED  BY <1>0, <2>0, <2>6, <2>10, CalendarStays DEF LettersInv
<1>2. CASE PassZusOnly
  <2>0. topic = "missing" /\ UNCHANGED <<topic, day, shift, file, changes, ran>>
    BY <1>2 DEF PassZusOnly, NothingElse
  <2> DEFINE posts == {[key |-> <<"zus", c, Week(day)>>, letter |-> MissingLetter(c)] :
                          c \in {w \in Waiting : file.cases[w].months}}
             out == {p \in posts : p.key \notin keys}
             ks == {p.key : p \in out}
             new == {p.letter : p \in out}
  <2>1. keys' = keys \union ks /\ letters' = With(new)
    BY <1>2 DEF PassZusOnly
  <2>2. \A p \in posts : p.key[1] = "zus"
    OBVIOUS
  <2>3. \A p \in posts : p.letter = [about |-> p.letter.about, said |-> p.letter.said, age |-> 0] /\ p.letter.age = 0
    BY DEF MissingLetter, Letter
  <2>4. Fresh(new) /\ \A k \in ks : k[1] \in {"zus", "verified"} /\ \E n \in new : TRUE
    <3> HIDE DEF posts
    <3> QED  BY <2>2, <2>3 DEF Fresh
  <2> HIDE DEF posts, out, ks, new
  <2> QED  BY <2>0, <2>1, <2>4, MissingSent
<1>3. CASE StaffVerifies
  <2>0. topic = "missing" /\ UNCHANGED <<topic, day, shift, file, changes, ran>>
    BY <1>3 DEF StaffVerifies, NothingElse
  <2>1. PICK c \in file.open : keys' = keys \union {<<"verified", c, Week(day)>>} /\ letters' = With({MissingLetter(c)})
    BY <1>3 DEF StaffVerifies
  <2>2. Fresh({MissingLetter(c)}) /\ \A k \in {<<"verified", c, Week(day)>>} : k[1] \in {"zus", "verified"} /\ \E n \in {MissingLetter(c)} : TRUE
    BY DEF Fresh, MissingLetter, Letter
  <2> QED  BY <2>0, <2>1, <2>2, MissingSent
<1>4. CASE CaseFileChanges
  <2>0. file \in File
    BY <1>0 DEF CalendarInv
  <2>1. PICK c \in file.open :
           \/ \E p \in Papers \ file.cases[c].have : file' = [file EXCEPT !.cases[c].have = @ \union {p}]
           \/ \E p \in file.cases[c].have : file' = [file EXCEPT !.cases[c].have = @ \ {p}]
           \/ file' = [file EXCEPT !.cases[c].months = ~@]
           \/ file.cases[c].waits /\ file' = [file EXCEPT !.cases[c].waits = FALSE]
    BY <1>4 DEF CaseFileChanges
  <2>2. file.cases \in [Cases -> CaseFile] /\ file.cases[c] \in CaseFile /\ c \in Cases
    BY <2>0 DEF File
  <2>3. PICK row \in CaseFile : file' = [file EXCEPT !.cases[c] = row]
    <3>1. ASSUME NEW p \in Papers PROVE [file.cases[c] EXCEPT !.have = @ \union {p}] \in CaseFile
      BY <2>2 DEF CaseFile
    <3>2. ASSUME NEW p \in Papers PROVE [file.cases[c] EXCEPT !.have = @ \ {p}] \in CaseFile
      BY <2>2 DEF CaseFile
    <3>3. [file.cases[c] EXCEPT !.months = ~@] \in CaseFile /\ [file.cases[c] EXCEPT !.waits = FALSE] \in CaseFile
      BY <2>2 DEF CaseFile
    <3>4. file.cases[c].have \subseteq Papers
      BY <2>2 DEF CaseFile
    <3>5. CASE \E p \in Papers \ file.cases[c].have : file' = [file EXCEPT !.cases[c].have = @ \union {p}]
      BY <3>1, <3>5
    <3>6. CASE \E p \in file.cases[c].have : file' = [file EXCEPT !.cases[c].have = @ \ {p}]
      BY <3>2, <3>4, <3>6
    <3>7. CASE file' = [file EXCEPT !.cases[c].months = ~@]
      BY <3>3, <3>7
    <3>8. CASE file' = [file EXCEPT !.cases[c].waits = FALSE]
      BY <3>3, <3>8
    <3> QED  BY <2>1, <3>5, <3>6, <3>7, <3>8
  <2> DEFINE rows == [file.cases EXCEPT ![c] = row]
  <2>4. rows \in [Cases -> CaseFile] /\ file' = [file EXCEPT !.cases = rows]
    BY <2>2, <2>3
  <2> HIDE DEF rows
  <2>5. file' \in File
    BY <2>0, <2>4 DEF File
  <2> QED  BY <1>4, <2>5, ChangesKeep DEF CaseFileChanges
<1> QED  BY <1>1, <1>2, <1>3, <1>4 DEF MissingNext

-----------------------------------------------------------------------------
(* What the office hears of.                                                 *)

LEMMA OfficeFile ==
  ASSUME LettersInv, topic = "staff", UNCHANGED <<topic, day, shift, ran, changes>>, file' \in File,
         LettersAreLetters', KeysStand', OfficeInv'
  PROVE  LettersInv'
  BY DEF LettersInv, CalendarInv, NewsInv

LEMMA ClientsKeep == ASSUME LettersInv, CreateClient PROVE LettersInv'
<1>0. CalendarInv /\ LettersAreLetters /\ KeysStand /\ topic = "staff" /\ OfficeInv /\ file \in File
  BY DEF LettersInv, CalendarInv, NewsInv, CreateClient, Begins, Continues
<1>1. UNCHANGED <<topic, day, shift, ran, changes>>
  BY DEF CreateClient, Begins, Continues
<1>2. PICK known \in BOOLEAN, sent \in BOOLEAN :
        /\ file' = [file EXCEPT !.known = known]
        /\ keys' = IF known /\ sent THEN keys \union {<<"required">>} ELSE keys
        /\ letters' = IF sent THEN With({RequiredLetter}) ELSE letters
  BY DEF CreateClient
<1>3. /\ file' \in File /\ file'.at = file.at /\ file'.invited = file.invited /\ file'.missed = file.missed
      /\ file'.task = file.task /\ file'.answered = file.answered
  BY <1>0, <1>2 DEF File
<1>4. Fresh({RequiredLetter})
  BY DEF Fresh, RequiredLetter, Letter
<1>5. LettersAreLetters' /\ KeysStand' /\ \A about, said : Says(about, said) => Says(about, said)'
  <2>1. CASE sent
    <3>1. \A k \in keys' : k \in keys \/ k = <<"required">>
      BY <1>2
    <3>2. Stands(<<"required">>)'
      BY DEF Stands
    <3> QED  BY <1>0, <1>1, <1>2, <1>4, <2>1, <3>1, <3>2, WithKeeps DEF KeysStand
  <2>2. CASE ~sent
    BY <1>0, <1>1, <1>2, <2>2, QuietKeeps
  <2> QED  BY <2>1, <2>2
<1>6. (\E l \in letters : l.about = "completed") => \E l \in letters' : l.about = "completed"
  BY <1>5 DEF Says
<1>7. OfficeInv'
  BY <1>0, <1>3, <1>6 DEF OfficeInv
<1> QED  BY <1>0, <1>1, <1>3, <1>5, <1>7, OfficeFile

LEMMA OfficeKeeps == ASSUME LettersInv, OfficeNext PROVE LettersInv'
<1>0. CalendarInv /\ LettersAreLetters /\ KeysStand /\ file \in File
  BY DEF LettersInv, CalendarInv
<1>1. ASSUME UploadInvitation \/ CompleteQuestionnaire \/ SendBack \/ OfficeMissesIt PROVE LettersInv'
  <2>0. topic = "staff" /\ UNCHANGED <<topic, day, shift, ran, changes, keys, letters>>
    BY <1>1 DEF UploadInvitation, CompleteQuestionnaire, SendBack, OfficeMissesIt, Begins, Continues
  <2>1. LettersAreLetters' /\ KeysStand'
    BY <1>0, <2>0, QuietKeeps
  <2>2. OfficeInv
    BY <2>0 DEF LettersInv, NewsInv
  <2>3. CASE UploadInvitation
    <3>1. file' = [file EXCEPT !.at = "uploaded", !.invited = TRUE] /\ file.at = "idle"
      BY <2>3 DEF UploadInvitation, Begins, Continues
    <3>2. file' \in File /\ file'.at = "uploaded" /\ file'.answered = file.answered /\ file'.missed = file.missed
      BY <1>0, <3>1 DEF File
    <3>3. OfficeInv'
      BY <2>0, <2>2, <3>1, <3>2 DEF OfficeInv
    <3> QED  BY <2>0, <2>1, <3>2, <3>3, OfficeFile
  <2>4. CASE CompleteQuestionnaire
    <3>1. file' = [file EXCEPT !.at = "completed", !.answered = TRUE] /\ file.at = "idle"
      BY <2>4 DEF CompleteQuestionnaire, Begins, Continues
    <3>2. file' \in File /\ file'.at = "completed" /\ file'.invited = file.invited /\ file'.missed = file.missed /\ file'.task = file.task
      BY <1>0, <3>1 DEF File
    <3>3. OfficeInv'
      BY <2>0, <2>2, <3>1, <3>2 DEF OfficeInv
    <3> QED  BY <2>0, <2>1, <3>2, <3>3, OfficeFile
  <2>5. CASE SendBack
    <3>1. file' = [file EXCEPT !.answered = FALSE]
      BY <2>5 DEF SendBack
    <3>2. /\ file' \in File /\ file'.at = file.at /\ file'.invited = file.invited /\ file'.missed = file.missed
          /\ file'.task = file.task /\ file'.answered = FALSE
      BY <1>0, <3>1 DEF File
    <3>3. OfficeInv'
      BY <2>2, <3>2 DEF OfficeInv
    <3> QED  BY <2>0, <2>1, <3>2, <3>3, OfficeFile
  <2>6. CASE OfficeMissesIt
    <3>1. file' = [file EXCEPT !.at = "idle", !.missed = TRUE]
      BY <2>6 DEF OfficeMissesIt
    <3>2. file' \in File /\ file'.missed = TRUE
      BY <1>0, <3>1 DEF File
    <3>3. OfficeInv'
      BY <3>2 DEF OfficeInv
    <3> QED  BY <2>0, <2>1, <3>2, <3>3, OfficeFile
  <2> QED  BY <1>1, <2>3, <2>4, <2>5, <2>6
<1>2. CASE NotifyStaff
  <2>0. topic = "staff" /\ UNCHANGED <<topic, day, shift, ran, changes, keys>> /\ file.at = "uploaded"
    BY <1>2 DEF NotifyStaff, Continues
  <2>1. file' = [file EXCEPT !.at = "idle", !.task = TRUE] /\ letters' \in {letters, With({Letter("invitation", {})})}
    BY <1>2 DEF NotifyStaff
  <2>2. file' \in File /\ file'.task = TRUE /\ file'.answered = file.answered /\ file'.missed = file.missed
    BY <1>0, <2>1 DEF File
  <2>3. Fresh({Letter("invitation", {})})
    BY DEF Fresh, Letter
  <2>4. LettersAreLetters' /\ KeysStand' /\ \A about, said : Says(about, said) => Says(about, said)'
    <3>1. CASE letters' = letters
      BY <1>0, <2>0, <3>1, QuietKeeps
    <3>2. CASE letters' = With({Letter("invitation", {})})
      BY <1>0, <2>0, <2>3, <3>2, WithKeeps DEF KeysStand
    <3> QED  BY <2>1, <3>1, <3>2
  <2>5. (\E l \in letters : l.about = "completed") => \E l \in letters' : l.about = "completed"
    BY <2>4 DEF Says
  <2>6. OfficeInv'
    BY <2>0, <2>2, <2>5 DEF OfficeInv, LettersInv, NewsInv
  <2> QED  BY <2>0, <2>2, <2>4, <2>6, OfficeFile
<1>3. CASE TellCompleted
  <2>0. topic = "staff" /\ UNCHANGED <<topic, day, shift, ran, changes>> /\ file.at = "completed"
    BY <1>3 DEF TellCompleted, Continues
  <2>1. file' = [file EXCEPT !.at = "idle"]
    BY <1>3 DEF TellCompleted
  <2>2. file' \in File /\ file'.task = file.task /\ file'.invited = file.invited /\ file'.missed = file.missed
    BY <1>0, <2>1 DEF File
  <2>3. \/ <<"completed">> \in keys /\ UNCHANGED <<keys, letters>>
        \/ keys' = keys \union {<<"completed">>} /\ letters' = With({Letter("completed", {})})
    BY <1>3 DEF TellCompleted
  <2>4. Fits(<<"completed">>, Letter("completed", {})) /\ Fresh({Letter("completed", {})})
    BY DEF Fits, Fresh, Letter
  <2>5. LettersAreLetters' /\ KeysStand' /\ <<"completed">> \in keys'
    <3>1. CASE <<"completed">> \in keys /\ UNCHANGED <<keys, letters>>
      BY <1>0, <2>0, <3>1, QuietKeeps
    <3>2. CASE keys' = keys \union {<<"completed">>} /\ letters' = With({Letter("completed", {})})
      <4> DEFINE out == {<<"completed">>}
                 new == {Letter("completed", {})}
      <4>1. (\A k \in out : \E n \in new : Fits(k, n)) /\ Fresh(new) /\ <<"completed">> \in out
        BY <2>4
      <4>2. keys' = keys \union out /\ letters' = With(new)
        BY <3>2
      <4> HIDE DEF out, new
      <4>3. LettersAreLetters' /\ KeysStand'
        BY <1>0, <2>0, <4>1, <4>2, SendingKeeps
      <4> QED  BY <4>1, <4>2, <4>3
    <3> QED  BY <2>3, <3>1, <3>2
  <2>6. \E l \in letters' : l.about = "completed"
    <3>1. Stands(<<"completed">>)'
      BY <2>5 DEF KeysStand
    <3> QED  BY <3>1 DEF Stands
  <2>7. OfficeInv'
    BY <2>0, <2>2, <2>6 DEF OfficeInv, LettersInv, NewsInv
  <2> QED  BY <2>0, <2>2, <2>5, <2>7, OfficeFile
<1> QED  BY <1>1, <1>2, <1>3, ClientsKeep DEF OfficeNext

LEMMA LettersInvHolds == LettersSpec => []LettersInv
<1>1. LettersInit => LettersInv
  <2> SUFFICES ASSUME LettersInit PROVE LettersInv
    OBVIOUS
  <2>1. /\ topic \in Topics /\ day = 0 /\ shift \in 0..2 /\ keys = {} /\ letters = {} /\ ran = FALSE /\ changes = 0
    BY DEF LettersInit
  <2>2. file \in File /\ file.invited = FALSE /\ file.answered = FALSE
    <3>1. PICK until \in Dates, visa \in Dates, policy \in Dates, open \in {{"first"}, Cases} :
        file = [until |-> until, early |-> TRUE,
             expiry |-> [d \in Docs |-> IF d = "visa" THEN visa ELSE policy],
             open |-> open,
             cases |-> [c \in Cases |-> [waits |-> TRUE, have |-> Required, asked |-> c = "second", months |-> c = "first"]],
             at |-> "idle", known |-> FALSE, invited |-> FALSE, task |-> FALSE, answered |-> FALSE, missed |-> FALSE]
      BY DEF LettersInit
    <3> DEFINE expiry == [d \in Docs |-> IF d = "visa" THEN visa ELSE policy]
               cases == [c \in Cases |-> [waits |-> TRUE, have |-> Required, asked |-> c = "second", months |-> c = "first"]]
    <3>2. expiry \in [Docs -> Dates]
      OBVIOUS
    <3>3. cases \in [Cases -> CaseFile]
      BY DEF CaseFile, Required, Papers
    <3>4. open \in SUBSET Cases
      BY DEF Cases
    <3> HIDE DEF expiry, cases
    <3>5. file = [until |-> until, early |-> TRUE, expiry |-> expiry, open |-> open, cases |-> cases,
             at |-> "idle", known |-> FALSE, invited |-> FALSE, task |-> FALSE, answered |-> FALSE, missed |-> FALSE]
      BY <3>1 DEF expiry, cases
    <3> QED  BY <3>2, <3>3, <3>4, <3>5 DEF File
  <2>3. 0 \in 0..MaxChanges /\ 0 \in 0..Horizon[topic]
    BY <2>1, LettersAssumption
  <2>4. CalendarInv
    BY <2>1, <2>2, <2>3 DEF CalendarInv
  <2> QED  BY <2>1, <2>2, <2>4 DEF LettersInv, LettersAreLetters, KeysStand, NewsInv, OfficeInv
<1>2. LettersInv /\ [LettersNext]_lettersVars => LettersInv'
  <2>1. ASSUME LettersInv, UNCHANGED lettersVars PROVE LettersInv'
    <3>1. UNCHANGED <<topic, day, shift, file, keys, letters, ran, changes>>
      BY <2>1 DEF lettersVars
    <3>2. CalendarInv' /\ LettersAreLetters' /\ KeysStand'
      BY <2>1, <3>1, QuietKeeps DEF LettersInv, CalendarInv
    <3>3. NewsInv'
      BY <2>1, <3>1 DEF LettersInv, NewsInv, StayIsCalled, StayEnds, DaysLeft, ExpiryIsNamed, Named, Expiring,
                        MissingIsAskedFor, Waiting, Missing, Week, OfficeInv
    <3> QED  BY <3>2, <3>3 DEF LettersInv
  <2> QED  BY <2>1, NextDayKeeps, StayKeeps, PapersKeep, MissingKeeps, OfficeKeeps DEF LettersNext
<1> QED  BY <1>1, <1>2, PTL DEF LettersSpec

(* For any horizon, any documents and any number of changes: after today's   *)
(* pass no key has kept a letter back that the client had to get, since      *)
(* every key that is taken stands for a letter of the present interval or    *)
(* week that told the same (services/notifications.py, update_reminders.py). *)
THEOREM NewsIsNotHeldBack == LettersSpec => []NewsGetsOut
<1>1. LettersInv => NewsGetsOut
  <2>1. OfficeInv => OfficeHears
    BY DEF OfficeInv, OfficeHears
  <2> QED  BY <2>1 DEF LettersInv, NewsInv, NewsGetsOut
<1> QED  BY <1>1, LettersInvHolds, PTL

(* The file, the keys and the letters have their types in every behaviour.   *)
THEOREM LettersHaveTheirTypes == LettersSpec => []LettersTypeOK
<1>1. LettersInv => LettersTypeOK
  BY DEF LettersInv, CalendarInv, LettersAreLetters, IsLetter, File, LettersTypeOK
<1> QED  BY <1>1, LettersInvHolds, PTL

-----------------------------------------------------------------------------
(* Files in the database (Media).                                            *)

WorkRecord == [task : WorkerTasks, name : Names \union {""}, data : Kept]

Mine(w, n, tasks) == work[w].task \in tasks /\ work[w].name = n

Current(n) == IF blob[n] # Nothing THEN blob[n] ELSE disk[n]

(* A record's file that only the disk has.                                   *)
FoundOnDisk(n) == Refers(n) # {} /\ blob[n] = Nothing

WorkInv ==
    \A w \in Workers :
        /\ work[w].task # "idle" => work[w].name \in Names
        /\ work[w].task \in {"import", "copy", "export"} => work[w].data # Nothing

(* Nobody inserts, unlinks or exports a name that is only on the disk, and   *)
(* whoever has read it has read what is there.                               *)
ReadableAt(n) ==
    /\ Refers(n) \subseteq {<<n, Current(n)>>}
    /\ FoundOnDisk(n) => \A w \in Workers :
          /\ ~Mine(w, n, {"insert", "unlink", "export"})
          /\ Mine(w, n, {"import", "copy"}) => work[w].data = disk[n]

(* Of a name that two were never busy with at once: what nobody refers to    *)
(* is gone, or its row is and its file is about to go.                       *)
GoneAt(n) ==
    n \notin crossed =>
        /\ \A v, w \in Workers : Busy(v, n) /\ Busy(w, n) => v = w
        /\ Refers(n) = {} /\ (\A w \in Workers : ~Mine(w, n, {"unlink"})) => ~Exists(n)
        /\ \A w \in Workers : Refers(n) = {} /\ Mine(w, n, {"unlink"}) => blob[n] = Nothing
        /\ \A w \in Workers : Mine(w, n, {"import", "export", "copy"}) => Refers(n) # {}

MediaInv == MediaTypeOK /\ WorkInv /\ \A n \in Names : ReadableAt(n) /\ GoneAt(n)

LEMMA FilesAreSomething == Nothing \notin Contents /\ "" \notin Names
  BY MediaAssumption DEF Nothing, Contents

LEMMA WhatIsReferredToExists ==
  ASSUME MediaInv, NEW n \in Names, ~Exists(n)
  PROVE  Refers(n) = {}
<1> SUFFICES ASSUME NEW h \in Refers(n) PROVE FALSE
  OBVIOUS
<1>1. h = <<n, Current(n)>>
  BY DEF MediaInv, ReadableAt
<1>2. h \in Names \X Contents
  BY DEF MediaInv, MediaTypeOK, Refers
<1>3. Current(n) \in Contents
  BY <1>1, <1>2
<1> QED  BY <1>3, FilesAreSomething DEF Current, Exists

(* A worker's turn.                                                          *)
Turn(w, r) == work' = [work EXCEPT ![w] = r]

LEMMA TurnKeepsWork ==
  ASSUME MediaInv, NEW w \in Workers, NEW r \in WorkRecord, Turn(w, r),
         r.task # "idle" => r.name \in Names, r.task \in {"import", "copy", "export"} => r.data # Nothing
  PROVE  /\ WorkInv' /\ work' \in [Workers -> WorkRecord] /\ work'[w] = r
         /\ \A v \in Workers : v # w => work'[v] = work[v]
<1>1. work \in [Workers -> WorkRecord]
  BY DEF MediaInv, MediaTypeOK, WorkRecord
<1>2. work'[w] = r /\ work' \in [Workers -> WorkRecord] /\ \A v \in Workers : v # w => work'[v] = work[v]
  BY <1>1 DEF Turn
<1>3. WorkInv'
  BY <1>2 DEF MediaInv, WorkInv
<1> QED  BY <1>2, <1>3

LEMMA RestIsRecord == Rest \in WorkRecord /\ Rest.task = "idle"
  BY DEF Rest, WorkRecord, WorkerTasks, Kept

LEMMA BusyRecord ==
  ASSUME MediaInv, NEW w \in Workers
  PROVE  /\ work[w] \in WorkRecord /\ work[w].data \in Kept
         /\ work[w].task # "idle" => work[w].name \in Names
         /\ work[w].task \in {"import", "copy", "export"} => work[w].data # Nothing
  BY DEF MediaInv, MediaTypeOK, WorkInv, WorkRecord

(* Names that a step does not touch.                                         *)
LEMMA Elsewhere ==
  ASSUME MediaInv, NEW w \in Workers, NEW r \in WorkRecord, Turn(w, r), NEW n \in Names,
         blob'[n] = blob[n], disk'[n] = disk[n], Refers(n)' = Refers(n), n \in crossed => n \in crossed',
         r.task = "idle" \/ r.name # n, ~Mine(w, n, {"unlink"})
  PROVE  ReadableAt(n)' /\ GoneAt(n)'
<1>1. work'[w] = r /\ \A v \in Workers : v # w => work'[v] = work[v]
  BY DEF MediaInv, MediaTypeOK, Turn
<1>2. ReadableAt(n) /\ GoneAt(n)
  BY DEF MediaInv
<1>3. \A v \in Workers : \A tasks : Mine(v, n, tasks)' /\ "idle" \notin tasks => v # w /\ Mine(v, n, tasks)
  BY <1>1 DEF Mine
<1>4. \A v \in Workers : Busy(v, n)' => Busy(v, n)
  BY <1>1 DEF Busy
<1>5. ReadableAt(n)'
  BY <1>1, <1>2, <1>3 DEF ReadableAt, Current, FoundOnDisk
<1>6. \A v \in Workers : Mine(v, n, {"unlink"}) => Mine(v, n, {"unlink"})'
  BY <1>1 DEF Mine
<1>7. GoneAt(n)'
  BY <1>2, <1>3, <1>4, <1>6 DEF GoneAt, Exists
<1> QED  BY <1>5, <1>7

(* A worker that starts on a name alone is the only one there.               *)
LEMMA StartsAlone ==
  ASSUME MediaInv, NEW w \in Workers, NEW turn \in WorkerTasks \ {"idle"}, NEW n \in Names, NEW data \in Kept,
         StartsOn(w, turn, n, data), turn \in {"import", "copy", "export"} => data # Nothing
  PROVE  /\ Turn(w, [task |-> turn, name |-> n, data |-> data])
         /\ work[w].task = "idle"
         /\ [task |-> turn, name |-> n, data |-> data] \in WorkRecord
         /\ WorkInv' /\ work' \in [Workers -> WorkRecord]
         /\ work'[w] = [task |-> turn, name |-> n, data |-> data]
         /\ \A v \in Workers : v # w => work'[v] = work[v]
         /\ crossed \subseteq crossed' /\ crossed' \subseteq Names
         /\ n \notin crossed' => \A v \in Workers : v # w => ~Busy(v, n) /\ ~Busy(v, n)'
         /\ \A k \in Names : k # n => (k \in crossed' <=> k \in crossed) /\ ~Mine(w, k, {"unlink"})
<1> DEFINE r == [task |-> turn, name |-> n, data |-> data]
<1>1. r \in WorkRecord /\ r.task = turn /\ r.name = n /\ r.data = data
  BY DEF WorkRecord
<1>2. Turn(w, r) /\ work[w].task = "idle"
  BY RestIsRecord DEF StartsOn, Turns, Turn
<1> HIDE DEF r
<1>3. /\ WorkInv' /\ work' \in [Workers -> WorkRecord] /\ work'[w] = r
      /\ \A v \in Workers : v # w => work'[v] = work[v]
  BY <1>1, <1>2, TurnKeepsWork
<1>4. crossed' = IF \E v \in Workers \ {w} : Busy(v, n) THEN crossed \union {n} ELSE crossed
  BY DEF StartsOn, Crosses
<1>5. crossed \subseteq Names
  BY DEF MediaInv, MediaTypeOK
<1>6. crossed \subseteq crossed' /\ crossed' \subseteq Names /\ \A k \in Names : k # n => (k \in crossed' <=> k \in crossed)
  BY <1>4, <1>5
<1>7. n \notin crossed' => \A v \in Workers : v # w => ~Busy(v, n) /\ ~Busy(v, n)'
  BY <1>3, <1>4 DEF Busy
<1>8. \A k \in Names : ~Mine(w, k, {"unlink"})
  BY <1>2 DEF Mine
<1> QED  BY <1>1, <1>2, <1>3, <1>6, <1>7, <1>8 DEF r

-----------------------------------------------------------------------------
(* Uploads.                                                                  *)

LEMMA UploadKeeps == ASSUME MediaInv, NEW w \in Workers, NEW n \in Names, Upload(w, n) PROVE MediaInv'
<1> DEFINE r == [task |-> "insert", name |-> n, data |-> w]
<1>0. UNCHANGED <<blob, disk, held>> /\ StartsOn(w, "insert", n, w) /\ ~Exists(n) /\ w \in Kept
  BY DEF Upload, Kept, Contents
<1>1. "insert" \in WorkerTasks \ {"idle"}
  BY DEF WorkerTasks
<1>2. /\ Turn(w, r) /\ r \in WorkRecord /\ WorkInv' /\ work' \in [Workers -> WorkRecord] /\ work'[w] = r
      /\ \A v \in Workers : v # w => work'[v] = work[v]
      /\ crossed \subseteq crossed' /\ crossed' \subseteq Names
      /\ n \notin crossed' => \A v \in Workers : v # w => ~Busy(v, n) /\ ~Busy(v, n)'
      /\ \A k \in Names : k # n => (k \in crossed' <=> k \in crossed) /\ ~Mine(w, k, {"unlink"})
  BY <1>0, <1>1, StartsAlone
<1>3. r.task = "insert" /\ r.name = n
  OBVIOUS
<1> HIDE DEF r
<1>4. \A k : Refers(k)' = Refers(k)
  BY <1>0 DEF Refers
<1>5. Refers(n) = {} /\ Refers(n)' = {}
  BY <1>0, <1>4, WhatIsReferredToExists
<1>6. ReadableAt(n)'
  BY <1>5 DEF ReadableAt, FoundOnDisk
<1>7. ~Exists(n)'
  BY <1>0 DEF Exists
<1>8. GoneAt(n)'
  BY <1>2, <1>3, <1>5, <1>7 DEF GoneAt, Busy, Mine
<1>9. ASSUME NEW k \in Names, k # n PROVE ReadableAt(k)' /\ GoneAt(k)'
  BY <1>0, <1>2, <1>3, <1>4, <1>9, Elsewhere
<1>10. MediaTypeOK'
  BY <1>0, <1>2 DEF MediaInv, MediaTypeOK, WorkRecord
<1> QED  BY <1>2, <1>6, <1>8, <1>9, <1>10 DEF MediaInv

(* A worker saves its upload under a name nobody refers to.                  *)
LEMMA SavingKeeps ==
  ASSUME MediaInv, NEW w \in Workers, NEW n \in Names, blob[n] = Nothing, Refers(n) = {},
         blob' = [blob EXCEPT ![n] = w], held' = held \union {<<n, w>>}, Rests(w), UNCHANGED <<disk, crossed>>,
         \A k \in Names : ~Mine(w, k, {"unlink"})
  PROVE  MediaInv'
<1>1. Turn(w, Rest)
  BY DEF Rests, Turn
<1>2. /\ WorkInv' /\ work' \in [Workers -> WorkRecord] /\ work'[w] = Rest
      /\ \A v \in Workers : v # w => work'[v] = work[v]
  BY <1>1, RestIsRecord, TurnKeepsWork
<1>3. blob'[n] = w /\ w # Nothing /\ w \in Contents /\ \A k \in Names : k # n => blob'[k] = blob[k]
  BY FilesAreSomething DEF MediaInv, MediaTypeOK, Contents
<1>4. Refers(n)' = {<<n, w>>} /\ \A k \in Names : k # n => Refers(k)' = Refers(k)
  BY DEF Refers
<1>5. ReadableAt(n)'
  BY <1>3, <1>4 DEF ReadableAt, FoundOnDisk, Current
<1>6. GoneAt(n)
  BY DEF MediaInv
<1>7. \A v \in Workers : Busy(v, n)' => Busy(v, n)
  BY <1>2, RestIsRecord DEF Busy
<1>8. GoneAt(n)'
  BY <1>4, <1>6, <1>7 DEF GoneAt
<1>9. ASSUME NEW k \in Names, k # n PROVE ReadableAt(k)' /\ GoneAt(k)'
  BY <1>1, <1>3, <1>4, <1>9, RestIsRecord, Elsewhere
<1>10. MediaTypeOK'
  <2>1. blob' \in [Names -> Kept]
    BY <1>3 DEF MediaInv, MediaTypeOK, Kept
  <2>2. <<n, w>> \in Names \X Contents
    BY <1>3
  <2>3. held' \subseteq Names \X Contents
    BY <2>2 DEF MediaInv, MediaTypeOK
  <2> QED  BY <1>2, <2>1, <2>3 DEF MediaInv, MediaTypeOK, WorkRecord
<1> QED  BY <1>2, <1>5, <1>8, <1>9, <1>10 DEF MediaInv

(* A worker ends its turn and changes nothing but that.                      *)
LEMMA RestingKeepsFiles ==
  ASSUME MediaInv, NEW w \in Workers, Rests(w), UNCHANGED <<blob, disk, held, crossed>>,
         \A k \in Names : ~Mine(w, k, {"unlink"})
  PROVE  MediaInv'
<1>1. Turn(w, Rest)
  BY DEF Rests, Turn
<1>2. WorkInv' /\ work' \in [Workers -> WorkRecord]
  BY <1>1, RestIsRecord, TurnKeepsWork
<1>3. \A k : Refers(k)' = Refers(k)
  BY DEF Refers
<1>4. ASSUME NEW k \in Names PROVE ReadableAt(k)' /\ GoneAt(k)'
  BY <1>1, <1>3, RestIsRecord, Elsewhere
<1>5. MediaTypeOK'
  BY <1>2 DEF MediaInv, MediaTypeOK, WorkRecord
<1> QED  BY <1>2, <1>4, <1>5 DEF MediaInv

LEMMA InsertKeeps == ASSUME MediaInv, NEW w \in Workers, Insert(w) PROVE MediaInv'
<1>n. PICK n \in Names : n = work[w].name
  BY BusyRecord DEF Insert
<1>0. work[w].task = "insert" /\ UNCHANGED <<disk, crossed>>
  BY DEF Insert
<1>1. n \in Names /\ \A k \in Names : ~Mine(w, k, {"unlink"})
  BY <1>0 DEF Mine
<1>2. ReadableAt(n) /\ GoneAt(n) /\ Mine(w, n, {"insert"}) /\ Busy(w, n)
  BY <1>0, <1>n DEF MediaInv, Mine, Busy
<1>3. CASE blob[n] = Nothing
  <2>1. blob' = [blob EXCEPT ![n] = w] /\ held' = held \union {<<n, w>>} /\ Rests(w)
    BY <1>n, <1>3 DEF Insert
  <2>2. Refers(n) = {}
    BY <1>2, <1>3 DEF ReadableAt, FoundOnDisk, Mine
  <2> QED  BY <1>0, <1>1, <1>3, <2>1, <2>2, SavingKeeps
<1>4. CASE blob[n] # Nothing
  <2> DEFINE r == [task |-> "rename", name |-> n, data |-> w]
  <2>1. Turn(w, r) /\ UNCHANGED <<blob, held>>
    BY <1>n, <1>4 DEF Insert, Turns, Turn
  <2>2. r \in WorkRecord /\ r.task = "rename" /\ r.name = n
    BY <1>1 DEF WorkRecord, WorkerTasks, Kept, Contents
  <2> HIDE DEF r
  <2>3. /\ WorkInv' /\ work' \in [Workers -> WorkRecord] /\ work'[w] = r
        /\ \A v \in Workers : v # w => work'[v] = work[v]
    BY <1>1, <2>1, <2>2, TurnKeepsWork
  <2>4. \A k : Refers(k)' = Refers(k)
    BY <2>1 DEF Refers
  <2>5. ReadableAt(n)'
    BY <1>0, <1>2, <1>4, <2>1, <2>4 DEF ReadableAt, FoundOnDisk, Current
  <2>6. \A v \in Workers : Busy(v, n)' => Busy(v, n)
    BY <1>2, <2>3 DEF Busy
  <2>7. \A v \in Workers : /\ Mine(v, n, {"unlink"})' <=> Mine(v, n, {"unlink"})
                           /\ Mine(v, n, {"import", "export", "copy"})' => Mine(v, n, {"import", "export", "copy"})
    BY <1>1, <2>2, <2>3 DEF Mine
  <2>8. GoneAt(n)'
    BY <1>0, <1>2, <2>1, <2>4, <2>6, <2>7 DEF GoneAt, Exists
  <2>9. ASSUME NEW k \in Names, k # n PROVE ReadableAt(k)' /\ GoneAt(k)'
    BY <1>0, <1>1, <2>1, <2>2, <2>4, <2>9, Elsewhere
  <2>10. MediaTypeOK'
    BY <1>0, <2>1, <2>3 DEF MediaInv, MediaTypeOK, WorkRecord
  <2> QED  BY <2>3, <2>5, <2>8, <2>9, <2>10 DEF MediaInv
<1> QED  BY <1>3, <1>4

LEMMA InsertRenamedKeeps == ASSUME MediaInv, NEW w \in Workers, InsertRenamed(w) PROVE MediaInv'
<1>1. Rests(w) /\ UNCHANGED <<disk, crossed>> /\ \A k \in Names : ~Mine(w, k, {"unlink"})
  BY DEF InsertRenamed, Mine
<1>2. CASE UNCHANGED <<blob, held>>
  BY <1>1, <1>2, RestingKeepsFiles
<1>3. ASSUME NEW n \in Names, ~Exists(n), blob' = [blob EXCEPT ![n] = w], held' = held \union {<<n, w>>} PROVE MediaInv'
  BY <1>1, <1>3, WhatIsReferredToExists, SavingKeeps DEF Exists
<1> QED  BY <1>2, <1>3 DEF InsertRenamed

-----------------------------------------------------------------------------
(* Reads, deletions and the commands.                                        *)

LEMMA StartsKeep ==
  ASSUME MediaInv, NEW w \in Workers, NEW n \in Names, LookUp(w, n) \/ FindLegacy(w, n) \/ FetchRow(w, n)
  PROVE  MediaInv'
<1>0. UNCHANGED <<blob, disk, held>> /\ blob[n] \in Kept /\ disk[n] \in Kept
  BY DEF LookUp, FindLegacy, FetchRow, MediaInv, MediaTypeOK
<1>1. PICK turn \in {"read", "copy", "export"}, data \in Kept :
         /\ StartsOn(w, turn, n, data)
         /\ turn \in {"copy", "export"} => data # Nothing
         /\ turn = "copy" => data = disk[n] /\ Refers(n) # {}
         /\ turn = "export" => blob[n] # Nothing
  <2>1. Nothing \in Kept
    BY DEF Kept
  <2> QED  BY <1>0, <2>1 DEF LookUp, FindLegacy, FetchRow
<1> DEFINE r == [task |-> turn, name |-> n, data |-> data]
<1>2. turn \in WorkerTasks \ {"idle"}
  BY DEF WorkerTasks
<1>3. /\ Turn(w, r) /\ r \in WorkRecord /\ WorkInv' /\ work' \in [Workers -> WorkRecord] /\ work'[w] = r
      /\ \A v \in Workers : v # w => work'[v] = work[v]
      /\ crossed \subseteq crossed' /\ crossed' \subseteq Names
      /\ n \notin crossed' => \A v \in Workers : v # w => ~Busy(v, n) /\ ~Busy(v, n)'
      /\ \A k \in Names : k # n => (k \in crossed' <=> k \in crossed) /\ ~Mine(w, k, {"unlink"})
      /\ work[w].task = "idle"
  BY <1>1, <1>2, StartsAlone
<1>4. r.task = turn /\ r.name = n /\ r.data = data
  OBVIOUS
<1> HIDE DEF r
<1>5. \A k : Refers(k)' = Refers(k)
  BY <1>0 DEF Refers
<1>6. ReadableAt(n) /\ GoneAt(n)
  BY DEF MediaInv
<1>7. ReadableAt(n)'
  <2>1. Current(n)' = Current(n) /\ (FoundOnDisk(n)' => FoundOnDisk(n))
    BY <1>0, <1>5 DEF Current, FoundOnDisk
  <2>2. ASSUME FoundOnDisk(n), NEW v \in Workers
        PROVE  ~Mine(v, n, {"insert", "unlink", "export"})' /\ (Mine(v, n, {"import", "copy"})' => work'[v].data = disk'[n])
    <3>1. CASE v = w
      BY <1>0, <1>1, <1>3, <1>4, <2>2, <3>1 DEF Mine, FoundOnDisk
    <3>2. CASE v # w
      BY <1>0, <1>3, <1>6, <2>2, <3>2 DEF Mine, ReadableAt
    <3> QED  BY <3>1, <3>2
  <2> QED  BY <1>5, <1>6, <2>1, <2>2 DEF ReadableAt
<1>8. GoneAt(n)'
  <2> SUFFICES ASSUME n \notin crossed'
               PROVE  /\ \A u, v \in Workers : Busy(u, n)' /\ Busy(v, n)' => u = v
                      /\ Refers(n)' = {} /\ (\A v \in Workers : ~Mine(v, n, {"unlink"})') => ~Exists(n)'
                      /\ \A v \in Workers : Refers(n)' = {} /\ Mine(v, n, {"unlink"})' => blob'[n] = Nothing
                      /\ \A v \in Workers : Mine(v, n, {"import", "export", "copy"})' => Refers(n)' # {}
    BY DEF GoneAt
  <2>1. \A v \in Workers : v # w => ~Busy(v, n) /\ ~Busy(v, n)'
    BY <1>3
  <2>2. \A v \in Workers : ~Mine(v, n, {"unlink"}) /\ ~Mine(v, n, {"unlink"})'
    BY <1>1, <1>3, <1>4, <2>1 DEF Mine, Busy
  <2>3. Refers(n) = {} => ~Exists(n)
    BY <1>3, <1>6, <2>2 DEF GoneAt
  <2>4. ~Exists(n)' <=> ~Exists(n)
    BY <1>0 DEF Exists
  <2>5. ASSUME NEW v \in Workers, Mine(v, n, {"import", "export", "copy"})' PROVE Refers(n) # {}
    <3>1. v = w
      BY <2>1, <2>5 DEF Mine, Busy
    <3>2. turn \in {"export", "copy"}
      BY <1>1, <1>3, <1>4, <2>5, <3>1 DEF Mine
    <3> QED  BY <1>1, <2>3, <3>2 DEF Exists
  <2> QED  BY <1>5, <2>1, <2>2, <2>3, <2>4, <2>5
<1>9. ASSUME NEW k \in Names, k # n PROVE ReadableAt(k)' /\ GoneAt(k)'
  BY <1>0, <1>3, <1>4, <1>5, <1>9, Elsewhere
<1>10. MediaTypeOK'
  BY <1>0, <1>3 DEF MediaInv, MediaTypeOK, WorkRecord
<1> QED  BY <1>3, <1>7, <1>8, <1>9, <1>10 DEF MediaInv

LEMMA ReadFallbackKeeps == ASSUME MediaInv, NEW w \in Workers, ReadFallback(w) PROVE MediaInv'
<1>n. PICK n \in Names : n = work[w].name
  BY BusyRecord DEF ReadFallback
<1>0. work[w].task = "read" /\ UNCHANGED <<blob, disk, held, crossed>>
  BY DEF ReadFallback
<1>1. n \in Names /\ \A k \in Names : ~Mine(w, k, {"unlink"})
  BY <1>0 DEF Mine
<1>2. ReadableAt(n) /\ GoneAt(n) /\ Busy(w, n)
  BY <1>0, <1>n DEF MediaInv, Busy
<1>3. CASE disk[n] = Nothing
  BY <1>0, <1>1, <1>n, <1>3, RestingKeepsFiles DEF ReadFallback
<1>4. CASE disk[n] # Nothing
  <2> DEFINE r == [task |-> "import", name |-> n, data |-> disk[n]]
  <2>1. Turn(w, r)
    BY <1>n, <1>4 DEF ReadFallback, Turns, Turn
  <2>2. r \in WorkRecord /\ r.task = "import" /\ r.name = n /\ r.data = disk[n]
    BY <1>1 DEF WorkRecord, WorkerTasks, MediaInv, MediaTypeOK
  <2> HIDE DEF r
  <2>3. /\ WorkInv' /\ work' \in [Workers -> WorkRecord] /\ work'[w] = r
        /\ \A v \in Workers : v # w => work'[v] = work[v]
    BY <1>1, <1>4, <2>1, <2>2, TurnKeepsWork
  <2>4. \A k : Refers(k)' = Refers(k)
    BY <1>0 DEF Refers
  <2>5. ReadableAt(n)'
    <3>1. Current(n)' = Current(n) /\ (FoundOnDisk(n)' => FoundOnDisk(n))
      BY <1>0, <2>4 DEF Current, FoundOnDisk
    <3>2. ASSUME FoundOnDisk(n), NEW v \in Workers
          PROVE  ~Mine(v, n, {"insert", "unlink", "export"})' /\ (Mine(v, n, {"import", "copy"})' => work'[v].data = disk'[n])
      <4>1. CASE v = w
        BY <1>0, <2>2, <2>3, <4>1 DEF Mine
      <4>2. CASE v # w
        BY <1>0, <1>2, <2>3, <3>2, <4>2 DEF Mine, ReadableAt
      <4> QED  BY <4>1, <4>2
    <3> QED  BY <1>2, <2>4, <3>1, <3>2 DEF ReadableAt
  <2>6. \A v \in Workers : Busy(v, n)' => Busy(v, n)
    BY <1>2, <2>3 DEF Busy
  <2>7. \A v \in Workers : /\ Mine(v, n, {"unlink"})' <=> Mine(v, n, {"unlink"})
                           /\ v # w /\ Mine(v, n, {"import", "export", "copy"})' => Mine(v, n, {"import", "export", "copy"})
    BY <1>1, <2>2, <2>3 DEF Mine
  <2>8. n \notin crossed => Refers(n) # {}
    <3> SUFFICES ASSUME n \notin crossed, Refers(n) = {} PROVE FALSE
      OBVIOUS
    <3>1. \A v \in Workers : ~Mine(v, n, {"unlink"})
      BY <1>1, <1>2 DEF GoneAt, Busy, Mine
    <3> QED  BY <1>2, <1>4, <3>1 DEF GoneAt, Exists
  <2>9. GoneAt(n)'
    BY <1>0, <1>2, <2>4, <2>6, <2>7, <2>8 DEF GoneAt, Exists
  <2>10. ASSUME NEW k \in Names, k # n PROVE ReadableAt(k)' /\ GoneAt(k)'
    BY <1>0, <1>1, <2>1, <2>2, <2>4, <2>10, Elsewhere
  <2>11. MediaTypeOK'
    BY <1>0, <2>3 DEF MediaInv, MediaTypeOK, WorkRecord
  <2> QED  BY <2>3, <2>5, <2>9, <2>10, <2>11 DEF MediaInv
<1> QED  BY <1>3, <1>4

(* What was read from the disk becomes the row of its name.                  *)
LEMMA MovingInKeeps ==
  ASSUME MediaInv, NEW w \in Workers, work[w].task \in {"import", "copy"}, blob[work[w].name] = Nothing,
         blob' = [blob EXCEPT ![work[w].name] = work[w].data], Rests(w), UNCHANGED <<disk, held, crossed>>
  PROVE  MediaInv'
<1>n. PICK n \in Names, data \in Kept : n = work[w].name /\ data = work[w].data
  BY BusyRecord
<1>1. data # Nothing /\ \A k \in Names : ~Mine(w, k, {"unlink"})
  BY <1>n, BusyRecord DEF Mine
<1>2. ReadableAt(n) /\ GoneAt(n) /\ Mine(w, n, {"import", "copy"}) /\ Mine(w, n, {"import", "export", "copy"})
  BY <1>n DEF MediaInv, Mine
<1>3. Turn(w, Rest)
  BY DEF Rests, Turn
<1>4. /\ WorkInv' /\ work' \in [Workers -> WorkRecord] /\ work'[w] = Rest
      /\ \A v \in Workers : v # w => work'[v] = work[v]
  BY <1>3, RestIsRecord, TurnKeepsWork
<1>5. Refers(n) # {} => data = disk[n]
  BY <1>n, <1>2 DEF ReadableAt, FoundOnDisk
<1>6. blob[n] = Nothing /\ blob' = [blob EXCEPT ![n] = data]
  BY <1>n
<1>7. blob'[n] = data /\ \A k \in Names : k # n => blob'[k] = blob[k]
  BY <1>1, <1>6 DEF MediaInv, MediaTypeOK
<1>8. \A k : Refers(k)' = Refers(k)
  BY DEF Refers
<1>9. ReadableAt(n)'
  BY <1>1, <1>2, <1>5, <1>6, <1>7, <1>8 DEF ReadableAt, FoundOnDisk, Current
<1>10. \A v \in Workers : Busy(v, n)' => Busy(v, n)
  BY <1>4, RestIsRecord DEF Busy
<1>11. n \notin crossed => Refers(n) # {}
  BY <1>2 DEF GoneAt
<1>12. GoneAt(n)'
  BY <1>2, <1>8, <1>10, <1>11 DEF GoneAt
<1>13. ASSUME NEW k \in Names, k # n PROVE ReadableAt(k)' /\ GoneAt(k)'
  BY <1>1, <1>3, <1>7, <1>8, <1>13, RestIsRecord, Elsewhere
<1>14. MediaTypeOK'
  <2>1. blob' \in [Names -> Kept]
    BY <1>1, <1>6 DEF MediaInv, MediaTypeOK
  <2> QED  BY <1>4, <2>1 DEF MediaInv, MediaTypeOK, WorkRecord
<1> QED  BY <1>4, <1>9, <1>12, <1>13, <1>14 DEF MediaInv

LEMMA ImportKeeps == ASSUME MediaInv, NEW w \in Workers, Import(w) PROVE MediaInv'
<1>1. work[w].task = "import" /\ Rests(w) /\ UNCHANGED <<disk, held, crossed>>
  BY DEF Import
<1>2. CASE blob[work[w].name] = Nothing
  BY <1>1, <1>2, MovingInKeeps DEF Import
<1>3. CASE blob[work[w].name] # Nothing
  <2>1. blob' = blob /\ \A k \in Names : ~Mine(w, k, {"unlink"})
    BY <1>1, <1>3 DEF Import, Mine
  <2> QED  BY <1>1, <2>1, RestingKeepsFiles
<1> QED  BY <1>2, <1>3

LEMMA CopyLegacyKeeps == ASSUME MediaInv, NEW w \in Workers, CopyLegacy(w) PROVE MediaInv'
<1>n. PICK n \in Names, data \in Kept : n = work[w].name /\ data = work[w].data
  BY BusyRecord DEF CopyLegacy
<1>1. work[w].task = "copy" /\ Rests(w) /\ UNCHANGED <<disk, held>> /\ \A k \in Names : ~Mine(w, k, {"unlink"})
  BY DEF CopyLegacy, Mine
<1>2. CASE blob[n] = Nothing
  BY <1>n, <1>1, <1>2, MovingInKeeps DEF CopyLegacy
<1>3. CASE blob[n] # Nothing
  <2>1. PICK m \in Names \union {""} :
           /\ m # "" => ~Exists(m)
           /\ blob' = [k \in Names |-> IF k = m THEN data ELSE blob[k]]
           /\ crossed' = crossed \union ({m} \ {""})
    BY <1>n, <1>3 DEF CopyLegacy
  <2>2. n \in Names /\ data \in Kept
    BY <1>1, BusyRecord
  <2>3. Turn(w, Rest)
    BY <1>1 DEF Rests, Turn
  <2>4. WorkInv' /\ work' \in [Workers -> WorkRecord]
    BY <2>3, RestIsRecord, TurnKeepsWork
  <2>5. \A k : Refers(k)' = Refers(k)
    BY <1>1 DEF Refers
  <2>6. blob' \in [Names -> Kept] /\ \A k \in Names : k # m => blob'[k] = blob[k]
    BY <2>1, <2>2 DEF MediaInv, MediaTypeOK
  <2>7. crossed' \subseteq Names /\ crossed \subseteq crossed' /\ (m \in Names => m \in crossed')
    BY <2>1, FilesAreSomething DEF MediaInv, MediaTypeOK
  <2>8. ASSUME NEW k \in Names, k # m PROVE ReadableAt(k)' /\ GoneAt(k)'
    BY <1>1, <2>3, <2>5, <2>6, <2>7, <2>8, RestIsRecord, Elsewhere
  <2>9. ASSUME NEW k \in Names, k = m PROVE ReadableAt(k)' /\ GoneAt(k)'
    <3>1. Refers(k) = {}
      BY <2>1, <2>9, FilesAreSomething, WhatIsReferredToExists
    <3>2. ReadableAt(k)'
      BY <2>5, <3>1 DEF ReadableAt, FoundOnDisk
    <3> QED  BY <2>7, <2>9, <3>2 DEF GoneAt
  <2>10. MediaTypeOK'
    BY <1>1, <2>4, <2>6, <2>7 DEF MediaInv, MediaTypeOK, WorkRecord
  <2> QED  BY <2>4, <2>8, <2>9, <2>10 DEF MediaInv
<1> QED  BY <1>2, <1>3

LEMMA DeleteRowKeeps == ASSUME MediaInv, NEW w \in Workers, NEW n \in Names, DeleteRow(w, n) PROVE MediaInv'
<1> DEFINE r == [task |-> "unlink", name |-> n, data |-> Nothing]
<1>0. /\ UNCHANGED disk /\ StartsOn(w, "unlink", n, Nothing) /\ Nothing \in Kept
      /\ held' = held \ Refers(n) /\ blob' = [blob EXCEPT ![n] = Nothing]
  BY DEF DeleteRow, Kept
<1>1. "unlink" \in WorkerTasks \ {"idle"}
  BY DEF WorkerTasks
<1>2. /\ Turn(w, r) /\ r \in WorkRecord /\ WorkInv' /\ work' \in [Workers -> WorkRecord] /\ work'[w] = r
      /\ \A v \in Workers : v # w => work'[v] = work[v]
      /\ crossed \subseteq crossed' /\ crossed' \subseteq Names
      /\ n \notin crossed' => \A v \in Workers : v # w => ~Busy(v, n) /\ ~Busy(v, n)'
      /\ \A k \in Names : k # n => (k \in crossed' <=> k \in crossed) /\ ~Mine(w, k, {"unlink"})
  BY <1>0, <1>1, StartsAlone
<1>3. r.task = "unlink" /\ r.name = n
  OBVIOUS
<1> HIDE DEF r
<1>4. Refers(n)' = {} /\ \A k \in Names : k # n => Refers(k)' = Refers(k)
  BY <1>0 DEF Refers
<1>5. blob' \in [Names -> Kept] /\ blob'[n] = Nothing /\ \A k \in Names : k # n => blob'[k] = blob[k]
  BY <1>0 DEF MediaInv, MediaTypeOK
<1>6. ReadableAt(n)'
  BY <1>4 DEF ReadableAt, FoundOnDisk
<1>7. Mine(w, n, {"unlink"})'
  BY <1>2, <1>3 DEF Mine
<1>8. n \notin crossed' => \A v \in Workers : ~Mine(v, n, {"import", "export", "copy"})'
  BY <1>2, <1>3 DEF Mine, Busy
<1>9. n \notin crossed' => \A u, v \in Workers : Busy(u, n)' /\ Busy(v, n)' => u = v
  BY <1>2
<1>10. GoneAt(n)'
  BY <1>5, <1>7, <1>8, <1>9 DEF GoneAt
<1>11. ASSUME NEW k \in Names, k # n PROVE ReadableAt(k)' /\ GoneAt(k)'
  BY <1>0, <1>2, <1>3, <1>4, <1>5, <1>11, Elsewhere
<1>12. MediaTypeOK'
  BY <1>0, <1>2, <1>5 DEF MediaInv, MediaTypeOK, WorkRecord
<1> QED  BY <1>2, <1>6, <1>10, <1>11, <1>12 DEF MediaInv

LEMMA DeleteFileKeeps == ASSUME MediaInv, NEW w \in Workers, DeleteFile(w) PROVE MediaInv'
<1>n. PICK n \in Names : n = work[w].name
  BY BusyRecord DEF DeleteFile
<1>0. work[w].task = "unlink" /\ UNCHANGED <<blob, held, crossed>> /\ disk' = [disk EXCEPT ![n] = Nothing] /\ Turn(w, Rest)
  BY <1>n DEF DeleteFile, Rests, Turn
<1>1. Mine(w, n, {"unlink"}) /\ Mine(w, n, {"insert", "unlink", "export"}) /\ Busy(w, n)
  BY <1>0, <1>n DEF Mine, Busy
<1>2. ReadableAt(n) /\ GoneAt(n)
  BY <1>1 DEF MediaInv
<1>3. /\ WorkInv' /\ work' \in [Workers -> WorkRecord] /\ work'[w] = Rest
      /\ \A v \in Workers : v # w => work'[v] = work[v]
  BY <1>0, RestIsRecord, TurnKeepsWork
<1>4. \A k \in Names : k # n => ~Mine(w, k, {"unlink"})
  BY <1>n DEF Mine
<1>5. disk' \in [Names -> Kept] /\ disk'[n] = Nothing /\ \A k \in Names : k # n => disk'[k] = disk[k]
  BY <1>0, <1>1 DEF MediaInv, MediaTypeOK, Kept
<1>6. \A k : Refers(k)' = Refers(k)
  BY <1>0 DEF Refers
<1>7. Refers(n) = {} \/ blob[n] # Nothing
  BY <1>1, <1>2 DEF ReadableAt, FoundOnDisk
<1>8. ReadableAt(n)'
  BY <1>0, <1>2, <1>6, <1>7 DEF ReadableAt, FoundOnDisk, Current
<1>9. \A v \in Workers : Busy(v, n)' => Busy(v, n) /\ v # w
  BY <1>3, RestIsRecord DEF Busy
<1>10. n \notin crossed => \A v \in Workers : ~Busy(v, n)'
  BY <1>1, <1>2, <1>9 DEF GoneAt
<1>11. n \notin crossed /\ Refers(n) = {} => blob[n] = Nothing
  BY <1>1, <1>2 DEF GoneAt
<1>12. \A v \in Workers : Mine(v, n, {"unlink"})' \/ Mine(v, n, {"import", "export", "copy"})' => Busy(v, n)'
  BY DEF Mine, Busy
<1>13. GoneAt(n)'
  BY <1>0, <1>5, <1>6, <1>10, <1>11, <1>12 DEF GoneAt, Exists
<1>14. ASSUME NEW k \in Names, k # n PROVE ReadableAt(k)' /\ GoneAt(k)'
  BY <1>0, <1>4, <1>5, <1>6, <1>14, RestIsRecord, Elsewhere
<1>15. MediaTypeOK'
  BY <1>0, <1>3, <1>5 DEF MediaInv, MediaTypeOK, WorkRecord
<1> QED  BY <1>3, <1>8, <1>13, <1>14, <1>15 DEF MediaInv

LEMMA ExportRowKeeps == ASSUME MediaInv, NEW w \in Workers, ExportRow(w) PROVE MediaInv'
<1>n. PICK n \in Names : n = work[w].name
  BY BusyRecord DEF ExportRow
<1>0. work[w].task = "export" /\ UNCHANGED <<blob, held, crossed>> /\ Turn(w, Rest)
  BY DEF ExportRow, Rests, Turn
<1>1. /\ work[w].data \in Kept /\ \A k \in Names : ~Mine(w, k, {"unlink"})
      /\ Mine(w, n, {"insert", "unlink", "export"}) /\ Mine(w, n, {"import", "export", "copy"})
  BY <1>0, <1>n, BusyRecord DEF Mine
<1>2. ReadableAt(n) /\ GoneAt(n)
  BY <1>1 DEF MediaInv
<1>3. /\ WorkInv' /\ work' \in [Workers -> WorkRecord] /\ work'[w] = Rest
      /\ \A v \in Workers : v # w => work'[v] = work[v]
  BY <1>0, RestIsRecord, TurnKeepsWork
<1>4. disk' = disk \/ disk' = [disk EXCEPT ![n] = work[w].data]
  BY <1>n DEF ExportRow
<1>5. disk' \in [Names -> Kept] /\ \A k \in Names : k # n => disk'[k] = disk[k]
  BY <1>1, <1>4 DEF MediaInv, MediaTypeOK
<1>6. \A k : Refers(k)' = Refers(k)
  BY <1>0 DEF Refers
<1>7. Refers(n) = {} \/ blob[n] # Nothing
  BY <1>1, <1>2 DEF ReadableAt, FoundOnDisk
<1>8. ReadableAt(n)'
  BY <1>0, <1>2, <1>6, <1>7 DEF ReadableAt, FoundOnDisk, Current
<1>9. \A v \in Workers : Busy(v, n)' => Busy(v, n)
  BY <1>3, RestIsRecord DEF Busy
<1>10. n \notin crossed => Refers(n) # {}
  BY <1>1, <1>2 DEF GoneAt
<1>11. GoneAt(n)'
  BY <1>0, <1>2, <1>6, <1>9, <1>10 DEF GoneAt
<1>12. ASSUME NEW k \in Names, k # n PROVE ReadableAt(k)' /\ GoneAt(k)'
  BY <1>0, <1>1, <1>5, <1>6, <1>12, RestIsRecord, Elsewhere
<1>13. MediaTypeOK'
  BY <1>0, <1>3, <1>5 DEF MediaInv, MediaTypeOK, WorkRecord
<1> QED  BY <1>3, <1>8, <1>11, <1>12, <1>13 DEF MediaInv

LEMMA MediaInvHolds == MediaSpec => []MediaInv
<1>1. MediaInit => MediaInv
  <2> SUFFICES ASSUME MediaInit PROVE MediaInv
    OBVIOUS
  <2>1. PICK legacy \in SUBSET Names :
           /\ disk = [n \in Names |-> IF n \in legacy THEN n ELSE Nothing]
           /\ held = {<<n, n>> : n \in legacy}
    BY DEF MediaInit
  <2>2. blob = [n \in Names |-> Nothing] /\ work = [w \in Workers |-> Rest] /\ crossed = {}
    BY DEF MediaInit
  <2>3. MediaTypeOK
    <3>1. Nothing \in Kept /\ \A n \in Names : n \in Kept /\ n \in Contents
      BY DEF Kept, Contents
    <3>2. blob \in [Names -> Kept] /\ disk \in [Names -> Kept]
      BY <2>1, <2>2, <3>1
    <3>3. held \subseteq Names \X Contents
      BY <2>1, <3>1
    <3>4. work \in [Workers -> WorkRecord]
      BY <2>2, RestIsRecord
    <3> QED  BY <2>2, <3>2, <3>3, <3>4 DEF MediaTypeOK, WorkRecord
  <2>4. \A w \in Workers : work[w].task = "idle"
    BY <2>2, RestIsRecord
  <2>5. WorkInv
    BY <2>4 DEF WorkInv
  <2>6. \A n \in Names : /\ n \in legacy => Refers(n) = {<<n, n>>} /\ disk[n] = n
                         /\ n \notin legacy => Refers(n) = {} /\ disk[n] = Nothing
                         /\ blob[n] = Nothing
    <3> SUFFICES ASSUME NEW n \in Names
                 PROVE  /\ n \in legacy => Refers(n) = {<<n, n>>} /\ disk[n] = n
                        /\ n \notin legacy => Refers(n) = {} /\ disk[n] = Nothing
                        /\ blob[n] = Nothing
      OBVIOUS
    <3>1. \A h \in held : \E k \in legacy : h = <<k, k>>
      BY <2>1
    <3>2. n \in legacy => <<n, n>> \in held
      BY <2>1
    <3>3. \A h \in Refers(n) : n \in legacy /\ h = <<n, n>>
      BY <3>1 DEF Refers
    <3>4. n \in legacy => <<n, n>> \in Refers(n)
      BY <3>2 DEF Refers
    <3> QED  BY <2>1, <2>2, <3>3, <3>4
  <2>7. \A n \in Names : ReadableAt(n)
    BY <2>4, <2>6 DEF ReadableAt, Current, Mine
  <2>8. \A n \in Names : GoneAt(n)
    BY <2>4, <2>6 DEF GoneAt, Exists, Busy, Mine
  <2> QED  BY <2>3, <2>5, <2>7, <2>8 DEF MediaInv
<1>2. MediaInv /\ [MediaNext]_mediaVars => MediaInv'
  <2>1. ASSUME MediaInv, UNCHANGED mediaVars PROVE MediaInv'
    BY <2>1 DEF mediaVars, MediaInv, MediaTypeOK, WorkInv, ReadableAt, GoneAt, Refers, Current, FoundOnDisk, Mine, Busy, Exists
  <2> QED  BY <2>1, UploadKeeps, InsertKeeps, InsertRenamedKeeps, StartsKeep, ReadFallbackKeeps, ImportKeeps,
              CopyLegacyKeeps, DeleteRowKeeps, DeleteFileKeeps, ExportRowKeeps DEF MediaNext
<1> QED  BY <1>1, <1>2, PTL DEF MediaSpec

(* For any names and any number of requests and commands at work: what a     *)
(* record refers to can be read and is what was saved for it, and what       *)
(* nobody refers to is gone, unless two workers were busy with its name at   *)
(* once (database_media/storage.py, copy_media_to_database_storage.py,       *)
(* export_database_media.py).                                                *)
THEOREM MediaIsKept == MediaSpec => []FilesStayAndGo
<1>1. MediaInv => FilesStayAndGo
  <2> SUFFICES ASSUME MediaInv, NEW n \in Names
               PROVE  /\ Refers(n) \subseteq {<<n, Current(n)>>}
                      /\ (Refers(n) = {} /\ n \notin crossed /\ \A w \in Workers : ~Busy(w, n)) => ~Exists(n)
    BY DEF FilesStayAndGo, Current
  <2>1. (\A w \in Workers : ~Busy(w, n)) => \A w \in Workers : ~Mine(w, n, {"unlink"})
    BY DEF Busy, Mine
  <2> QED  BY <2>1 DEF MediaInv, ReadableAt, GoneAt
<1> QED  BY <1>1, MediaInvHolds, PTL

-----------------------------------------------------------------------------
(* Dumps of the database (Dumps).                                            *)

MakerRecord == [at : Steps, of : Seconds]

Works(m) == maker[m].at # "idle"

(* How the files of a second are when its only maker is at a step.           *)
FitsStep(step, s) ==
    /\ s \notin reported
    /\ step = "encrypt" => hasKeys /\ plain[s] = "whole"
    /\ step = "unlink" => hasKeys /\ enc[s] = "whole"
    /\ step = "store" /\ hasKeys => enc[s] = "whole" /\ plain[s] = "none"
    /\ step = "store" /\ ~hasKeys => plain[s] = "whole"

MakersInv ==
    \A m \in Makers : Works(m) =>
        /\ Of(m) \in begun /\ old = {}
        /\ Of(m) \notin shared => FitsStep(maker[m].at, Of(m))
        /\ \A v \in Makers : v # m /\ Works(v) /\ Of(v) = Of(m) => Of(m) \in shared

BegunInv ==
    /\ begun \subseteq 0..second /\ reported \subseteq begun
    /\ \A u \in uploaded : u[1] \in begun

(* What the files of a second that only one maker had are worth.             *)
SecondInv(s) ==
    s \notin shared =>
        /\ s \in reported => (IF hasKeys THEN enc[s] ELSE plain[s]) = "whole"
        /\ \A u \in uploaded : u[1] = s => u[2] = "whole"
        /\ hasKeys /\ s \notin broken /\ plain[s] # "none" => \E m \in Makers : Works(m) /\ Of(m) = s

DumpsInv == DumpsTypeOK /\ BegunInv /\ MakersInv /\ \A s \in Seconds : SecondInv(s)

LEMMA NobodyIsMaker == NoMaker \in MakerRecord /\ NoMaker.at = "idle"
  BY DumpsAssumption DEF NoMaker, MakerRecord, Steps, Seconds

LEMMA MakerHasRecord ==
  ASSUME DumpsInv, NEW m \in Makers
  PROVE  maker \in [Makers -> MakerRecord] /\ maker[m] \in MakerRecord /\ Of(m) \in Seconds
  BY DEF DumpsInv, DumpsTypeOK, MakerRecord, Of

(* A step of a maker that has begun: it touches the files of its second.     *)
LEMMA MakerStepKeeps ==
  ASSUME DumpsInv, NEW m \in Makers, Works(m), NEW r \in MakerRecord, NEW s \in Seconds, s = Of(m),
         maker' = [maker EXCEPT ![m] = r], r.at # "idle" => r.of = s,
         UNCHANGED <<hasKeys, remote, second, old, begun, shared>>,
         plain' \in [Seconds -> States], enc' \in [Seconds -> States],
         \A k \in Seconds : k # s => plain'[k] = plain[k] /\ enc'[k] = enc[k],
         reported' = reported \/ reported' = reported \union {s},
         broken \subseteq broken', broken' \subseteq Seconds,
         uploaded \subseteq uploaded', uploaded' \subseteq Seconds \X States,
         \A u \in uploaded' : u \notin uploaded => u[1] = s /\ (s \notin shared => u[2] = "whole"),
         s \notin shared =>
            /\ r.at # "idle" => FitsStep(r.at, s)'
            /\ s \in reported' \ reported => (IF hasKeys THEN enc'[s] ELSE plain'[s]) = "whole"
            /\ hasKeys /\ s \notin broken' /\ plain'[s] # "none" => r.at # "idle"
  PROVE  DumpsInv'
<1>1. maker' \in [Makers -> MakerRecord] /\ maker'[m] = r /\ \A v \in Makers : v # m => maker'[v] = maker[v]
  BY MakerHasRecord
<1>2. \A v \in Makers : v # m => (Works(v)' <=> Works(v)) /\ Of(v)' = Of(v)
  BY <1>1 DEF Works, Of
<1>3. (Works(m)' <=> r.at # "idle") /\ Of(m)' = r.of
  BY <1>1 DEF Works, Of
<1>4. s \in begun /\ old = {} /\ (s \notin shared => s \notin reported)
  BY DEF DumpsInv, MakersInv, FitsStep
<1>5. BegunInv'
  <2>1. reported' \subseteq begun'
    BY <1>4 DEF DumpsInv, BegunInv
  <2>2. \A u \in uploaded' : u[1] \in begun'
    BY <1>4 DEF DumpsInv, BegunInv
  <2> QED  BY <2>1, <2>2 DEF DumpsInv, BegunInv
<1>6. DumpsTypeOK'
  <2> QED  BY <1>1 DEF DumpsInv, DumpsTypeOK, MakerRecord
<1>7. ASSUME NEW v \in Makers, v # m, Works(v), Of(v) = s PROVE s \in shared
  BY <1>7 DEF DumpsInv, MakersInv
<1>8. ASSUME NEW v \in Makers, v # m, Works(v), Of(v) \notin shared PROVE FitsStep(maker[v].at, Of(v)) /\ Of(v) # s /\ Of(v) \in Seconds
  BY <1>7, <1>8, MakerHasRecord DEF DumpsInv, MakersInv
<1>9. ASSUME NEW k \in Seconds, k # s, NEW step, FitsStep(step, k) PROVE FitsStep(step, k)'
  BY <1>9 DEF FitsStep
<1>10. MakersInv'
  <2> SUFFICES ASSUME NEW u \in Makers, Works(u)'
               PROVE  /\ Of(u)' \in begun' /\ old' = {}
                      /\ Of(u)' \notin shared' => FitsStep(maker[u].at, Of(u))'
                      /\ \A v \in Makers : v # u /\ Works(v)' /\ Of(v)' = Of(u)' => Of(u)' \in shared'
    BY DEF MakersInv
  <2>1. Of(u)' \in begun' /\ old' = {}
    BY <1>2, <1>3, <1>4 DEF DumpsInv, MakersInv
  <2>2. ASSUME Of(u)' \notin shared' PROVE FitsStep(maker[u].at, Of(u))'
    <3>1. CASE u = m
      <4>1. maker'[u].at = r.at /\ Of(u)' = s /\ r.at # "idle"
        BY <1>1, <1>3, <3>1
      <4> QED  BY <2>2, <4>1 DEF FitsStep
    <3>2. CASE u # m
      <4>1. maker'[u].at = maker[u].at /\ Of(u)' = Of(u) /\ Works(u)
        BY <1>1, <1>2, <3>2
      <4>2. FitsStep(maker[u].at, Of(u)) /\ Of(u) # s /\ Of(u) \in Seconds
        BY <1>8, <2>2, <3>2, <4>1
      <4> QED  BY <4>1, <4>2 DEF FitsStep
    <3> QED  BY <3>1, <3>2
  <2>3. ASSUME NEW v \in Makers, v # u, Works(v)', Of(v)' = Of(u)' PROVE Of(u)' \in shared'
    <3>1. CASE u = m
      BY <1>2, <1>3, <1>7, <2>3, <3>1
    <3>2. CASE v = m
      BY <1>2, <1>3, <1>7, <2>3, <3>2
    <3>3. CASE u # m /\ v # m
      BY <1>2, <2>3, <3>3 DEF DumpsInv, MakersInv
    <3> QED  BY <3>1, <3>2, <3>3
  <2> QED  BY <2>1, <2>2, <2>3
<1>11. ASSUME NEW k \in Seconds, k # s PROVE SecondInv(k)'
  <2> SUFFICES ASSUME k \notin shared PROVE SecondInv(k)'
    BY DEF SecondInv
  <2>0. /\ k \in reported => (IF hasKeys THEN enc[k] ELSE plain[k]) = "whole"
        /\ \A u \in uploaded : u[1] = k => u[2] = "whole"
        /\ hasKeys /\ k \notin broken /\ plain[k] # "none" => \E v \in Makers : Works(v) /\ Of(v) = k
    BY DEF DumpsInv, SecondInv
  <2>1. k \in reported' => (IF hasKeys THEN enc'[k] ELSE plain'[k]) = "whole"
    BY <1>11, <2>0
  <2>2. \A u \in uploaded' : u[1] = k => u[2] = "whole"
    BY <1>11, <2>0
  <2>3. \A v \in Makers : Works(v) /\ Of(v) = k => Works(v)' /\ Of(v)' = k
    BY <1>2, <1>11
  <2>4. hasKeys /\ k \notin broken' /\ plain'[k] # "none" => \E v \in Makers : Works(v)' /\ Of(v)' = k
    BY <1>11, <2>0, <2>3
  <2> QED  BY <2>1, <2>2, <2>4 DEF SecondInv
<1>12. SecondInv(s)'
  <2> SUFFICES ASSUME s \notin shared PROVE SecondInv(s)'
    BY DEF SecondInv
  <2>1. s \in reported' => (IF hasKeys THEN enc'[s] ELSE plain'[s]) = "whole"
    BY <1>4
  <2>2. \A u \in uploaded' : u[1] = s => u[2] = "whole"
    BY DEF DumpsInv, SecondInv
  <2>3. hasKeys /\ s \notin broken' /\ plain'[s] # "none" => Works(m)' /\ Of(m)' = s
    BY <1>3
  <2> QED  BY <2>1, <2>2, <2>3 DEF SecondInv
<1> QED  BY <1>5, <1>6, <1>10, <1>11, <1>12 DEF DumpsInv

LEMMA BeginKeeps == ASSUME DumpsInv, NEW m \in Makers, BeginBackup(m) PROVE DumpsInv'
<1>1. PICK s \in Seconds : s = second
  BY DEF DumpsInv, DumpsTypeOK
<1>2. /\ maker[m] = NoMaker /\ maker' = [maker EXCEPT ![m] = [at |-> "dump", of |-> s]]
      /\ plain' = [Without(plain, old) EXCEPT ![s] = "half"] /\ enc' = Without(enc, old)
      /\ old' = {} /\ reported' = reported \ old
      /\ begun' = begun \union {s} /\ shared' = shared \union (begun \intersect {s})
      /\ UNCHANGED <<hasKeys, remote, second, uploaded, broken>>
  BY <1>1 DEF BeginBackup, Stale, Settings
<1>3. /\ plain' \in [Seconds -> States] /\ enc' \in [Seconds -> States]
      /\ plain'[s] = "half"
      /\ \A k \in Seconds : k # s /\ k \notin old => plain'[k] = plain[k] /\ enc'[k] = enc[k]
      /\ \A k \in Seconds : k # s /\ plain'[k] # "none" => plain[k] # "none"
  BY <1>2 DEF DumpsInv, DumpsTypeOK, Without, States
<1>4. [at |-> "dump", of |-> s] \in MakerRecord
  BY DEF MakerRecord, Steps
<1>5. /\ maker' \in [Makers -> MakerRecord] /\ maker'[m].at = "dump" /\ maker'[m].of = s
      /\ \A v \in Makers : v # m => maker'[v] = maker[v]
  BY <1>2, <1>4, MakerHasRecord
<1>6. ~Works(m) /\ Works(m)' /\ Of(m)' = s /\ \A v \in Makers : v # m => (Works(v)' <=> Works(v)) /\ Of(v)' = Of(v)
  BY <1>2, <1>5, NobodyIsMaker DEF Works, Of
<1>7. DumpsTypeOK'
  BY <1>2, <1>3, <1>5 DEF DumpsInv, DumpsTypeOK, MakerRecord
<1>8. BegunInv'
  <2>1. s \in 0..second
    BY <1>1 DEF Seconds
  <2> QED  BY <1>2, <2>1 DEF DumpsInv, BegunInv
<1>9. s \in shared' \/ s \notin begun
  BY <1>2
<1>10. MakersInv'
  <2> SUFFICES ASSUME NEW u \in Makers, Works(u)'
               PROVE  /\ Of(u)' \in begun' /\ old' = {}
                      /\ Of(u)' \notin shared' => FitsStep(maker[u].at, Of(u))'
                      /\ \A v \in Makers : v # u /\ Works(v)' /\ Of(v)' = Of(u)' => Of(u)' \in shared'
    BY DEF MakersInv
  <2>1. Of(u)' \in begun' /\ old' = {}
    BY <1>2, <1>6 DEF DumpsInv, MakersInv
  <2>2. ASSUME Of(u)' \notin shared' PROVE FitsStep(maker[u].at, Of(u))'
    <3>1. CASE u = m
      <4>1. s \notin reported'
        BY <1>2, <1>6, <1>9, <2>2, <3>1 DEF DumpsInv, BegunInv
      <4> QED  BY <1>5, <1>6, <3>1, <4>1 DEF FitsStep
    <3>2. CASE u # m
      <4>1. maker'[u].at = maker[u].at /\ Of(u)' = Of(u) /\ Works(u) /\ Of(u) \in Seconds
        BY <1>5, <1>6, <3>2, MakerHasRecord
      <4>2. FitsStep(maker[u].at, Of(u)) /\ old = {} /\ Of(u) \in begun
        BY <1>2, <2>2, <4>1 DEF DumpsInv, MakersInv
      <4>3. Of(u) # s
        BY <1>9, <2>2, <4>1, <4>2
      <4> QED  BY <1>2, <1>3, <4>1, <4>2, <4>3 DEF FitsStep
    <3> QED  BY <3>1, <3>2
  <2>3. ASSUME NEW v \in Makers, v # u, Works(v)', Of(v)' = Of(u)' PROVE Of(u)' \in shared'
    <3>1. CASE u # m /\ v # m
      BY <1>2, <1>6, <2>3, <3>1 DEF DumpsInv, MakersInv
    <3>2. CASE u = m \/ v = m
      <4>1. s \in begun
        BY <1>6, <2>3, <3>2 DEF DumpsInv, MakersInv
      <4> QED  BY <1>6, <1>9, <2>3, <3>2, <4>1
    <3> QED  BY <3>1, <3>2
  <2> QED  BY <2>1, <2>2, <2>3
<1>11. ASSUME NEW k \in Seconds, k \notin shared' PROVE SecondInv(k)'
  <2>0. /\ k \in reported => (IF hasKeys THEN enc[k] ELSE plain[k]) = "whole"
        /\ \A u \in uploaded : u[1] = k => u[2] = "whole"
        /\ hasKeys /\ k \notin broken /\ plain[k] # "none" => \E v \in Makers : Works(v) /\ Of(v) = k
    BY <1>2, <1>11 DEF DumpsInv, SecondInv
  <2>1. k \in reported' => (IF hasKeys THEN enc'[k] ELSE plain'[k]) = "whole"
    <3> SUFFICES ASSUME k \in reported' PROVE (IF hasKeys THEN enc'[k] ELSE plain'[k]) = "whole"
      OBVIOUS
    <3>1. k \in reported /\ k \notin old /\ k \in begun
      BY <1>2 DEF DumpsInv, BegunInv
    <3>2. k # s
      BY <1>9, <1>11, <3>1
    <3> QED  BY <1>3, <2>0, <3>1, <3>2
  <2>2. \A v \in Makers : Works(v) => Works(v)' /\ Of(v)' = Of(v)
    BY <1>6
  <2>3. hasKeys /\ k \notin broken' /\ plain'[k] # "none" => \E v \in Makers : Works(v)' /\ Of(v)' = k
    <3>1. CASE k = s
      BY <1>6, <3>1
    <3>2. CASE k # s
      BY <1>2, <1>3, <2>0, <2>2, <3>2
    <3> QED  BY <3>1, <3>2
  <2> QED  BY <1>2, <2>0, <2>1, <2>3 DEF SecondInv
<1> QED  BY <1>7, <1>8, <1>10, <1>11 DEF DumpsInv, SecondInv

-----------------------------------------------------------------------------
LEMMA DumpEndsKeeps == ASSUME DumpsInv, NEW m \in Makers, DumpEnds(m) PROVE DumpsInv'
<1>1. PICK s \in Seconds : s = Of(m)
  BY MakerHasRecord
<1>r. PICK r \in MakerRecord : r = [maker[m] EXCEPT !.at = IF hasKeys THEN "encrypt" ELSE "store"]
  BY MakerHasRecord DEF MakerRecord, Steps
<1> DEFINE state == IF \E v \in Makers \ {m} : At(v, "dump") /\ Of(v) = Of(m) THEN "half" ELSE "whole"
<1>2. /\ maker[m].at = "dump" /\ maker' = [maker EXCEPT ![m] = r] /\ plain' = [plain EXCEPT ![s] = state]
      /\ UNCHANGED <<hasKeys, remote, second, enc, old, reported, uploaded, begun, shared, broken>>
  BY <1>1, <1>r DEF DumpEnds, Settings, At, MakerGoes
<1>3. Works(m)
  BY <1>2 DEF Works
<1>4. r.at = (IF hasKeys THEN "encrypt" ELSE "store") /\ r.of = s
  BY <1>1, <1>r, MakerHasRecord DEF MakerRecord, Of
<1>5. s \notin shared => state = "whole" /\ s \notin reported
  BY <1>1, <1>3 DEF DumpsInv, MakersInv, FitsStep, Works, At
<1>6. state \in States
  BY DEF States
<1> HIDE DEF state
<1>7. /\ plain' \in [Seconds -> States] /\ enc' \in [Seconds -> States] /\ plain'[s] = state
      /\ \A k \in Seconds : k # s => plain'[k] = plain[k] /\ enc'[k] = enc[k]
  BY <1>2, <1>6 DEF DumpsInv, DumpsTypeOK
<1>8. hasKeys \in BOOLEAN /\ broken' \subseteq Seconds
  BY <1>2 DEF DumpsInv, DumpsTypeOK
<1>9. s \notin shared => FitsStep(r.at, s)'
  <2> SUFFICES ASSUME s \notin shared PROVE FitsStep(r.at, s)'
    OBVIOUS
  <2>1. plain'[s] = "whole" /\ s \notin reported' /\ hasKeys' = hasKeys
    BY <1>2, <1>5, <1>7
  <2>2. CASE hasKeys
    <3>1. r.at = "encrypt"
      BY <1>4, <2>2
    <3> QED  BY <2>1, <2>2, <3>1 DEF FitsStep
  <2>3. CASE ~hasKeys
    <3>1. r.at = "store"
      BY <1>4, <2>3
    <3> QED  BY <2>1, <2>3, <3>1 DEF FitsStep
  <2> QED  BY <2>2, <2>3
<1>10. r.at # "idle"
  BY <1>4
<1>11. uploaded' = uploaded /\ uploaded' \subseteq Seconds \X States /\ reported' = reported /\ broken \subseteq broken'
  BY <1>2 DEF DumpsInv, DumpsTypeOK
<1> QED  BY <1>1, <1>2, <1>3, <1>4, <1>7, <1>8, <1>9, <1>10, <1>11, MakerStepKeeps

LEMMA FailsKeeps == ASSUME DumpsInv, NEW m \in Makers, MakerFails(m) PROVE DumpsInv'
<1>1. PICK s \in Seconds : s = Of(m)
  BY MakerHasRecord
<1>2. /\ Works(m) /\ maker' = [maker EXCEPT ![m] = NoMaker] /\ broken' = broken \union {s}
      /\ UNCHANGED <<hasKeys, remote, second, plain, enc, old, reported, uploaded, begun, shared>>
  BY <1>1 DEF MakerFails, Settings, At, MakerEnds, Works
<1>3. /\ plain' \in [Seconds -> States] /\ enc' \in [Seconds -> States] /\ broken' \subseteq Seconds
      /\ broken \subseteq broken' /\ s \in broken'
      /\ uploaded' = uploaded /\ uploaded' \subseteq Seconds \X States /\ reported' = reported
  BY <1>2 DEF DumpsInv, DumpsTypeOK
<1> QED  BY <1>1, <1>2, <1>3, NobodyIsMaker, MakerStepKeeps

LEMMA EncryptKeeps == ASSUME DumpsInv, NEW m \in Makers, Encrypt(m) PROVE DumpsInv'
<1>1. PICK s \in Seconds : s = Of(m)
  BY MakerHasRecord
<1>2. /\ maker[m].at = "encrypt"
      /\ UNCHANGED <<hasKeys, remote, second, plain, old, reported, uploaded, begun, shared, broken>>
  BY DEF Encrypt, Settings, At
<1>3. Works(m)
  BY <1>2 DEF Works
<1>4. s \notin shared => hasKeys /\ plain[s] = "whole" /\ s \notin reported
  BY <1>1, <1>2, <1>3 DEF DumpsInv, MakersInv, FitsStep
<1>5. /\ plain' \in [Seconds -> States] /\ broken' \subseteq Seconds /\ broken \subseteq broken'
      /\ uploaded' = uploaded /\ uploaded' \subseteq Seconds \X States /\ reported' = reported
  BY <1>2 DEF DumpsInv, DumpsTypeOK
<1>6. CASE plain[s] = "none"
  <2>1. maker' = [maker EXCEPT ![m] = NoMaker] /\ enc' = enc
    BY <1>1, <1>6 DEF Encrypt, MakerEnds
  <2>2. enc' \in [Seconds -> States] /\ s \in shared
    BY <1>4, <1>6, <2>1 DEF DumpsInv, DumpsTypeOK
  <2> QED  BY <1>1, <1>2, <1>3, <1>5, <2>1, <2>2, NobodyIsMaker, MakerStepKeeps
<1>7. CASE plain[s] # "none"
  <2>r. PICK r \in MakerRecord : r = [maker[m] EXCEPT !.at = "unlink"]
    BY MakerHasRecord DEF MakerRecord, Steps
  <2>1. maker' = [maker EXCEPT ![m] = r] /\ enc' = [enc EXCEPT ![s] = plain[s]]
    BY <1>1, <1>7, <2>r DEF Encrypt, MakerGoes
  <2>2. r.at = "unlink" /\ r.of = s
    BY <1>1, <2>r, MakerHasRecord DEF MakerRecord, Of
  <2>3. enc' \in [Seconds -> States] /\ enc'[s] = plain[s] /\ \A k \in Seconds : k # s => enc'[k] = enc[k] /\ plain'[k] = plain[k]
    BY <1>2, <2>1 DEF DumpsInv, DumpsTypeOK
  <2>4. s \notin shared => FitsStep(r.at, s)'
    BY <1>2, <1>4, <2>2, <2>3 DEF FitsStep
  <2>5. r.at # "idle"
    BY <2>2
  <2> QED  BY <1>1, <1>2, <1>3, <1>5, <2>1, <2>2, <2>3, <2>4, <2>5, MakerStepKeeps
<1> QED  BY <1>6, <1>7

LEMMA UnlinkKeeps == ASSUME DumpsInv, NEW m \in Makers, Unlink(m) PROVE DumpsInv'
<1>1. PICK s \in Seconds : s = Of(m)
  BY MakerHasRecord
<1>r. PICK r \in MakerRecord : r = [maker[m] EXCEPT !.at = "store"]
  BY MakerHasRecord DEF MakerRecord, Steps
<1>2. /\ maker[m].at = "unlink" /\ maker' = [maker EXCEPT ![m] = r] /\ plain' = [plain EXCEPT ![s] = "none"]
      /\ UNCHANGED <<hasKeys, remote, second, enc, old, reported, uploaded, begun, shared, broken>>
  BY <1>1, <1>r DEF Unlink, Settings, At, MakerGoes
<1>3. Works(m)
  BY <1>2 DEF Works
<1>4. s \notin shared => hasKeys /\ enc[s] = "whole" /\ s \notin reported
  BY <1>1, <1>2, <1>3 DEF DumpsInv, MakersInv, FitsStep
<1>5. r.at = "store" /\ r.of = s
  BY <1>1, <1>r, MakerHasRecord DEF MakerRecord, Of
<1>6. /\ plain' \in [Seconds -> States] /\ enc' \in [Seconds -> States] /\ plain'[s] = "none"
      /\ broken' \subseteq Seconds /\ broken \subseteq broken'
      /\ \A k \in Seconds : k # s => plain'[k] = plain[k] /\ enc'[k] = enc[k]
      /\ uploaded' = uploaded /\ uploaded' \subseteq Seconds \X States /\ reported' = reported
  BY <1>2 DEF DumpsInv, DumpsTypeOK, States
<1>7. s \notin shared => FitsStep(r.at, s)'
  BY <1>2, <1>4, <1>5, <1>6 DEF FitsStep
<1>8. r.at # "idle"
  BY <1>5
<1> QED  BY <1>1, <1>2, <1>3, <1>5, <1>6, <1>7, <1>8, MakerStepKeeps

LEMMA StoreKeeps == ASSUME DumpsInv, NEW m \in Makers, Store(m) PROVE DumpsInv'
<1>1. PICK s \in Seconds, final \in States : s = Of(m) /\ final = Final(m)
  BY MakerHasRecord DEF Final, DumpsInv, DumpsTypeOK
<1>2. /\ maker[m].at = "store" /\ maker' = [maker EXCEPT ![m] = NoMaker]
      /\ UNCHANGED <<hasKeys, remote, second, old, begun, shared, broken>>
  BY DEF Store, Settings, At, MakerEnds
<1>3. Works(m)
  BY <1>2 DEF Works
<1>4. s \notin shared => /\ final = "whole" /\ s \notin reported /\ (hasKeys => plain[s] = "none")
                         /\ (IF hasKeys THEN enc[s] ELSE plain[s]) = "whole"
  BY <1>1, <1>2, <1>3 DEF DumpsInv, MakersInv, FitsStep, Final
<1>5. plain \in [Seconds -> States] /\ enc \in [Seconds -> States] /\ broken' \subseteq Seconds /\ broken \subseteq broken'
  BY <1>2 DEF DumpsInv, DumpsTypeOK
<1>6. CASE reported' = reported \union {s} /\ UNCHANGED <<plain, enc, uploaded>>
  <2>1. uploaded' = uploaded /\ uploaded' \subseteq Seconds \X States
    BY <1>6 DEF DumpsInv, DumpsTypeOK
  <2> QED  BY <1>1, <1>2, <1>3, <1>4, <1>5, <1>6, <2>1, NobodyIsMaker, MakerStepKeeps
<1>7. CASE UNCHANGED <<plain, enc, reported, uploaded>>
  <2>1. uploaded' = uploaded /\ uploaded' \subseteq Seconds \X States
    BY <1>7 DEF DumpsInv, DumpsTypeOK
  <2> QED  BY <1>1, <1>2, <1>3, <1>4, <1>5, <1>7, <2>1, NobodyIsMaker, MakerStepKeeps
<1>8. CASE /\ uploaded' = uploaded \union {<<s, final>>} /\ reported' = reported
           /\ IF hasKeys THEN enc' = [enc EXCEPT ![s] = "none"] /\ UNCHANGED plain
                      ELSE plain' = [plain EXCEPT ![s] = "none"] /\ UNCHANGED enc
  <2>1. /\ uploaded \subseteq uploaded' /\ uploaded' \subseteq Seconds \X States
        /\ \A u \in uploaded' : u \notin uploaded => u[1] = s /\ (s \notin shared => u[2] = "whole")
    BY <1>4, <1>8 DEF DumpsInv, DumpsTypeOK
  <2>2. /\ plain' \in [Seconds -> States] /\ enc' \in [Seconds -> States]
        /\ \A k \in Seconds : k # s => plain'[k] = plain[k] /\ enc'[k] = enc[k]
        /\ hasKeys => plain'[s] = plain[s]
    <3>1. CASE hasKeys
      BY <1>5, <1>8, <3>1 DEF States
    <3>2. CASE ~hasKeys
      BY <1>5, <1>8, <3>2 DEF States
    <3> QED  BY <3>1, <3>2
  <2>3. reported' = reported
    BY <1>8
  <2>4. s \notin shared /\ hasKeys => plain'[s] = "none"
    BY <1>4, <2>2
  <2> QED  BY <1>1, <1>2, <1>3, <1>5, <2>1, <2>2, <2>3, <2>4, NobodyIsMaker, MakerStepKeeps
<1> QED  BY <1>1, <1>6, <1>7, <1>8 DEF Store

LEMMA TimePassesKeeps == ASSUME DumpsInv, Tick \/ DayPasses PROVE DumpsInv'
<1>1. /\ second < LastSecond /\ second' = second + 1 /\ (old' = old \/ \A m \in Makers : ~Works(m))
      /\ UNCHANGED <<hasKeys, remote, plain, enc, maker, reported, uploaded, begun, shared, broken>>
  BY DEF Tick, DayPasses, Settings, Works, At
<1>2. second' \in Seconds
  BY <1>1, DumpsAssumption DEF DumpsInv, DumpsTypeOK, Seconds
<1>3. 0..second \subseteq 0..second'
  BY <1>1, DumpsAssumption DEF DumpsInv, DumpsTypeOK, Seconds
<1>4. old' \subseteq Seconds
  BY DEF Tick, DayPasses, DumpsInv, DumpsTypeOK
<1>5. DumpsTypeOK'
  BY <1>1, <1>2, <1>4 DEF DumpsInv, DumpsTypeOK
<1>6. BegunInv'
  BY <1>1, <1>3 DEF DumpsInv, BegunInv
<1>7. MakersInv'
  BY <1>1 DEF DumpsInv, MakersInv, FitsStep, Works, Of
<1>8. \A s \in Seconds : SecondInv(s)'
  BY <1>1 DEF DumpsInv, SecondInv, Works, Of
<1> QED  BY <1>5, <1>6, <1>7, <1>8 DEF DumpsInv

LEMMA DumpsInvHolds == DumpsSpec => []DumpsInv
<1>1. DumpsInit => DumpsInv
  <2> SUFFICES ASSUME DumpsInit PROVE DumpsInv
    OBVIOUS
  <2>1. 0 \in Seconds /\ "none" \in States
    BY DumpsAssumption DEF Seconds, States
  <2>2. maker \in [Makers -> MakerRecord] /\ \A m \in Makers : ~Works(m)
    BY NobodyIsMaker DEF DumpsInit, Works
  <2>3. DumpsTypeOK
    BY <2>1, <2>2 DEF DumpsInit, DumpsTypeOK, MakerRecord
  <2>4. BegunInv
    BY DEF DumpsInit, BegunInv
  <2>5. \A s \in Seconds : SecondInv(s)
    BY DEF DumpsInit, SecondInv
  <2> QED  BY <2>2, <2>3, <2>4, <2>5 DEF DumpsInv, MakersInv
<1>2. DumpsInv /\ [DumpsNext]_dumpVars => DumpsInv'
  <2>1. ASSUME DumpsInv, UNCHANGED dumpVars PROVE DumpsInv'
    BY <2>1 DEF dumpVars, DumpsInv, DumpsTypeOK, BegunInv, MakersInv, SecondInv, FitsStep, Works, Of
  <2> QED  BY <2>1, BeginKeeps, DumpEndsKeeps, FailsKeeps, EncryptKeeps, UnlinkKeeps, StoreKeeps, TimePassesKeeps DEF DumpsNext
<1> QED  BY <1>1, <1>2, PTL DEF DumpsSpec

(* For any number of makers and seconds: a backup that was answered for is   *)
(* whole for as long as it is kept, and no dump lies about unencrypted where *)
(* there is a key, unless two makers had the same second or the maker failed *)
(* (legalize_site/backups.py).                                               *)
THEOREM BackupsRestore == DumpsSpec => [](DumpsTypeOK /\ ReportedDumpsRestore)
<1>1. DumpsInv => DumpsTypeOK /\ ReportedDumpsRestore
  <2> SUFFICES ASSUME DumpsInv PROVE ReportedDumpsRestore
    BY DEF DumpsInv
  <2>1. \A s \in Seconds : SecondInv(s)
    BY DEF DumpsInv
  <2>2. reported \subseteq Seconds /\ \A u \in uploaded : u[1] \in Seconds
    BY DEF DumpsInv, DumpsTypeOK
  <2> QED  BY <2>1, <2>2 DEF ReportedDumpsRestore, SecondInv, Works, At
<1> QED  BY <1>1, DumpsInvHolds, PTL

-----------------------------------------------------------------------------
(* The parts together (MCAutomation): a behaviour of one part stutters in    *)
(* the others.                                                               *)

LEMMA PartsFollowTheirSpecs ==
  Spec => RemindersSpec /\ AutomationSpec /\ LettersSpec /\ MediaSpec /\ DumpsSpec
<1>1. Init => RemindersInit /\ AutomationInit /\ LettersInit /\ MediaInit /\ DumpsInit
  BY DEF Init
<1>2. [Next]_allVars => [RemindersNext]_remindersVars
  BY DEF Next, allVars
<1>3. [Next]_allVars => [AutomationNext]_automationVars
  BY DEF Next, allVars
<1>4. [Next]_allVars => [LettersNext]_lettersVars
  BY DEF Next, allVars
<1>5. [Next]_allVars => [MediaNext]_mediaVars
  BY DEF Next, allVars
<1>6. [Next]_allVars => [DumpsNext]_dumpVars
  BY DEF Next, allVars
<1> QED
  BY <1>1, <1>2, <1>3, <1>4, <1>5, <1>6, PTL DEF Spec, RemindersSpec, AutomationSpec, LettersSpec, MediaSpec, DumpsSpec

(* Every row, pass, loop, entry of the cache, letter, file and dump has its  *)
(* type in every behaviour of the whole (models/payment.py,                  *)
(* models/reminder.py, database_media/storage.py, the commands).             *)
THEOREM AutomationHasItsTypes == Spec => []TypeOK
<1>1. MediaInv => MediaTypeOK
  BY DEF MediaInv
<1>2. DumpsInv => DumpsTypeOK
  BY DEF DumpsInv
<1>3. RemindersTypeOK /\ AutomationTypeOK /\ LettersTypeOK /\ MediaTypeOK /\ DumpsTypeOK => TypeOK
  BY DEF TypeOK
<1> QED
  BY <1>1, <1>2, <1>3, PartsFollowTheirSpecs, RemindersHaveTheirTypes, LoopsHaveTheirTypes, LettersHaveTheirTypes,
     MediaInvHolds, DumpsInvHolds, PTL

(* Uploads and dumps outlive the requests and commands that work on them,    *)
(* and go with what they were for (database_media, legalize_site/backups.py). *)
THEOREM UploadsAndDumpsAreKept == Spec => []FilesAreKept
<1>1. FilesStayAndGo /\ ReportedDumpsRestore => FilesAreKept
  BY DEF FilesAreKept
<1> QED  BY <1>1, PartsFollowTheirSpecs, MediaIsKept, BackupsRestore, PTL

(* What the parts promise, the whole promises, in every behaviour that a run *)
(* of it explores and for any number of passes, loops, files and makers.     *)
THEOREM WorkKeepsItsPromises ==
  Spec => [](/\ RemindersMatchDebts /\ OneLegalStayReminder
             /\ OneLoopPerTask /\ GuardedWorkRunsOnce
             /\ NewsGetsOut /\ FilesAreKept)
BY PartsFollowTheirSpecs, SettledPaymentsAreLeftAlone, StayIsRemindedOnce, TwoInATaskMeansOneLate,
   GuardsLetWorkThroughOnce, NewsIsNotHeldBack, UploadsAndDumpsAreKept, PTL
=============================================================================
