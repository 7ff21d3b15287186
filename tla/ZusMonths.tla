------------------------------ MODULE ZusMonths ------------------------------
(***************************************************************************)
(* The months for which a case still owes a ZUS report                     *)
(* (clients/services/zus.py): a calendar with year ends, a window from two *)
(* months before the hearing to the last month whose report is out, the    *)
(* reports and policies of the case, and the list the views, the letters   *)
(* and the alerts all take.                                                *)
(***************************************************************************)
EXTENDS Integers

CONSTANTS
    FirstMonth,  \* the month the behaviours start in, [year, month]
    NumMonths,   \* and how many months they see
    DaysSeen,    \* the days of a month at which the list is looked at
    Papers       \* the papers that may be filed: a kind, and the month of the
                 \* report or of the day the policy ends

ASSUME ZusMonthsAssumption ==
    /\ FirstMonth.year \in Nat \ {0} /\ FirstMonth.month \in 1..12
    /\ NumMonths \in Nat \ {0}
    /\ DaysSeen \subseteq 1..28 /\ DaysSeen # {}
    /\ Papers \subseteq {"rca", "policy"} \X [year : Nat, month : 1..12]

(* add_months: floor division and modulus, the month counted from 0.         *)
AddMonths(value, months) ==
    LET index == value.month - 1 + months IN
    [year |-> value.year + index \div 12, month |-> (index % 12) + 1]

Before(a, b) == \/ a.year < b.year
                \/ a.year = b.year /\ a.month < b.month

NotAfter(a, b) == a = b \/ Before(a, b)

Horizon == {AddMonths(FirstMonth, k) : k \in -3..NumMonths}

(* iter_months, over the months in sight: a start after the end gives none.  *)
IterMonths(start, end) == {m \in Horizon : NotAfter(start, m) /\ NotAfter(m, end)}

VARIABLES
    today,       \* [month, day]
    case,        \* stage, hearing and decision of the case
    filed        \* its live papers: reports by month, policies by expiry

zusVars == <<today, case, filed>>

NoDay == [month |-> [year |-> 0, month |-> 1], day |-> 1]
DaysInSight == [month : {AddMonths(FirstMonth, k) : k \in 0..NumMonths - 1}, day : DaysSeen]

ZusTypeOK ==
    /\ today \in DaysInSight
    /\ case \in [stage : {"fingerprints", "waiting_decision", "decision_received"},
                 hearing : DaysInSight \union {NoDay}, decided : BOOLEAN]
    /\ filed \in [Papers -> {"none", "unverified", "verified"}]

Earlier(a, b) == \/ Before(a.month, b.month)
                 \/ a.month = b.month /\ a.day < b.day

FirstDay == CHOOSE d \in DaysInSight : \A e \in DaysInSight : d = e \/ Earlier(d, e)

ZusInit ==
    /\ today = FirstDay
    /\ case = [stage |-> "fingerprints", hearing |-> NoDay, decided |-> FALSE]
    /\ filed = [p \in Papers |-> "none"]

-----------------------------------------------------------------------------
(* The calendar moves on to the next day in sight.                           *)
DayComes ==
    /\ \E d \in DaysInSight :
          /\ Earlier(today, d)
          /\ \A e \in DaysInSight : Earlier(today, e) => d = e \/ Earlier(d, e)
          /\ today' = d
    /\ UNCHANGED <<case, filed>>

(* The staff edits the case: its hearing, its stage and its decision.        *)
SetHearing(day) ==
    /\ case' = [case EXCEPT !.hearing = day]
    /\ UNCHANGED <<today, filed>>

SetStage(stage, decided) ==
    /\ case' = [case EXCEPT !.stage = stage, !.decided = decided]
    /\ UNCHANGED <<today, filed>>

(* A report or a policy is uploaded, verified or not, and archived.          *)
FilePaper(p) ==
    /\ filed[p] = "none"
    /\ filed' = [filed EXCEPT ![p] = "unverified"]
    /\ UNCHANGED <<today, case>>

TogglePaper(p) ==
    /\ filed[p] # "none"
    /\ filed' = [filed EXCEPT ![p] = IF @ = "verified" THEN "unverified" ELSE "verified"]
    /\ UNCHANGED <<today, case>>

ArchivePaper(p) ==
    /\ filed[p] # "none"
    /\ filed' = [filed EXCEPT ![p] = "none"]
    /\ UNCHANGED <<today, case>>

ZusNext ==
    \/ DayComes
    \/ \E day \in DaysInSight \union {NoDay} : SetHearing(day)
    \/ \E stage \in {"fingerprints", "waiting_decision", "decision_received"}, decided \in BOOLEAN :
          SetStage(stage, decided)
    \/ \E p \in Papers : FilePaper(p) \/ TogglePaper(p) \/ ArchivePaper(p)

ZusSpec == ZusInit /\ [][ZusNext]_zusVars

-----------------------------------------------------------------------------
\* fault: the report of last month is asked for a day late
LastExpectedLate == AddMonths(today.month, IF today.day > 17 THEN -1 ELSE -2)

(* The report of a month is out on the 17th of the next.                     *)
LastExpected == AddMonths(today.month, IF today.day >= 17 THEN -1 ELSE -2)

Heard == case.hearing # NoDay /\ ~Earlier(today, case.hearing)

ExpectedZusMonths ==
    IF Heard THEN IterMonths(AddMonths(case.hearing.month, -2), LastExpected) ELSE {}

Verified(kind) == {p[2] : p \in {q \in Papers : q[1] = kind /\ filed[q] = "verified"}}

(* missing_zus_months: the latest verified policy covers every month up to   *)
(* the one it expires in, whenever it began.                                 *)
MissingZusMonths ==
    IF case.stage # "waiting_decision" \/ ~Heard \/ case.decided THEN {}
    ELSE {m \in ExpectedZusMonths \ Verified("rca") :
             \A until \in Verified("policy") : Before(until, m)}

Index(m) == 12 * m.year + m.month

IsOut(m) ==
    \/ Index(m) + 2 <= Index(today.month)
    \/ Index(m) + 1 = Index(today.month) /\ today.day \in 17..31

(* A month is asked for exactly when the case waits for its decision, the    *)
(* month is one of the two before the hearing or a later one, its report has *)
(* been out since the 17th, and no verified report or policy of the case     *)
(* answers for it: counted in months since year 0, with no calendar          *)
(* arithmetic (zus.py:21-97).                                                *)
MissingIsExact ==
    \A m \in Horizon :
        m \in MissingZusMonths <=>
            /\ case.stage = "waiting_decision" /\ ~case.decided
            /\ case.hearing \in DaysInSight
            /\ \/ Index(case.hearing.month) < Index(today.month)
               \/ case.hearing.month = today.month /\ case.hearing.day <= today.day
            /\ Index(m) >= Index(case.hearing.month) - 2
            /\ IsOut(m)
            /\ \A p \in Papers : filed[p] = "verified" =>
                   /\ p[1] = "rca" => p[2] # m
                   /\ p[1] = "policy" => Index(p[2]) < Index(m)
=============================================================================
