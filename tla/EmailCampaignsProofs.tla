------------------------ MODULE EmailCampaignsProofs ------------------------
(* Theorems about EmailCampaigns, for any number of campaigns, recipients,  *)
(* processes, attempts and mishaps.                                         *)
EXTENDS EmailCampaigns, FiniteSetTheorems, TLAPS

-----------------------------------------------------------------------------
(* Type correctness *)

\* A set of recipients has a number of members.
LEMMA RecipientsCount ==
  ASSUME NEW S \in SUBSET Recipients
  PROVE  Cardinality(S) \in Nat
<1>1. IsFiniteSet(Recipients)
  BY FS_Interval, ConstantsAssumption DEF Recipients
<1> QED  BY <1>1, FS_Subset, FS_CardinalityType

LEMMA FreshType ==
  ASSUME NEW pc \in {"idle", "dispatch"}, NEW queue \in SUBSET Campaigns
  PROVE  Fresh(pc, queue) \in Worker
BY ConstantsAssumption DEF Fresh, Worker

LEMMA TypeInit == Init => TypeOK
<1> SUFFICES ASSUME Init PROVE TypeOK
  OBVIOUS
<1>1. campaign \in [Campaigns -> Campaign]
  BY DEF Init, Campaign, Status
<1>2. worker \in [Workers -> Worker]
  BY FreshType DEF Init, Idle
<1>3. mishaps \in 0..MaxMishaps
  BY ConstantsAssumption DEF Init
<1> QED  BY <1>1, <1>2, <1>3 DEF TypeOK, Init

\* A table with one row replaced by a well-formed row.
LEMMA RowType ==
  ASSUME TypeOK, NEW c \in Campaigns, NEW row \in Campaign,
         campaign' = [campaign EXCEPT ![c] = row]
  PROVE  campaign' \in [Campaigns -> Campaign]
BY DEF TypeOK

LEMMA AdvanceType ==
  ASSUME TypeOK, NEW w \in Workers, NEW c \in Campaigns, Advance(w, c)
  PROVE  worker' \in [Workers -> Worker]
<1>1. worker[w].queue \ {c} \in SUBSET Campaigns
  BY DEF TypeOK, Worker
<1> QED  BY <1>1, FreshType DEF Advance, TypeOK

LEMMA TypePass ==
  ASSUME TypeOK, NEW w \in Workers, ListPending(w) \/ EndPass(w) \/ Crash(w)
  PROVE  TypeOK'
<1>1. CASE ListPending(w)
  <2>1. FirstRows({c \in Campaigns : Claimable(c)}) \in SUBSET Campaigns
    BY DEF FirstRows
  <2> QED  BY <1>1, <2>1, FreshType DEF TypeOK, ListPending
<1>2. CASE EndPass(w)
  BY <1>2, FreshType DEF TypeOK, EndPass, Idle
<1>3. CASE Crash(w)
  <2>1. mishaps' \in 0..MaxMishaps
    BY <1>3, ConstantsAssumption DEF Crash, Mishap, TypeOK
  <2>2. worker' \in [Workers -> Worker]
    BY <1>3, FreshType DEF Crash, TypeOK, Idle
  <2>3. unsure' \subseteq Campaigns \X Recipients
    BY <1>3 DEF Crash, TypeOK
  <2> QED  BY <1>3, <2>1, <2>2, <2>3 DEF TypeOK, Crash
<1> QED  BY <1>1, <1>2, <1>3

LEMMA TypeClaim ==
  ASSUME TypeOK, NEW w \in Workers, NEW c \in Campaigns,
         StartOne(w, c) \/ Claim(w, c) \/ SkipClaim(w, c)
  PROVE  TypeOK'
<1>1. CASE StartOne(w, c)
  <2>1. worker' \in [Workers -> Worker]
    BY <1>1, FreshType DEF StartOne, TypeOK
  <2> QED  BY <1>1, <2>1 DEF TypeOK, StartOne
<1>2. CASE Claim(w, c)
  <2> DEFINE row == [campaign[c] EXCEPT !.status = "running", !.stale = FALSE]
  <2>0. campaign[c] \in Campaign
    BY DEF TypeOK
  <2>r. row \in Campaign
    BY <2>0 DEF Campaign, Status
  <2>1. campaign' \in [Campaigns -> Campaign]
    <3>1. campaign' = [campaign EXCEPT ![c] = row]
      BY <1>2 DEF Claim, TypeOK, Campaign
    <3> HIDE DEF row
    <3> QED  BY <2>r, <3>1, RowType
  <2>2. worker' \in [Workers -> Worker]
    BY <1>2 DEF Claim, TypeOK, Worker
  <2> QED  BY <1>2, <2>1, <2>2 DEF TypeOK, Claim
<1>3. CASE SkipClaim(w, c)
  BY <1>3, AdvanceType DEF TypeOK, SkipClaim
<1> QED  BY <1>1, <1>2, <1>3

LEMMA TypeEnds ==
  ASSUME TypeOK, NEW w \in Workers, NEW c \in Campaigns,
         NoRecipients(w, c) \/ Load(w, c) \/ Finish(w, c)
  PROVE  TypeOK'
<1>1. CASE NoRecipients(w, c)
  <2> DEFINE row == [campaign[c] EXCEPT !.status = "failed", !.stale = FALSE]
  <2>0. campaign[c] \in Campaign
    BY DEF TypeOK
  <2>r. row \in Campaign
    BY <2>0 DEF Campaign, Status
  <2>1. campaign' \in [Campaigns -> Campaign]
    <3>1. campaign' = [campaign EXCEPT ![c] = row]
      BY <1>1 DEF NoRecipients, TypeOK, Campaign
    <3> HIDE DEF row
    <3> QED  BY <2>r, <3>1, RowType
  <2>2. worker' \in [Workers -> Worker]
    BY <1>1, AdvanceType DEF NoRecipients
  <2> QED  BY <1>1, <2>1, <2>2 DEF TypeOK, NoRecipients
<1>2. CASE Load(w, c)
  <2> DEFINE already == {r \in campaign[c].to : log[c][r] = "sent"}
             loaded == [worker[w] EXCEPT !.pc = "send", !.todo = campaign[c].to \ already,
                                         !.sent = Cardinality(already)]
  <2>1. campaign[c].to \in SUBSET Recipients /\ already \in SUBSET Recipients
    BY DEF TypeOK, Campaign
  <2>2. Cardinality(already) \in Nat
    BY <2>1, RecipientsCount
  <2>3. worker' = [worker EXCEPT ![w] = loaded]
    BY <1>2 DEF Load, TypeOK, Worker
  <2>4. loaded \in Worker
    <3> HIDE DEF already
    <3> QED  BY <2>1, <2>2 DEF TypeOK, Worker
  <2> HIDE DEF loaded
  <2> QED  BY <1>2, <2>3, <2>4 DEF TypeOK, Load
<1>3. CASE Finish(w, c)
  <2> DEFINE row == [campaign[c] EXCEPT !.sent = worker[w].sent,
       !.failed = worker[w].failed, !.stale = FALSE,
       !.status = IF worker[w].failed = 0 THEN "completed" ELSE "failed"]
  <2>r. row \in Campaign
    <3>1. campaign[c] \in Campaign /\ worker[w] \in Worker
      BY DEF TypeOK
    <3>2. worker[w].sent \in Nat /\ worker[w].failed \in Nat
      BY <3>1 DEF Worker
    <3> QED  BY <3>1, <3>2 DEF Campaign, Status
  <2>1. campaign' \in [Campaigns -> Campaign]
    <3>1. campaign' = [campaign EXCEPT ![c] = row]
      BY <1>3 DEF Finish, TypeOK, Campaign
    <3> HIDE DEF row
    <3> QED  BY <2>r, <3>1, RowType
  <2>2. worker' \in [Workers -> Worker]
    BY <1>3, AdvanceType DEF Finish
  <2> QED  BY <1>3, <2>1, <2>2 DEF TypeOK, Finish
<1> QED  BY <1>1, <1>2, <1>3

LEMMA OutcomeType ==
  ASSUME TypeOK, NEW w \in Workers, NEW ok \in BOOLEAN, Outcome(w, ok)
  PROVE  worker' \in [Workers -> Worker]
<1> DEFINE me == worker[w]
           next == [pc |-> "log", queue |-> me.queue, todo |-> me.todo, attempt |-> 1,
                    ok |-> ok, sent |-> IF ok THEN me.sent + 1 ELSE me.sent,
                    failed |-> IF ok THEN me.failed ELSE me.failed + 1]
<1>1. me \in Worker /\ 1 \in 1..Attempts
  BY ConstantsAssumption DEF TypeOK
<1>2. /\ me.queue \in SUBSET Campaigns /\ me.todo \in SUBSET Recipients
      /\ me.sent \in Nat /\ me.failed \in Nat
  BY <1>1 DEF Worker
<1>3. next \in Worker
  <2> HIDE DEF me
  <2> QED  BY <1>1, <1>2 DEF Worker
<1>4. worker' = [worker EXCEPT ![w] = next]
  BY DEF Outcome, TypeOK
<1> HIDE DEF next
<1> QED  BY <1>3, <1>4 DEF TypeOK

LEMMA FailedAttemptType ==
  ASSUME TypeOK, NEW w \in Workers, AfterFailedAttempt(w)
  PROVE  worker' \in [Workers -> Worker]
<1>1. CASE worker[w].attempt < Attempts
  <2> DEFINE next == [worker[w] EXCEPT !.attempt = worker[w].attempt + 1]
  <2>1. worker[w] \in Worker /\ worker[w].attempt + 1 \in 1..Attempts
    BY <1>1, ConstantsAssumption DEF TypeOK, Worker
  <2>2. next \in Worker
    BY <2>1, Zenon DEF Worker
  <2>3. worker' = [worker EXCEPT ![w] = next]
    BY <1>1, Zenon DEF AfterFailedAttempt, TypeOK
  <2> HIDE DEF next
  <2> QED  BY <2>2, <2>3 DEF TypeOK
<1>2. CASE ~(worker[w].attempt < Attempts)
  BY <1>2, OutcomeType DEF AfterFailedAttempt
<1> QED  BY <1>1, <1>2

LEMMA TypeSend ==
  ASSUME TypeOK, NEW w \in Workers, NEW c \in Campaigns, NEW r \in Recipients,
         SendStep(w, c, r)
  PROVE  TypeOK'
<1>1. CASE Deliver(w, c, r)
  <2>1. delivered' \in [Campaigns -> [Recipients -> Nat]]
    BY <1>1 DEF Deliver, TypeOK
  <2>2. worker' \in [Workers -> Worker]
    BY <1>1, OutcomeType DEF Deliver
  <2> QED  BY <1>1, <2>1, <2>2 DEF TypeOK, Deliver
<1>2. CASE AttemptFails(w, c, r)
  BY <1>2, FailedAttemptType DEF TypeOK, AttemptFails
<1>3. CASE AnswerLost(w, c, r)
  <2>1. delivered' \in [Campaigns -> [Recipients -> Nat]]
    BY <1>3 DEF AnswerLost, TypeOK
  <2>2. worker' \in [Workers -> Worker]
    BY <1>3, FailedAttemptType DEF AnswerLost
  <2>3. mishaps' \in 0..MaxMishaps
    BY <1>3, ConstantsAssumption DEF AnswerLost, Mishap, TypeOK
  <2> QED  BY <1>3, <2>1, <2>2, <2>3 DEF TypeOK, AnswerLost
<1>4. CASE Refused(w, c, r)
  <2>1. worker' \in [Workers -> Worker]
    BY <1>4, OutcomeType DEF Refused
  <2> QED  BY <1>4, <2>1 DEF TypeOK, Refused
<1>5. CASE Record(w, c, r)
  <2>1. log' \in [Campaigns -> [Recipients -> {"none", "sent", "failed"}]]
    BY <1>5 DEF Record, TypeOK
  <2>2. worker' \in [Workers -> Worker]
    BY <1>5 DEF Record, TypeOK, Worker
  <2> QED  BY <1>5, <2>1, <2>2 DEF TypeOK, Record
<1>6. CASE RecordLost(w, c, r)
  <2>1. worker' \in [Workers -> Worker]
    BY <1>6 DEF RecordLost, TypeOK, Worker
  <2>2. mishaps' \in 0..MaxMishaps
    BY <1>6, ConstantsAssumption DEF RecordLost, Mishap, TypeOK
  <2>3. unsure' \subseteq Campaigns \X Recipients
    BY <1>6 DEF RecordLost, TypeOK
  <2> QED  BY <1>6, <2>1, <2>2, <2>3 DEF TypeOK, RecordLost
<1>7. CASE Count(w, c, r)
  <2> DEFINE row == [campaign[c] EXCEPT !.sent = worker[w].sent, !.failed = worker[w].failed]
  <2>r. row \in Campaign
    <3>1. campaign[c] \in Campaign /\ worker[w] \in Worker
      BY DEF TypeOK
    <3>2. worker[w].sent \in Nat /\ worker[w].failed \in Nat
      BY <3>1 DEF Worker
    <3> QED  BY <3>1, <3>2 DEF Campaign, Status
  <2>1. campaign' \in [Campaigns -> Campaign]
    <3>1. campaign' = [campaign EXCEPT ![c] = row]
      BY <1>7 DEF Count, TypeOK, Campaign
    <3> HIDE DEF row
    <3> QED  BY <2>r, <3>1, RowType
  <2>2. worker' \in [Workers -> Worker]
    <3> DEFINE next == [worker[w] EXCEPT !.pc = "send", !.todo = worker[w].todo \ {r}]
    <3>1. worker[w] \in Worker /\ worker[w].todo \ {r} \in SUBSET Recipients
      BY DEF TypeOK, Worker
    <3>2. next \in Worker
      BY <3>1, Zenon DEF Worker
    <3>3. worker' = [worker EXCEPT ![w] = next]
      BY <1>7, Zenon DEF Count, TypeOK
    <3> HIDE DEF next
    <3> QED  BY <3>2, <3>3 DEF TypeOK
  <2> QED  BY <1>7, <2>1, <2>2 DEF TypeOK, Count
<1> QED  BY <1>1, <1>2, <1>3, <1>4, <1>5, <1>6, <1>7 DEF SendStep

LEMMA TypeRow ==
  ASSUME TypeOK, NEW c \in Campaigns,
         Queue(c) \/ OrphanGoesStale(c) \/ SendOutlastsCutoff(c) \/ ClearPayload(c)
  PROVE  TypeOK'
<1>1. CASE Queue(c)
  <2>1. PICK to \in SUBSET Recipients :
           /\ campaign' = [campaign EXCEPT ![c].status = "pending", ![c].to = to]
           /\ audience' = [audience EXCEPT ![c] = to]
    BY <1>1 DEF Queue
  <2> DEFINE row == [campaign[c] EXCEPT !.status = "pending", !.to = to]
  <2>2. row \in Campaign
    BY DEF TypeOK, Campaign, Status
  <2>3. campaign' \in [Campaigns -> Campaign]
    <3>1. campaign' = [campaign EXCEPT ![c] = row]
      BY <2>1 DEF TypeOK, Campaign
    <3> HIDE DEF row
    <3> QED  BY <2>2, <3>1, RowType
  <2>4. audience' \in [Campaigns -> SUBSET Recipients]
    BY <2>1 DEF TypeOK
  <2> QED  BY <1>1, <2>3, <2>4 DEF TypeOK, Queue
<1>2. CASE OrphanGoesStale(c)
  <2>1. campaign' \in [Campaigns -> Campaign]
    BY <1>2 DEF OrphanGoesStale, TypeOK, Campaign
  <2> QED  BY <1>2, <2>1 DEF TypeOK, OrphanGoesStale
<1>3. CASE SendOutlastsCutoff(c)
  <2>1. campaign' \in [Campaigns -> Campaign]
    BY <1>3 DEF SendOutlastsCutoff, TypeOK, Campaign
  <2>2. mishaps' \in 0..MaxMishaps
    BY <1>3, ConstantsAssumption DEF SendOutlastsCutoff, Mishap, TypeOK
  <2> QED  BY <1>3, <2>1, <2>2 DEF TypeOK, SendOutlastsCutoff
<1>4. CASE ClearPayload(c)
  <2>1. campaign' \in [Campaigns -> Campaign]
    BY <1>4 DEF ClearPayload, TypeOK, Campaign
  <2> QED  BY <1>4, <2>1 DEF TypeOK, ClearPayload
<1> QED  BY <1>1, <1>2, <1>3, <1>4

LEMMA TypeStep == TypeOK /\ [Next]_vars => TypeOK'
<1> SUFFICES ASSUME TypeOK, [Next]_vars PROVE TypeOK'
  OBVIOUS
<1>1. CASE UNCHANGED vars
  BY <1>1 DEF TypeOK, vars
<1>2. CASE Next
  BY <1>2, TypePass, TypeClaim, TypeEnds, TypeSend, TypeRow DEF Next, WorkerStep
<1> QED  BY <1>1, <1>2

\* The tables, the workers and the counters keep their types in every
\* behaviour of the queue.
THEOREM TypeCorrect == Spec => []TypeOK
<1> QED  BY TypeInit, TypeStep, PTL DEF Spec

-----------------------------------------------------------------------------
(* One sender at a time.  The invariant also says what state the row is in   *)
(* while somebody is on it: a running campaign that is not stale, which is   *)
(* what nobody else can claim.                                               *)

OneInv ==
  \A c \in Campaigns \ slow : \A w \in Workers : On(w, c) =>
    /\ campaign[c].status = "running"
    /\ ~campaign[c].stale
    /\ \A v \in Workers : On(v, c) => v = w

LEMMA FirstIsUnique ==
  ASSUME NEW S \in SUBSET Int, NEW x, NEW y, IsFirst(x, S), IsFirst(y, S)
  PROVE  x = y
BY DEF IsFirst

LEMMA CampaignsAreIntegers == Campaigns \subseteq Int /\ Recipients \subseteq Int
BY ConstantsAssumption DEF Campaigns, Recipients

LEMMA OneOnEach ==
  ASSUME TypeOK, NEW w \in Workers, NEW c \in Campaigns, NEW d \in Campaigns,
         On(w, c), On(w, d)
  PROVE  c = d
<1>1. worker[w].queue \in SUBSET Int
  BY CampaignsAreIntegers DEF TypeOK, Worker
<1> QED  BY <1>1, FirstIsUnique DEF On

\* A step that puts no process on a campaign, and changes the status or the
\* age only of campaigns left alone, keeps the invariant.
LEMMA OneFrame ==
  ASSUME OneInv, slow \subseteq slow',
         \A v \in Workers, d \in Campaigns : On(v, d)' => On(v, d),
         \A d \in Campaigns \ slow' :
            \/ /\ campaign'[d].status = campaign[d].status
               /\ campaign'[d].stale = campaign[d].stale
            \/ \A v \in Workers : ~On(v, d)'
  PROVE  OneInv'
<1> SUFFICES ASSUME NEW c \in Campaigns \ slow', NEW w \in Workers, On(w, c)'
             PROVE  /\ campaign'[c].status = "running"
                    /\ ~campaign'[c].stale
                    /\ \A v \in Workers : On(v, c)' => v = w
  BY DEF OneInv
<1>1. On(w, c) /\ c \in Campaigns \ slow
  OBVIOUS
<1> QED  BY <1>1 DEF OneInv

\* A worker that keeps its list does not change campaigns.
LEMMA KeepsCampaign ==
  ASSUME TypeOK, NEW w \in Workers, Sending(w),
         \A v \in Workers : v # w => worker'[v] = worker[v],
         worker'[w].queue = worker[w].queue
  PROVE  \A v \in Workers, d \in Campaigns : On(v, d)' => On(v, d)
BY DEF On, Sending

\* A worker that is idle or between two campaigns is on none.
LEMMA LeavesCampaign ==
  ASSUME TypeOK, NEW w \in Workers,
         \A v \in Workers : v # w => worker'[v] = worker[v],
         worker'[w].pc \in {"idle", "dispatch"}
  PROVE  /\ \A v \in Workers, d \in Campaigns : On(v, d)' => On(v, d)
         /\ \A d \in Campaigns : ~On(w, d)'
BY DEF On, Sending

LEMMA SameWorkers ==
  ASSUME worker' = worker
  PROVE  \A v \in Workers, d \in Campaigns : On(v, d)' <=> On(v, d)
BY DEF On, Sending

LEMMA FreshWorker ==
  ASSUME TypeOK, NEW w \in Workers, NEW pc \in {"idle", "dispatch"}, NEW queue,
         worker' = [worker EXCEPT ![w] = Fresh(pc, queue)]
  PROVE  /\ \A v \in Workers : v # w => worker'[v] = worker[v]
         /\ worker'[w].pc \in {"idle", "dispatch"}
BY DEF TypeOK, Fresh

LEMMA OnePass ==
  ASSUME TypeOK, OneInv, NEW w \in Workers,
         \/ ListPending(w) \/ EndPass(w) \/ Crash(w)
         \/ \E c \in Campaigns : StartOne(w, c) \/ SkipClaim(w, c)
  PROVE  OneInv'
<1>1. \E pc \in {"idle", "dispatch"} : \E queue : worker' = [worker EXCEPT ![w] = Fresh(pc, queue)]
  BY DEF ListPending, EndPass, Crash, StartOne, SkipClaim, Advance, Idle
<1>2. campaign' = campaign /\ slow' = slow
  BY DEF ListPending, EndPass, Crash, StartOne, SkipClaim
<1>3. \A v \in Workers, d \in Campaigns : On(v, d)' => On(v, d)
  BY <1>1, FreshWorker, LeavesCampaign
<1> QED  BY <1>2, <1>3, OneFrame

LEMMA OneClaim ==
  ASSUME TypeOK, OneInv, NEW w \in Workers, NEW c \in Campaigns, Claim(w, c)
  PROVE  OneInv'
<1>1. /\ \A v \in Workers : v # w => worker'[v] = worker[v]
      /\ worker'[w].queue = worker[w].queue
      /\ campaign'[c].status = "running" /\ ~campaign'[c].stale
      /\ \A d \in Campaigns : d # c => campaign'[d] = campaign[d]
      /\ slow' = slow
  BY DEF Claim, TypeOK, Worker, Campaign
<1>2. \A v \in Workers, d \in Campaigns : v # w /\ On(v, d)' => On(v, d)
  BY <1>1 DEF On, Sending
<1>3. \A d \in Campaigns : On(w, d)' => d = c
  <2>1. worker[w].queue \in SUBSET Int
    BY CampaignsAreIntegers DEF TypeOK, Worker
  <2> QED  BY <1>1, <2>1, FirstIsUnique DEF On, Claim
<1>4. \A v \in Workers : c \notin slow => ~On(v, c)
  BY DEF OneInv, Claim, Claimable
<1> SUFFICES ASSUME NEW d \in Campaigns \ slow', NEW v \in Workers, On(v, d)'
             PROVE  /\ campaign'[d].status = "running"
                    /\ ~campaign'[d].stale
                    /\ \A u \in Workers : On(u, d)' => u = v
  BY DEF OneInv
<1>5. CASE d = c
  BY <1>1, <1>2, <1>4, <1>5
<1>6. CASE d # c
  BY <1>1, <1>2, <1>3, <1>6 DEF OneInv
<1> QED  BY <1>5, <1>6

\* Every step of a send leaves the worker where it is.
LEMMA SendKeeps ==
  ASSUME TypeOK, NEW w \in Workers, NEW c \in Campaigns, NEW r \in Recipients,
         SendStep(w, c, r)
  PROVE  /\ On(w, c)
         /\ \A v \in Workers : v # w => worker'[v] = worker[v]
         /\ worker'[w].queue = worker[w].queue
         /\ slow' = slow
         /\ \A d \in Campaigns : /\ campaign'[d].status = campaign[d].status
                                  /\ campaign'[d].stale = campaign[d].stale
<1>1. CASE Deliver(w, c, r)
  BY <1>1 DEF Deliver, Outcome, TypeOK
<1>2. ASSUME AfterFailedAttempt(w)
      PROVE  /\ \A v \in Workers : v # w => worker'[v] = worker[v]
             /\ worker'[w].queue = worker[w].queue
  BY <1>2 DEF AfterFailedAttempt, Outcome, TypeOK, Worker
<1>3. CASE AttemptFails(w, c, r) \/ AnswerLost(w, c, r)
  BY <1>2, <1>3 DEF AttemptFails, AnswerLost
<1>4. CASE Refused(w, c, r)
  BY <1>4 DEF Refused, Outcome, TypeOK
<1>5. CASE Record(w, c, r) \/ RecordLost(w, c, r)
  BY <1>5 DEF Record, RecordLost, TypeOK, Worker
<1>6. CASE Count(w, c, r)
  BY <1>6 DEF Count, TypeOK, Worker, Campaign
<1> QED  BY <1>1, <1>3, <1>4, <1>5, <1>6 DEF SendStep

LEMMA OneSend ==
  ASSUME TypeOK, OneInv, NEW w \in Workers, NEW c \in Campaigns, NEW r \in Recipients,
         SendStep(w, c, r)
  PROVE  OneInv'
<1>1. \A v \in Workers, d \in Campaigns : On(v, d)' => On(v, d)
  BY SendKeeps, KeepsCampaign DEF On
<1> QED  BY <1>1, SendKeeps, OneFrame

\* The end of a campaign: the row is written, and the worker goes.
LEMMA OneEnds ==
  ASSUME TypeOK, OneInv, NEW w \in Workers, NEW c \in Campaigns,
         NoRecipients(w, c) \/ Load(w, c) \/ Finish(w, c)
  PROVE  OneInv'
<1>1. CASE Load(w, c)
  <2>1. /\ Sending(w) /\ campaign' = campaign /\ slow' = slow
        /\ \A v \in Workers : v # w => worker'[v] = worker[v]
        /\ worker'[w].queue = worker[w].queue
    BY <1>1 DEF Load, Sending, TypeOK, Worker
  <2> QED  BY <2>1, KeepsCampaign, OneFrame
<1>2. CASE NoRecipients(w, c) \/ Finish(w, c)
  <2>1. On(w, c) /\ slow' = slow
    BY <1>2 DEF NoRecipients, Finish, On, Sending
  <2>2. worker' = [worker EXCEPT ![w] = Fresh("dispatch", worker[w].queue \ {c})]
    BY <1>2 DEF NoRecipients, Finish, Advance
  <2>3. /\ \A v \in Workers, d \in Campaigns : On(v, d)' => On(v, d)
        /\ ~On(w, c)'
    BY <2>2, FreshWorker, LeavesCampaign
  <2>4. \A d \in Campaigns : d # c => campaign'[d] = campaign[d]
    BY <1>2 DEF NoRecipients, Finish, TypeOK
  <2>5. c \notin slow => \A v \in Workers : ~On(v, c)'
    BY <2>1, <2>3 DEF OneInv
  <2> QED  BY <2>1, <2>3, <2>4, <2>5, OneFrame
<1> QED  BY <1>1, <1>2

LEMMA OneRow ==
  ASSUME TypeOK, OneInv, NEW c \in Campaigns,
         Queue(c) \/ OrphanGoesStale(c) \/ SendOutlastsCutoff(c) \/ ClearPayload(c)
  PROVE  OneInv'
<1>1. worker' = worker /\ slow \subseteq slow'
  BY DEF Queue, OrphanGoesStale, SendOutlastsCutoff, ClearPayload
<1>2. \A d \in Campaigns : d # c => campaign'[d] = campaign[d]
  BY DEF Queue, OrphanGoesStale, SendOutlastsCutoff, ClearPayload, TypeOK
<1>3. CASE Queue(c)
  <2>1. c \notin slow => \A v \in Workers : ~On(v, c)
    BY <1>3 DEF Queue, OneInv
  <2> QED  BY <1>1, <1>2, <1>3, <2>1, SameWorkers, OneFrame DEF Queue
<1>4. CASE OrphanGoesStale(c)
  <2>1. \A v \in Workers : ~On(v, c)
    BY <1>4 DEF OrphanGoesStale
  <2> QED  BY <1>1, <1>2, <2>1, SameWorkers, OneFrame
<1>5. CASE SendOutlastsCutoff(c)
  <2>1. c \in slow'
    BY <1>5 DEF SendOutlastsCutoff
  <2> QED  BY <1>1, <1>2, <2>1, SameWorkers, OneFrame
<1>6. CASE ClearPayload(c)
  <2>1. campaign'[c].status = campaign[c].status /\ campaign'[c].stale = campaign[c].stale
    BY <1>6 DEF ClearPayload, TypeOK, Campaign
  <2> QED  BY <1>1, <1>2, <2>1, SameWorkers, OneFrame
<1> QED  BY <1>3, <1>4, <1>5, <1>6

LEMMA OneStep == TypeOK /\ OneInv /\ [Next]_vars => OneInv'
<1> SUFFICES ASSUME TypeOK, OneInv, [Next]_vars PROVE OneInv'
  OBVIOUS
<1>1. CASE UNCHANGED vars
  BY <1>1, SameWorkers, OneFrame DEF vars
<1>2. CASE Next
  BY <1>2, OnePass, OneClaim, OneSend, OneEnds, OneRow DEF Next, WorkerStep
<1> QED  BY <1>1, <1>2

LEMMA OneInvariant == Spec => [](TypeOK /\ OneInv)
<1>1. Init => OneInv
  BY DEF Init, OneInv, On, Sending, Idle, Fresh
<1> QED  BY <1>1, TypeInit, TypeStep, OneStep, PTL DEF Spec

\* A campaign is sent by one process at a time until its sending outlasts the
\* cutoff, however many passes and commands overlap.
THEOREM SendersExclude == Spec => []OneSender
<1>1. OneInv => OneSender
  BY DEF OneInv, OneSender
<1> QED  BY <1>1, OneInvariant, PTL

\* What a step may do to a campaign nobody is on, once it is finished.
LEMMA FinalStep ==
  ASSUME TypeOK, OneInv, [Next]_vars, NEW c \in Campaigns \ slow,
         campaign[c].status \in Finished
  PROVE  /\ delivered'[c] = delivered[c]
         /\ log'[c] = log[c]
         /\ campaign'[c] = [campaign[c] EXCEPT !.to = campaign'[c].to]
<1>1. \A w \in Workers : ~On(w, c)
  BY DEF OneInv, Finished
<1>2. SUFFICES \/ campaign'[c] = campaign[c] /\ delivered'[c] = delivered[c] /\ log'[c] = log[c]
               \/ ClearPayload(c)
  BY DEF TypeOK, Campaign, ClearPayload
<1>3. CASE UNCHANGED vars
  BY <1>3 DEF vars
<1>4. ASSUME NEW d \in Campaigns,
             Queue(d) \/ OrphanGoesStale(d) \/ SendOutlastsCutoff(d) \/ ClearPayload(d)
      PROVE  \/ campaign'[c] = campaign[c] /\ delivered'[c] = delivered[c] /\ log'[c] = log[c]
             \/ ClearPayload(c)
  BY <1>4 DEF Queue, OrphanGoesStale, SendOutlastsCutoff, ClearPayload, TypeOK, Finished
<1>5. ASSUME NEW w \in Workers, NEW d \in Campaigns, NEW r \in Recipients, SendStep(w, d, r)
      PROVE  campaign'[c] = campaign[c] /\ delivered'[c] = delivered[c] /\ log'[c] = log[c]
  <2>1. d # c
    BY <1>1, <1>5, SendKeeps
  <2> QED  BY <1>5, <2>1 DEF SendStep, Deliver, AttemptFails, AnswerLost, Refused, Record,
                             RecordLost, Count, TypeOK
<1>6. ASSUME NEW w \in Workers, NEW d \in Campaigns,
             NoRecipients(w, d) \/ Load(w, d) \/ Finish(w, d)
      PROVE  campaign'[c] = campaign[c] /\ delivered'[c] = delivered[c] /\ log'[c] = log[c]
  <2>1. On(w, d)
    BY <1>6 DEF NoRecipients, Load, Finish, On, Sending
  <2>2. d # c
    BY <1>1, <2>1
  <2> QED  BY <1>6, <2>2 DEF NoRecipients, Load, Finish, TypeOK
<1>7. ASSUME NEW w \in Workers, NEW d \in Campaigns,
             Claim(w, d) \/ SkipClaim(w, d) \/ StartOne(w, d)
      PROVE  campaign'[c] = campaign[c] /\ delivered'[c] = delivered[c] /\ log'[c] = log[c]
  BY <1>7 DEF Claim, SkipClaim, StartOne, Claimable, TypeOK, Finished
<1>8. ASSUME NEW w \in Workers, ListPending(w) \/ EndPass(w) \/ Crash(w)
      PROVE  campaign'[c] = campaign[c] /\ delivered'[c] = delivered[c] /\ log'[c] = log[c]
  BY <1>8 DEF ListPending, EndPass, Crash
<1> QED  BY <1>3, <1>4, <1>5, <1>6, <1>7, <1>8 DEF Next, WorkerStep

\* Nothing is sent, logged or counted for a finished campaign.
THEOREM FinishedCampaignStaysFinished == Spec => FinishedCampaignIsFinal
<1>1. TypeOK /\ OneInv /\ [Next]_vars =>
        [\A c \in Campaigns \ slow : campaign[c].status \in Finished =>
           /\ delivered'[c] = delivered[c]
           /\ log'[c] = log[c]
           /\ campaign'[c] = [campaign[c] EXCEPT !.to = campaign'[c].to]]_vars
  BY FinalStep
<1> QED  BY <1>1, OneInvariant, PTL DEF Spec, FinishedCampaignIsFinal

-----------------------------------------------------------------------------
(* A completed campaign reached everybody.  The invariant follows every      *)
(* recipient of a campaign being sent: reached, still to be visited, or      *)
(* counted as failed.  It holds with several senders on one campaign, since  *)
(* the log and the deliveries only grow more certain.                        *)

Reached(c, r) == delivered[c][r] >= 1

\* where w stands with r, a recipient of the campaign it is sending
Accounted(w, c, r) == Reached(c, r) \/ r \in worker[w].todo \/ worker[w].failed > 0

\* the outcome of the message to the first recipient
OutcomeTold(w, c, r) == IF worker[w].ok THEN Reached(c, r) ELSE worker[w].failed > 0

ReachInv ==
  /\ \A c \in Campaigns, r \in Recipients : log[c][r] = "sent" => Reached(c, r)
  /\ \A c \in Campaigns : campaign[c].to = {} \/ campaign[c].to = audience[c]
  /\ \A w \in Workers, c \in Campaigns : On(w, c) => campaign[c].status # "none"
  /\ \A w \in Workers, c \in Campaigns : On(w, c) /\ worker[w].pc # "load" =>
        \A r \in audience[c] : Accounted(w, c, r)
  /\ \A w \in Workers, c \in Campaigns, r \in Recipients :
        On(w, c) /\ worker[w].pc \in {"log", "count"} /\ IsFirst(r, worker[w].todo) =>
          OutcomeTold(w, c, r)
  /\ CompletedReachedAll

\* The parts that do not depend on the worker that moves.
LEMMA ReachFrame ==
  ASSUME TypeOK, ReachInv, NEW w \in Workers,
         \A v \in Workers : v # w => worker'[v] = worker[v],
         audience' = audience,
         \A c \in Campaigns, r \in Recipients : Reached(c, r) => Reached(c, r)',
         \A c \in Campaigns, r \in Recipients : log'[c][r] = "sent" => Reached(c, r)',
         \A c \in Campaigns : campaign'[c].to = campaign[c].to,
         \A c \in Campaigns : campaign[c].status # "none" => campaign'[c].status # "none",
         \A c \in Campaigns : campaign'[c].status = "completed" =>
            \/ campaign[c].status = "completed"
            \/ \A r \in audience[c] : Reached(c, r),
         \A c \in Campaigns : On(w, c)' =>
            /\ campaign'[c].status # "none"
            /\ worker'[w].pc # "load" => \A r \in audience[c] : Accounted(w, c, r)'
            /\ worker'[w].pc \in {"log", "count"} =>
                 \A r \in Recipients : IsFirst(r, worker'[w].todo) => OutcomeTold(w, c, r)'
  PROVE  ReachInv'
<1>1. \A v \in Workers, c \in Campaigns : v # w /\ On(v, c)' => On(v, c)
  BY DEF On, Sending
<1>2. \A v \in Workers, c \in Campaigns : On(v, c)' => campaign'[c].status # "none"
  BY <1>1 DEF ReachInv
<1>3. ASSUME NEW v \in Workers, NEW c \in Campaigns, On(v, c)', worker'[v].pc # "load",
             NEW r \in audience[c]
      PROVE  Accounted(v, c, r)'
  <2>1. CASE v = w
    BY <1>3, <2>1
  <2>2. CASE v # w
    <3>1. Accounted(v, c, r) /\ r \in Recipients
      BY <1>1, <1>3, <2>2 DEF ReachInv, TypeOK
    <3> QED  BY <3>1, <2>2 DEF Accounted
  <2> QED  BY <2>1, <2>2
<1>4. ASSUME NEW v \in Workers, NEW c \in Campaigns, NEW r \in Recipients,
             On(v, c)', worker'[v].pc \in {"log", "count"}, IsFirst(r, worker'[v].todo)
      PROVE  OutcomeTold(v, c, r)'
  <2>1. CASE v = w
    BY <1>4, <2>1
  <2>2. CASE v # w
    <3>1. OutcomeTold(v, c, r)
      BY <1>1, <1>4, <2>2 DEF ReachInv
    <3> QED  BY <3>1, <2>2 DEF OutcomeTold
  <2> QED  BY <2>1, <2>2
<1>5. CompletedReachedAll'
  <2> SUFFICES ASSUME NEW c \in Campaigns, campaign'[c].status = "completed",
                      NEW r \in audience[c]
               PROVE  Reached(c, r)'
    BY DEF CompletedReachedAll, Reached
  <2>1. r \in Recipients
    BY DEF TypeOK
  <2>2. Reached(c, r)
    BY DEF ReachInv, CompletedReachedAll, Reached
  <2> QED  BY <2>1, <2>2
<1>6. \A c \in Campaigns : campaign'[c].to = {} \/ campaign'[c].to = audience'[c]
  BY DEF ReachInv
<1> QED  BY <1>2, <1>3, <1>4, <1>5, <1>6 DEF ReachInv

\* A step that touches the workers and the histories only.
LEMMA ReachPass ==
  ASSUME TypeOK, ReachInv, NEW w \in Workers,
         \/ ListPending(w) \/ EndPass(w) \/ Crash(w)
         \/ \E c \in Campaigns : StartOne(w, c) \/ SkipClaim(w, c)
  PROVE  ReachInv'
<1>1. \E pc \in {"idle", "dispatch"} : \E queue : worker' = [worker EXCEPT ![w] = Fresh(pc, queue)]
  BY DEF ListPending, EndPass, Crash, StartOne, SkipClaim, Advance, Idle
<1>2. UNCHANGED <<campaign, log, delivered, audience>>
  BY DEF ListPending, EndPass, Crash, StartOne, SkipClaim
<1>3. /\ \A v \in Workers : v # w => worker'[v] = worker[v]
      /\ \A c \in Campaigns : ~On(w, c)'
  BY <1>1, FreshWorker, LeavesCampaign
<1>4. \A c \in Campaigns, r \in Recipients :
         /\ Reached(c, r) => Reached(c, r)'
         /\ log'[c][r] = "sent" => Reached(c, r)'
  BY <1>2 DEF Reached, ReachInv
<1> QED  BY <1>2, <1>3, <1>4, ReachFrame

LEMMA ReachClaim ==
  ASSUME TypeOK, ReachInv, NEW w \in Workers, NEW c \in Campaigns, Claim(w, c)
  PROVE  ReachInv'
<1>1. /\ UNCHANGED <<log, delivered, audience>>
      /\ \A v \in Workers : v # w => worker'[v] = worker[v]
      /\ worker'[w].pc = "load" /\ worker'[w].queue = worker[w].queue
      /\ campaign'[c].status = "running" /\ campaign'[c].to = campaign[c].to
      /\ \A d \in Campaigns : d # c => campaign'[d] = campaign[d]
  BY DEF Claim, TypeOK, Worker, Campaign
<1>2. \A d \in Campaigns : On(w, d)' => d = c
  <2>1. worker[w].queue \in SUBSET Int
    BY CampaignsAreIntegers DEF TypeOK, Worker
  <2> QED  BY <1>1, <2>1, FirstIsUnique DEF On, Claim
<1>3. \A d \in Campaigns, r \in Recipients :
         /\ Reached(d, r) => Reached(d, r)'
         /\ log'[d][r] = "sent" => Reached(d, r)'
  BY <1>1 DEF Reached, ReachInv
<1> QED  BY <1>1, <1>2, <1>3, ReachFrame

LEMMA ReachLoad ==
  ASSUME TypeOK, ReachInv, NEW w \in Workers, NEW c \in Campaigns, Load(w, c)
  PROVE  ReachInv'
<1>1. /\ UNCHANGED <<campaign, log, delivered, audience>> /\ On(w, c)
      /\ \A v \in Workers : v # w => worker'[v] = worker[v]
      /\ worker'[w].pc = "send" /\ worker'[w].queue = worker[w].queue
      /\ worker'[w].todo = campaign[c].to \ {r \in campaign[c].to : log[c][r] = "sent"}
  BY DEF Load, On, Sending, TypeOK, Worker
<1>2. \A d \in Campaigns, r \in Recipients :
         /\ Reached(d, r) => Reached(d, r)'
         /\ log'[d][r] = "sent" => Reached(d, r)'
  BY <1>1 DEF Reached, ReachInv
<1>3. \A d \in Campaigns : On(w, d)' => d = c /\ campaign[d].status # "none"
  <2>1. \A d \in Campaigns : On(w, d)' => On(w, d)
    BY <1>1 DEF On, Sending
  <2> QED  BY <1>1, <2>1, OneOnEach DEF ReachInv
<1>4. \A r \in audience[c] : Accounted(w, c, r)'
  <2> SUFFICES ASSUME NEW r \in audience[c], ~Reached(c, r) PROVE r \in worker'[w].todo
    BY <1>1 DEF Accounted, Reached
  <2>1. r \in Recipients /\ campaign[c].to = audience[c]
    BY DEF TypeOK, Load, ReachInv
  <2>2. log[c][r] # "sent"
    BY <2>1 DEF ReachInv
  <2> QED  BY <1>1, <2>1, <2>2
<1> QED  BY <1>1, <1>2, <1>3, <1>4, ReachFrame

\* A message that was sent, or given up, or tried once more.
LEMMA ReachAttempt ==
  ASSUME TypeOK, ReachInv, NEW w \in Workers, NEW c \in Campaigns, NEW r \in Recipients,
         \/ Deliver(w, c, r) \/ AttemptFails(w, c, r)
         \/ AnswerLost(w, c, r) \/ Refused(w, c, r)
  PROVE  ReachInv'
<1>1. /\ UNCHANGED <<campaign, log, audience>>
      /\ On(w, c) /\ worker[w].pc = "send" /\ IsFirst(r, worker[w].todo)
  BY DEF Deliver, AttemptFails, AnswerLost, Refused
<1>2. /\ \A v \in Workers : v # w => worker'[v] = worker[v]
      /\ worker'[w].queue = worker[w].queue
  BY SendKeeps DEF SendStep
<1>3. \A d \in Campaigns, s \in Recipients : Reached(d, s) => Reached(d, s)'
  <2>1. \/ delivered' = delivered
        \/ delivered' = [delivered EXCEPT ![c][r] = @ + 1]
    BY DEF Deliver, AttemptFails, AnswerLost, Refused
  <2>2. \A d \in Campaigns, s \in Recipients :
           delivered[d][s] \in Nat /\ delivered'[d][s] \in {delivered[d][s], delivered[d][s] + 1}
    BY <2>1 DEF TypeOK
  <2> QED  BY <2>2 DEF Reached
<1>4. \A d \in Campaigns, s \in Recipients : log'[d][s] = "sent" => Reached(d, s)'
  BY <1>1, <1>3 DEF ReachInv
<1>5. \A d \in Campaigns : On(w, d)' => d = c /\ campaign[d].status # "none"
  <2>1. \A d \in Campaigns : On(w, d)' => On(w, d)
    BY <1>1, <1>2 DEF On
  <2> QED  BY <1>1, <2>1, OneOnEach DEF ReachInv
<1>6. /\ worker'[w].todo = worker[w].todo
      /\ worker'[w].failed >= worker[w].failed
      /\ worker'[w].pc = "log" => IF worker'[w].ok THEN Reached(c, r)' ELSE worker'[w].failed > 0
      /\ worker'[w].pc \in {"send", "log"}
  <2>1. worker[w].failed \in Nat /\ delivered[c][r] \in Nat
    BY DEF TypeOK, Worker
  <2>2. CASE Deliver(w, c, r)
    BY <2>1, <2>2 DEF Deliver, Outcome, TypeOK, Reached
  <2>3. CASE Outcome(w, FALSE)
    BY <2>1, <2>3 DEF Outcome, TypeOK
  <2>4. CASE worker' = [worker EXCEPT ![w].attempt = @ + 1]
    BY <1>1, <2>1, <2>4 DEF TypeOK, Worker
  <2> QED  BY <2>2, <2>3, <2>4 DEF AttemptFails, AnswerLost, Refused, AfterFailedAttempt
<1>7. \A s \in audience[c] : Accounted(w, c, s)'
  <2> SUFFICES ASSUME NEW s \in audience[c] PROVE Accounted(w, c, s)'
    OBVIOUS
  <2>1. Accounted(w, c, s) /\ s \in Recipients
    BY <1>1 DEF ReachInv, TypeOK
  <2>2. worker[w].failed \in Nat /\ worker'[w].failed >= worker[w].failed
    BY <1>6 DEF TypeOK, Worker
  <2>3. worker'[w].failed \in Nat
    BY SendKeeps, TypeSend DEF SendStep, TypeOK, Worker
  <2> QED  BY <1>3, <1>6, <2>1, <2>2, <2>3 DEF Accounted
<1>8. \A s \in Recipients : worker'[w].pc \in {"log", "count"} /\ IsFirst(s, worker'[w].todo) =>
         OutcomeTold(w, c, s)'
  <2>1. worker[w].todo \in SUBSET Int
    BY CampaignsAreIntegers DEF TypeOK, Worker
  <2>2. \A s \in Recipients : IsFirst(s, worker'[w].todo) => s = r
    BY <1>1, <1>6, <2>1, FirstIsUnique
  <2> QED  BY <1>6, <2>2 DEF OutcomeTold
<1> QED  BY <1>1, <1>2, <1>3, <1>4, <1>5, <1>7, <1>8, ReachFrame

LEMMA ReachRecord ==
  ASSUME TypeOK, ReachInv, NEW w \in Workers, NEW c \in Campaigns, NEW r \in Recipients,
         Record(w, c, r) \/ RecordLost(w, c, r)
  PROVE  ReachInv'
<1>1. /\ UNCHANGED <<campaign, delivered, audience>>
      /\ On(w, c) /\ worker[w].pc = "log" /\ IsFirst(r, worker[w].todo)
      /\ worker' = [worker EXCEPT ![w].pc = "count"]
  BY DEF Record, RecordLost
<1>2. /\ \A v \in Workers : v # w => worker'[v] = worker[v]
      /\ worker'[w].pc = "count" /\ worker'[w].queue = worker[w].queue
      /\ worker'[w].todo = worker[w].todo /\ worker'[w].failed = worker[w].failed
      /\ worker'[w].ok = worker[w].ok
  BY <1>1 DEF TypeOK, Worker
<1>3. \A d \in Campaigns, s \in Recipients : Reached(d, s)' <=> Reached(d, s)
  BY <1>1 DEF Reached
<1>4. \A d \in Campaigns, s \in Recipients : log'[d][s] = "sent" => Reached(d, s)'
  <2>1. worker[w].ok => Reached(c, r)
    BY <1>1 DEF ReachInv, OutcomeTold
  <2>2. CASE Record(w, c, r)
    BY <1>3, <2>1, <2>2 DEF Record, TypeOK, ReachInv
  <2>3. CASE RecordLost(w, c, r)
    BY <1>3, <2>3 DEF RecordLost, ReachInv
  <2> QED  BY <2>2, <2>3
<1>5. \A d \in Campaigns : On(w, d)' => d = c /\ campaign[d].status # "none"
  <2>1. \A d \in Campaigns : On(w, d)' => On(w, d)
    BY <1>1, <1>2 DEF On
  <2> QED  BY <1>1, <2>1, OneOnEach DEF ReachInv
<1>6. \A s \in audience[c] : Accounted(w, c, s)'
  <2> SUFFICES ASSUME NEW s \in audience[c] PROVE Accounted(w, c, s)'
    OBVIOUS
  <2>1. Accounted(w, c, s) /\ s \in Recipients
    BY <1>1 DEF ReachInv, TypeOK
  <2> QED  BY <1>2, <1>3, <2>1 DEF Accounted
<1>7. \A s \in Recipients : IsFirst(s, worker'[w].todo) => OutcomeTold(w, c, s)'
  <2> SUFFICES ASSUME NEW s \in Recipients, IsFirst(s, worker'[w].todo)
               PROVE  OutcomeTold(w, c, s)'
    OBVIOUS
  <2>1. OutcomeTold(w, c, s)
    BY <1>1, <1>2 DEF ReachInv
  <2> QED  BY <1>2, <1>3, <2>1 DEF OutcomeTold
<1> QED  BY <1>1, <1>2, <1>3, <1>4, <1>5, <1>6, <1>7, ReachFrame

LEMMA ReachCount ==
  ASSUME TypeOK, ReachInv, NEW w \in Workers, NEW c \in Campaigns, NEW r \in Recipients,
         Count(w, c, r)
  PROVE  ReachInv'
<1>1. /\ UNCHANGED <<log, delivered, audience>>
      /\ On(w, c) /\ worker[w].pc = "count" /\ IsFirst(r, worker[w].todo)
      /\ \A v \in Workers : v # w => worker'[v] = worker[v]
      /\ worker'[w].pc = "send" /\ worker'[w].queue = worker[w].queue
      /\ worker'[w].todo = worker[w].todo \ {r} /\ worker'[w].failed = worker[w].failed
  BY DEF Count, TypeOK, Worker
<1>2. \A d \in Campaigns : campaign'[d].status = campaign[d].status /\ campaign'[d].to = campaign[d].to
  BY DEF Count, TypeOK, Campaign
<1>3. \A d \in Campaigns, s \in Recipients :
         /\ Reached(d, s)' <=> Reached(d, s)
         /\ log'[d][s] = "sent" => Reached(d, s)'
  BY <1>1 DEF Reached, ReachInv
<1>4. \A d \in Campaigns : On(w, d)' => d = c /\ campaign[d].status # "none"
  <2>1. \A d \in Campaigns : On(w, d)' => On(w, d)
    BY <1>1 DEF On
  <2> QED  BY <1>1, <2>1, OneOnEach DEF ReachInv
<1>5. \A s \in audience[c] : Accounted(w, c, s)'
  <2> SUFFICES ASSUME NEW s \in audience[c] PROVE Accounted(w, c, s)'
    OBVIOUS
  <2>1. Accounted(w, c, s) /\ OutcomeTold(w, c, r) /\ s \in Recipients
    BY <1>1 DEF ReachInv, TypeOK
  <2> QED  BY <1>1, <1>3, <2>1 DEF Accounted, OutcomeTold
<1> QED  BY <1>1, <1>2, <1>3, <1>4, <1>5, ReachFrame

LEMMA ReachEnds ==
  ASSUME TypeOK, ReachInv, NEW w \in Workers, NEW c \in Campaigns,
         NoRecipients(w, c) \/ Finish(w, c)
  PROVE  ReachInv'
<1>1. /\ UNCHANGED <<log, delivered, audience>> /\ On(w, c)
      /\ worker' = [worker EXCEPT ![w] = Fresh("dispatch", worker[w].queue \ {c})]
  BY DEF NoRecipients, Finish, Advance, On, Sending
<1>2. /\ \A v \in Workers : v # w => worker'[v] = worker[v]
      /\ \A d \in Campaigns : ~On(w, d)'
  BY <1>1, FreshWorker, LeavesCampaign
<1>3. \A d \in Campaigns, s \in Recipients :
         /\ Reached(d, s)' <=> Reached(d, s)
         /\ log'[d][s] = "sent" => Reached(d, s)'
  BY <1>1 DEF Reached, ReachInv
<1>4. \A d \in Campaigns : /\ campaign'[d].to = campaign[d].to
                           /\ campaign'[d].status = campaign[d].status \/ d = c
      /\ campaign'[c].status \in {"completed", "failed"}
  BY DEF NoRecipients, Finish, TypeOK, Campaign
<1>5. campaign'[c].status = "completed" => \A r \in audience[c] : Reached(c, r)
  <2> SUFFICES ASSUME campaign'[c].status = "completed", NEW r \in audience[c]
               PROVE  Reached(c, r)
    OBVIOUS
  <2>1. Finish(w, c)
    BY DEF NoRecipients, TypeOK, Campaign
  <2>2. worker[w].failed = 0 /\ worker[w].pc = "send" /\ worker[w].todo = {}
    BY <2>1 DEF Finish, TypeOK, Campaign
  <2>3. Accounted(w, c, r)
    BY <1>1, <2>2 DEF ReachInv
  <2> QED  BY <2>2, <2>3 DEF Accounted
<1> QED  BY <1>1, <1>2, <1>3, <1>4, <1>5, ReachFrame

\* Steps of nobody's pass.  Queueing concerns a campaign nobody is on.
LEMMA ReachRow ==
  ASSUME TypeOK, ReachInv, NEW c \in Campaigns,
         Queue(c) \/ OrphanGoesStale(c) \/ SendOutlastsCutoff(c) \/ ClearPayload(c)
  PROVE  ReachInv'
<1>1. UNCHANGED <<worker, log, delivered>>
  BY DEF Queue, OrphanGoesStale, SendOutlastsCutoff, ClearPayload
<1>2. \A d \in Campaigns : d # c => campaign'[d] = campaign[d] /\ audience'[d] = audience[d]
  BY DEF Queue, OrphanGoesStale, SendOutlastsCutoff, ClearPayload, TypeOK
<1>3. \/ campaign'[c].status = campaign[c].status /\ audience'[c] = audience[c]
      \/ campaign[c].status = "none" /\ campaign'[c].status = "pending"
  BY DEF Queue, OrphanGoesStale, SendOutlastsCutoff, ClearPayload, TypeOK, Campaign
<1>4. campaign'[c].to \in {{}, campaign[c].to, audience'[c]} /\ (campaign'[c].to = campaign[c].to => audience'[c] = audience[c] \/ campaign'[c].to = audience'[c])
  BY DEF Queue, OrphanGoesStale, SendOutlastsCutoff, ClearPayload, TypeOK, Campaign
<1>5. \A w \in Workers, d \in Campaigns : On(w, d)' <=> On(w, d)
  BY <1>1, SameWorkers
<1>6. \A d \in Campaigns, r \in Recipients :
         /\ Reached(d, r)' <=> Reached(d, r)
         /\ log'[d][r] = "sent" => Reached(d, r)'
         /\ \A w \in Workers : /\ Accounted(w, d, r)' <=> Accounted(w, d, r)
                               /\ OutcomeTold(w, d, r)' <=> OutcomeTold(w, d, r)
  BY <1>1 DEF Reached, ReachInv, Accounted, OutcomeTold
<1>7. \A w \in Workers, d \in Campaigns : On(w, d)' => audience'[d] = audience[d]
  BY <1>2, <1>3, <1>5 DEF ReachInv
<1>8. \A w \in Workers, d \in Campaigns : On(w, d)' => campaign'[d].status # "none"
  BY <1>2, <1>3, <1>5 DEF ReachInv
<1>9. \A w \in Workers, d \in Campaigns : On(w, d)' /\ worker'[w].pc # "load" =>
        \A r \in audience'[d] : Accounted(w, d, r)'
  <2> SUFFICES ASSUME NEW w \in Workers, NEW d \in Campaigns, On(w, d)',
                      worker'[w].pc # "load", NEW r \in audience'[d]
               PROVE  Accounted(w, d, r)'
    OBVIOUS
  <2>1. r \in audience[d] /\ r \in Recipients
    BY <1>7 DEF TypeOK
  <2> QED  BY <1>1, <1>5, <1>6, <2>1 DEF ReachInv
<1>10. \A w \in Workers, d \in Campaigns, r \in Recipients :
        On(w, d)' /\ worker'[w].pc \in {"log", "count"} /\ IsFirst(r, worker'[w].todo) =>
          OutcomeTold(w, d, r)'
  BY <1>1, <1>5, <1>6 DEF ReachInv
<1>11. CompletedReachedAll'
  BY <1>1, <1>2, <1>3 DEF ReachInv, CompletedReachedAll
<1>12. \A d \in Campaigns : campaign'[d].to = {} \/ campaign'[d].to = audience'[d]
  BY <1>2, <1>4 DEF ReachInv
<1> QED  BY <1>6, <1>8, <1>9, <1>10, <1>11, <1>12 DEF ReachInv

LEMMA ReachStep == TypeOK /\ ReachInv /\ [Next]_vars => ReachInv'
<1> SUFFICES ASSUME TypeOK, ReachInv, [Next]_vars PROVE ReachInv'
  OBVIOUS
<1>1. CASE UNCHANGED vars
  BY <1>1 DEF vars, ReachInv, Reached, Accounted, OutcomeTold, On, Sending, CompletedReachedAll
<1>2. CASE Next
  BY <1>2, ReachPass, ReachClaim, ReachLoad, ReachAttempt, ReachRecord, ReachCount, ReachEnds,
     ReachRow DEF Next, WorkerStep, SendStep
<1> QED  BY <1>1, <1>2

\* A campaign reported as completed has reached its whole audience, whatever
\* passes overlapped and whatever got lost on the way.
THEOREM CompletedMeansReached == Spec => []CompletedReachedAll
<1>1. Init => ReachInv
  BY DEF Init, ReachInv, On, Sending, Idle, Fresh, CompletedReachedAll
<1>2. ReachInv => CompletedReachedAll
  BY DEF ReachInv
<1> QED  BY <1>1, <1>2, TypeInit, TypeStep, ReachStep, PTL DEF Spec

-----------------------------------------------------------------------------
(* Nobody gets a message twice.  A delivery the log may be asked about is    *)
(* either in it or in the hands of the one process that is about to write    *)
(* it, and what that process still has to visit is not in the log.           *)

\* w has delivered to r and not recorded it yet
Told(w, c, r) == On(w, c) /\ worker[w].pc = "log" /\ worker[w].ok /\ IsFirst(r, worker[w].todo)

\* r is still to be written to, or being written to
ToBeSent(w, r) ==
  /\ r \in worker[w].todo
  /\ \/ worker[w].pc \in {"send", "log"}
     \/ worker[w].pc = "count" /\ ~IsFirst(r, worker[w].todo)

Once(c, r) ==
  /\ delivered[c][r] <= 1
  /\ delivered[c][r] = 1 => log[c][r] = "sent" \/ \E w \in Workers : Told(w, c, r)

DupInv ==
  \A c \in Campaigns \ slow : \A r \in Recipients :
    /\ <<c, r>> \notin unsure => Once(c, r)
    /\ \A w \in Workers : On(w, c) /\ ToBeSent(w, r) => log[c][r] # "sent"

\* What remains to be shown of a step of w.
LEMMA DupFrame ==
  ASSUME TypeOK, OneInv, DupInv, NEW w \in Workers,
         \A v \in Workers : v # w => worker'[v] = worker[v],
         slow' = slow, unsure \subseteq unsure',
         \A c \in Campaigns : log'[c] = log[c] \/ On(w, c),
         \A c \in Campaigns \ slow : \A r \in Recipients :
           /\ <<c, r>> \notin unsure' => Once(c, r)'
           /\ On(w, c)' /\ ToBeSent(w, r)' => log'[c][r] # "sent"
  PROVE  DupInv'
<1> SUFFICES ASSUME NEW c \in Campaigns \ slow, NEW r \in Recipients, NEW v \in Workers,
                    On(v, c)', ToBeSent(v, r)', v # w
             PROVE  log'[c][r] # "sent"
  BY DEF DupInv
<1>1. On(v, c) /\ ToBeSent(v, r)
  BY DEF On, Sending, ToBeSent
<1>2. ~On(w, c)
  BY <1>1 DEF OneInv
<1> QED  BY <1>1, <1>2 DEF DupInv

\* A pair that nothing happens to.
LEMMA OnceKept ==
  ASSUME NEW w \in Workers, NEW c \in Campaigns, NEW r \in Recipients, Once(c, r),
         \A v \in Workers : v # w => worker'[v] = worker[v],
         delivered'[c][r] = delivered[c][r], log'[c][r] = log[c][r],
         Told(w, c, r) => Told(w, c, r)'
  PROVE  Once(c, r)'
<1>1. ASSUME NEW v \in Workers, Told(v, c, r) PROVE Told(v, c, r)'
  <2>1. CASE v = w
    BY <1>1, <2>1
  <2>2. CASE v # w
    BY <1>1, <2>2 DEF Told, On, Sending
  <2> QED  BY <2>1, <2>2
<1> QED  BY <1>1 DEF Once

\* A step that neither sends nor records, of a worker with nothing to record.
LEMMA DupQuiet ==
  ASSUME TypeOK, OneInv, DupInv, NEW w \in Workers,
         \A v \in Workers : v # w => worker'[v] = worker[v],
         slow' = slow, unsure \subseteq unsure', UNCHANGED <<delivered, log>>,
         \A c \in Campaigns, r \in Recipients : <<c, r>> \notin unsure' => ~Told(w, c, r),
         \A c \in Campaigns \ slow : \A r \in Recipients :
           On(w, c)' /\ ToBeSent(w, r)' => log[c][r] # "sent"
  PROVE  DupInv'
<1>1. \A c \in Campaigns \ slow : \A r \in Recipients : <<c, r>> \notin unsure' => Once(c, r)'
  <2> SUFFICES ASSUME NEW c \in Campaigns \ slow, NEW r \in Recipients, <<c, r>> \notin unsure'
               PROVE  Once(c, r)'
    OBVIOUS
  <2>1. Once(c, r) /\ ~Told(w, c, r)
    BY DEF DupInv
  <2> QED  BY <2>1, OnceKept
<1> QED  BY <1>1, DupFrame

LEMMA DupPass ==
  ASSUME TypeOK, OneInv, DupInv, NEW w \in Workers,
         \/ ListPending(w) \/ EndPass(w) \/ Crash(w)
         \/ \E c \in Campaigns : \/ StartOne(w, c) \/ SkipClaim(w, c)
                                \/ NoRecipients(w, c) \/ Finish(w, c)
  PROVE  DupInv'
<1>1. \E pc \in {"idle", "dispatch"} : \E queue : worker' = [worker EXCEPT ![w] = Fresh(pc, queue)]
  BY DEF ListPending, EndPass, Crash, StartOne, SkipClaim, NoRecipients, Finish, Advance, Idle
<1>2. UNCHANGED <<log, delivered, slow>> /\ unsure \subseteq unsure'
  BY DEF ListPending, EndPass, Crash, StartOne, SkipClaim, NoRecipients, Finish
<1>3. /\ \A v \in Workers : v # w => worker'[v] = worker[v]
      /\ \A d \in Campaigns : ~On(w, d)'
  BY <1>1, FreshWorker, LeavesCampaign
<1>4. \A d \in Campaigns, r \in Recipients : <<d, r>> \notin unsure' => ~Told(w, d, r)
  <2>1. CASE worker[w].pc # "log"
    BY <2>1 DEF Told
  <2>2. CASE Crash(w)
    BY <2>2 DEF Crash, Told, On
  <2> QED  BY <2>1, <2>2 DEF ListPending, EndPass, StartOne, SkipClaim, NoRecipients, Finish
<1> QED  BY <1>2, <1>3, <1>4, DupQuiet

LEMMA DupClaim ==
  ASSUME TypeOK, OneInv, DupInv, NEW w \in Workers, NEW c \in Campaigns, Claim(w, c)
  PROVE  DupInv'
<1>1. /\ UNCHANGED <<log, delivered, slow, unsure>> /\ worker[w].pc = "dispatch"
      /\ \A v \in Workers : v # w => worker'[v] = worker[v]
      /\ worker'[w].pc = "load"
  BY DEF Claim, TypeOK, Worker
<1> QED  BY <1>1, DupQuiet DEF Told, ToBeSent

LEMMA DupLoad ==
  ASSUME TypeOK, OneInv, DupInv, NEW w \in Workers, NEW c \in Campaigns, Load(w, c)
  PROVE  DupInv'
<1>1. /\ UNCHANGED <<log, delivered, slow, unsure>> /\ On(w, c) /\ worker[w].pc = "load"
      /\ \A v \in Workers : v # w => worker'[v] = worker[v]
      /\ worker'[w].pc = "send" /\ worker'[w].queue = worker[w].queue
      /\ worker'[w].todo = campaign[c].to \ {r \in campaign[c].to : log[c][r] = "sent"}
  BY DEF Load, On, Sending, TypeOK, Worker
<1>2. \A d \in Campaigns : On(w, d)' => d = c
  <2>1. \A d \in Campaigns : On(w, d)' => On(w, d)
    BY <1>1 DEF On
  <2> QED  BY <1>1, <2>1, OneOnEach
<1> QED  BY <1>1, <1>2, DupQuiet DEF Told, ToBeSent

\* An attempt that fails for certain.
LEMMA DupFails ==
  ASSUME TypeOK, OneInv, DupInv, NEW w \in Workers, NEW c \in Campaigns, NEW r \in Recipients,
         AttemptFails(w, c, r) \/ Refused(w, c, r)
  PROVE  DupInv'
<1>1. /\ UNCHANGED <<log, delivered, slow, unsure>> /\ On(w, c) /\ worker[w].pc = "send"
      /\ AfterFailedAttempt(w) \/ Outcome(w, FALSE)
  BY DEF AttemptFails, Refused
<1>2. /\ \A v \in Workers : v # w => worker'[v] = worker[v]
      /\ worker'[w].queue = worker[w].queue /\ worker'[w].todo = worker[w].todo
  BY <1>1 DEF AfterFailedAttempt, Outcome, TypeOK, Worker
<1>3. \A d \in Campaigns : On(w, d)' => On(w, d)
  BY <1>1, <1>2 DEF On
<1>4. \A d \in Campaigns \ slow : \A s \in Recipients :
         On(w, d)' /\ ToBeSent(w, s)' => log[d][s] # "sent"
  BY <1>1, <1>2, <1>3 DEF DupInv, ToBeSent
<1> QED  BY <1>1, <1>2, <1>4, DupQuiet DEF Told

\* An attempt that reached the mailbox: r has not had the message before.
LEMMA DupDelivers ==
  ASSUME TypeOK, OneInv, DupInv, NEW w \in Workers, NEW c \in Campaigns, NEW r \in Recipients,
         Deliver(w, c, r) \/ AnswerLost(w, c, r)
  PROVE  DupInv'
<1>1. /\ UNCHANGED <<log, slow>> /\ unsure \subseteq unsure'
      /\ On(w, c) /\ worker[w].pc = "send" /\ IsFirst(r, worker[w].todo)
      /\ delivered' = [delivered EXCEPT ![c][r] = @ + 1]
  BY DEF Deliver, AnswerLost
<1>2. /\ \A v \in Workers : v # w => worker'[v] = worker[v]
      /\ worker'[w].queue = worker[w].queue /\ worker'[w].todo = worker[w].todo
  BY DEF Deliver, AnswerLost, AfterFailedAttempt, Outcome, TypeOK, Worker
<1>3. \A d \in Campaigns : On(w, d)' => On(w, d)
  BY <1>1, <1>2 DEF On
<1>4. \A d \in Campaigns \ slow : \A s \in Recipients :
         On(w, d)' /\ ToBeSent(w, s)' => log'[d][s] # "sent"
  BY <1>1, <1>2, <1>3 DEF DupInv, ToBeSent
<1>5. \A d \in Campaigns \ slow : \A s \in Recipients : <<d, s>> \notin unsure' => Once(d, s)'
  <2> SUFFICES ASSUME NEW d \in Campaigns \ slow, NEW s \in Recipients, <<d, s>> \notin unsure'
               PROVE  Once(d, s)'
    OBVIOUS
  <2>1. Once(d, s) /\ ~Told(w, d, s)
    BY <1>1 DEF DupInv, Told
  <2>2. CASE d # c \/ s # r
    <3>1. delivered'[d][s] = delivered[d][s]
      BY <1>1, <2>2 DEF TypeOK
    <3> QED  BY <1>1, <1>2, <2>1, <3>1, OnceKept
  <2>3. CASE d = c /\ s = r
    <3>1. Deliver(w, c, r)
      BY <2>3 DEF AnswerLost
    <3>2. log[c][r] # "sent"
      BY <1>1, <2>3 DEF DupInv, ToBeSent, IsFirst
    <3>3. \A v \in Workers : ~Told(v, c, r)
      BY <1>1, <2>3 DEF OneInv, Told
    <3>4. delivered[c][r] = 0
      <4>1. delivered[c][r] \in Nat
        BY DEF TypeOK
      <4>2. delivered[c][r] <= 1 /\ delivered[c][r] # 1
        BY <2>1, <2>3, <3>2, <3>3 DEF Once
      <4> QED  BY <4>1, <4>2
    <3>5. delivered'[c][r] = 1
      BY <1>1, <3>4 DEF TypeOK
    <3>6. worker'[w].pc = "log" /\ worker'[w].ok
      BY <3>1 DEF Deliver, Outcome, TypeOK
    <3>7. Told(w, c, r)'
      BY <1>1, <1>2, <3>6 DEF Told, On, Sending
    <3> QED  BY <2>3, <3>5, <3>7 DEF Once
  <2> QED  BY <2>2, <2>3
<1> QED  BY <1>1, <1>2, <1>4, <1>5, DupFrame

\* Recording: a failure is recorded only over a delivery the log was not sure of.
LEMMA DupRecords ==
  ASSUME TypeOK, OneInv, DupInv, NEW w \in Workers, NEW c \in Campaigns, NEW r \in Recipients,
         Record(w, c, r) \/ RecordLost(w, c, r)
  PROVE  DupInv'
<1>1. /\ UNCHANGED <<delivered, slow>> /\ unsure \subseteq unsure'
      /\ On(w, c) /\ worker[w].pc = "log" /\ IsFirst(r, worker[w].todo)
      /\ \A v \in Workers : v # w => worker'[v] = worker[v]
      /\ worker'[w].pc = "count" /\ worker'[w].queue = worker[w].queue
      /\ worker'[w].todo = worker[w].todo
  BY DEF Record, RecordLost, TypeOK, Worker
<1>2. \A d \in Campaigns, s \in Recipients : d # c \/ s # r => log'[d][s] = log[d][s]
  BY DEF Record, RecordLost, TypeOK
<1>3. \A d \in Campaigns : d # c => log'[d] = log[d]
  BY DEF Record, RecordLost, TypeOK
<1>4. \A d \in Campaigns : On(w, d)' => d = c
  <2>1. \A d \in Campaigns : On(w, d)' => On(w, d)
    BY <1>1 DEF On
  <2> QED  BY <1>1, <2>1, OneOnEach
<1>5. \A s \in Recipients : IsFirst(s, worker[w].todo) => s = r
  <2>1. worker[w].todo \in SUBSET Int
    BY CampaignsAreIntegers DEF TypeOK, Worker
  <2> QED  BY <1>1, <2>1, FirstIsUnique
<1>6. \A d \in Campaigns \ slow : \A s \in Recipients :
         On(w, d)' /\ ToBeSent(w, s)' => log'[d][s] # "sent"
  <2> SUFFICES ASSUME c \notin slow, NEW s \in Recipients, ToBeSent(w, s)'
               PROVE  log'[c][s] # "sent"
    BY <1>4
  <2>1. s # r /\ ToBeSent(w, s)
    BY <1>1 DEF ToBeSent
  <2> QED  BY <1>1, <1>2, <2>1 DEF DupInv
<1>7. \A d \in Campaigns \ slow : \A s \in Recipients : <<d, s>> \notin unsure' => Once(d, s)'
  <2> SUFFICES ASSUME NEW d \in Campaigns \ slow, NEW s \in Recipients, <<d, s>> \notin unsure'
               PROVE  Once(d, s)'
    OBVIOUS
  <2>1. Once(d, s)
    BY <1>1 DEF DupInv
  <2>2. CASE d # c \/ s # r
    <3>1. ~Told(w, d, s)
      BY <1>1, <1>5, <2>2, OneOnEach DEF Told
    <3> QED  BY <1>1, <1>2, <2>1, <2>2, <3>1, OnceKept
  <2>3. CASE d = c /\ s = r
    <3>1. CASE worker[w].ok
      <4>1. log'[c][r] = "sent"
        BY <2>3, <3>1 DEF Record, RecordLost, TypeOK
      <4> QED  BY <1>1, <2>1, <2>3, <4>1 DEF Once
    <3>2. CASE ~worker[w].ok
      <4>1. log[c][r] # "sent"
        BY <1>1, <2>3 DEF DupInv, ToBeSent, IsFirst
      <4>2. \A v \in Workers : ~Told(v, c, r)
        BY <1>1, <2>3, <3>2 DEF OneInv, Told
      <4>3. delivered'[c][r] = 0
        <5>1. delivered[c][r] \in Nat
          BY DEF TypeOK
        <5>2. delivered[c][r] <= 1 /\ delivered[c][r] # 1
          BY <2>1, <2>3, <4>1, <4>2 DEF Once
        <5> QED  BY <1>1, <5>1, <5>2
      <4> QED  BY <2>3, <4>3 DEF Once
    <3> QED  BY <3>1, <3>2
  <2> QED  BY <2>2, <2>3
<1> QED  BY <1>1, <1>3, <1>6, <1>7, DupFrame

LEMMA DupCount ==
  ASSUME TypeOK, OneInv, DupInv, NEW w \in Workers, NEW c \in Campaigns, NEW r \in Recipients,
         Count(w, c, r)
  PROVE  DupInv'
<1>1. /\ UNCHANGED <<log, delivered, slow, unsure>>
      /\ On(w, c) /\ worker[w].pc = "count" /\ IsFirst(r, worker[w].todo)
      /\ \A v \in Workers : v # w => worker'[v] = worker[v]
      /\ worker'[w].pc = "send" /\ worker'[w].queue = worker[w].queue
      /\ worker'[w].todo = worker[w].todo \ {r}
  BY DEF Count, TypeOK, Worker
<1>2. \A s \in Recipients : IsFirst(s, worker[w].todo) => s = r
  <2>1. worker[w].todo \in SUBSET Int
    BY CampaignsAreIntegers DEF TypeOK, Worker
  <2> QED  BY <1>1, <2>1, FirstIsUnique
<1>3. \A d \in Campaigns \ slow : \A s \in Recipients :
         On(w, d)' /\ ToBeSent(w, s)' => log[d][s] # "sent"
  <2> SUFFICES ASSUME NEW d \in Campaigns \ slow, NEW s \in Recipients,
                      On(w, d)', ToBeSent(w, s)'
               PROVE  log[d][s] # "sent"
    OBVIOUS
  <2>1. On(w, d) /\ ToBeSent(w, s)
    BY <1>1, <1>2 DEF On, Sending, ToBeSent
  <2> QED  BY <2>1 DEF DupInv
<1> QED  BY <1>1, <1>3, DupQuiet DEF Told

LEMMA DupRow ==
  ASSUME TypeOK, OneInv, DupInv, NEW c \in Campaigns,
         Queue(c) \/ OrphanGoesStale(c) \/ SendOutlastsCutoff(c) \/ ClearPayload(c)
  PROVE  DupInv'
<1>1. UNCHANGED <<worker, log, delivered, unsure>> /\ slow \subseteq slow'
  BY DEF Queue, OrphanGoesStale, SendOutlastsCutoff, ClearPayload
<1>2. \A w \in Workers, d \in Campaigns, r \in Recipients :
         /\ On(w, d)' <=> On(w, d)
         /\ Told(w, d, r)' <=> Told(w, d, r)
         /\ ToBeSent(w, r)' <=> ToBeSent(w, r)
  BY <1>1 DEF On, Sending, Told, ToBeSent
<1> QED  BY <1>1, <1>2 DEF DupInv, Once

LEMMA DupStep == TypeOK /\ OneInv /\ DupInv /\ [Next]_vars => DupInv'
<1> SUFFICES ASSUME TypeOK, OneInv, DupInv, [Next]_vars PROVE DupInv'
  OBVIOUS
<1>1. CASE UNCHANGED vars
  BY <1>1 DEF vars, DupInv, Once, Told, ToBeSent, On, Sending
<1>2. CASE Next
  BY <1>2, DupPass, DupClaim, DupLoad, DupFails, DupDelivers, DupRecords, DupCount, DupRow
     DEF Next, WorkerStep, SendStep
<1> QED  BY <1>1, <1>2

\* No address gets a second copy, however often the campaign is resumed, as
\* long as its deliveries are logged and its sending is over before the cutoff.
THEOREM NobodyGetsItTwice == Spec => []NoDuplicates
<1>1. Init => DupInv
  BY DEF Init, DupInv, Once, On, Sending, Idle, Fresh
<1>2. DupInv => NoDuplicates
  BY DEF DupInv, Once, NoDuplicates
<1> QED  BY <1>1, <1>2, OneInvariant, DupStep, PTL DEF Spec

-----------------------------------------------------------------------------
(* The counters.  While a campaign is sent, the process on it has counted     *)
(* each recipient it is done with exactly once, and the ones counted as sent  *)
(* are among those that have the message and do not wait for it.  The         *)
(* counters of the row are copies of a tally that held when they were written. *)

GotIt(c) == {r \in Recipients : delivered[c][r] >= 1}

\* w has counted all of c's audience except the rest
Tally(w, c, rest) ==
  /\ rest \subseteq audience[c]
  /\ worker[w].sent <= Cardinality(GotIt(c) \ rest)
  /\ worker[w].sent + worker[w].failed + Cardinality(rest) = Cardinality(audience[c])

\* what a process knows at the points where it counts
Tallies(w, c) ==
  /\ worker[w].pc = "send" => Tally(w, c, worker[w].todo)
  /\ \A r \in Recipients :
       worker[w].pc \in {"log", "count"} /\ IsFirst(r, worker[w].todo) =>
         Tally(w, c, worker[w].todo \ {r})

CountInv ==
  /\ CountersAreReal
  /\ \A w \in Workers : worker[w].pc \in {"dispatch", "load"} =>
       worker[w].sent = 0 /\ worker[w].failed = 0
  /\ \A w \in Workers, c \in Campaigns : On(w, c) => Tallies(w, c)

LEMMA FewerRecipients ==
  ASSUME NEW S \in SUBSET Recipients, NEW T \in SUBSET S
  PROVE  /\ Cardinality(T) \in Nat /\ Cardinality(S) \in Nat
         /\ Cardinality(T) <= Cardinality(S)
<1>1. IsFiniteSet(Recipients)
  BY FS_Interval, ConstantsAssumption DEF Recipients
<1>2. IsFiniteSet(S)
  BY <1>1, FS_Subset
<1>3. T \in SUBSET Recipients
  OBVIOUS
<1> QED  BY <1>2, <1>3, FS_Subset, RecipientsCount

LEMMA OneRecipientLess ==
  ASSUME NEW S \in SUBSET Recipients, NEW r \in S
  PROVE  Cardinality(S \ {r}) = Cardinality(S) - 1
<1>1. IsFiniteSet(Recipients)
  BY FS_Interval, ConstantsAssumption DEF Recipients
<1>2. IsFiniteSet(S)
  BY <1>1, FS_Subset
<1> QED  BY <1>2, FS_RemoveElement

\* The two halves of an audience add up.
LEMMA HalvesAddUp ==
  ASSUME NEW S \in SUBSET Recipients, NEW T \in SUBSET S
  PROVE  Cardinality(T) + Cardinality(S \ T) = Cardinality(S)
<1>1. IsFiniteSet(Recipients)
  BY FS_Interval, ConstantsAssumption DEF Recipients
<1>2. IsFiniteSet(S) /\ IsFiniteSet(T)
  BY <1>1, FS_Subset
<1>3. S \cap T = T
  OBVIOUS
<1>4. Cardinality(S \ T) = Cardinality(S) - Cardinality(S \cap T)
  BY <1>2, FS_Difference
<1>5. Cardinality(S) \in Nat /\ Cardinality(T) \in Nat
  BY <1>2, FS_CardinalityType
<1> QED  BY <1>3, <1>4, <1>5

LEMMA GotItType ==
  ASSUME NEW c \in Campaigns
  PROVE  GotIt(c) \in SUBSET Recipients /\ GotIt(c)' \in SUBSET Recipients
BY DEF GotIt

\* More deliveries do not hurt a tally.
LEMMA TallyKept ==
  ASSUME TypeOK, TypeOK', NEW w \in Workers, NEW c \in Campaigns, NEW rest, Tally(w, c, rest),
         audience' = audience, GotIt(c) \subseteq GotIt(c)',
         worker'[w].sent = worker[w].sent, worker'[w].failed = worker[w].failed
  PROVE  Tally(w, c, rest)'
<1>1. PICK before \in SUBSET Recipients : before = GotIt(c) \ rest
  BY GotItType
<1>2. PICK after \in SUBSET Recipients : after = GotIt(c)' \ rest
  BY GotItType
<1>3. before \in SUBSET after
  BY <1>1, <1>2
<1>4. Cardinality(before) \in Nat /\ Cardinality(after) \in Nat
      /\ Cardinality(before) <= Cardinality(after)
  BY <1>3, FewerRecipients
<1>5. worker[w].sent \in Nat
  BY DEF TypeOK, Worker
<1>6. worker'[w].sent <= Cardinality(GotIt(c)' \ rest)
  BY <1>1, <1>2, <1>4, <1>5 DEF Tally
<1> QED  BY <1>6 DEF Tally

LEMMA SameTallies ==
  ASSUME NEW w \in Workers, NEW c \in Campaigns, Tallies(w, c), worker' = worker,
         audience'[c] = audience[c], GotIt(c)' = GotIt(c)
  PROVE  Tallies(w, c)'
<1>1. \A rest : Tally(w, c, rest) => Tally(w, c, rest)'
  BY DEF Tally
<1>2. PICK todo : todo = worker[w].todo
  OBVIOUS
<1>3. worker[w].pc = "send" => Tally(w, c, todo)'
  BY <1>1, <1>2 DEF Tallies
<1>4. \A r \in Recipients : worker[w].pc \in {"log", "count"} /\ IsFirst(r, worker[w].todo) =>
        Tally(w, c, todo \ {r})'
  BY <1>1, <1>2 DEF Tallies
<1> QED  BY <1>2, <1>3, <1>4 DEF Tallies, Tally

\* The parts that do not depend on the worker that moves.
LEMMA CountFrame ==
  ASSUME TypeOK, TypeOK', CountInv, NEW w \in Workers,
         \A v \in Workers : v # w => worker'[v] = worker[v],
         audience' = audience,
         slow \subseteq slow',
         \A c \in Campaigns : GotIt(c) \subseteq GotIt(c)',
         \A c \in Campaigns : \/ campaign'[c].sent = campaign[c].sent
                              \/ campaign'[c].sent <= Cardinality(GotIt(c)'),
         \A c \in Campaigns \ slow' : campaign'[c].status \in Finished /\ campaign'[c].to # {} =>
            \/ /\ campaign[c].status \in Finished /\ campaign[c].to # {}
               /\ campaign'[c].sent = campaign[c].sent /\ campaign'[c].failed = campaign[c].failed
            \/ campaign'[c].sent + campaign'[c].failed = Cardinality(audience[c]),
         worker'[w].pc \in {"dispatch", "load"} => worker'[w].sent = 0 /\ worker'[w].failed = 0,
         \A c \in Campaigns : On(w, c)' => Tallies(w, c)'
  PROVE  CountInv'
<1>1. \A v \in Workers, c \in Campaigns : v # w /\ On(v, c)' => On(v, c)
  BY DEF On, Sending
<1>2. ASSUME NEW v \in Workers, NEW c \in Campaigns, On(v, c)', v # w
      PROVE  Tallies(v, c)'
  <2>1. Tallies(v, c) /\ worker'[v] = worker[v]
    BY <1>1, <1>2 DEF CountInv
  <2>2. worker'[v].pc = "send" => Tally(v, c, worker[v].todo)'
    <3>1. PICK rest : rest = worker[v].todo
      OBVIOUS
    <3>2. worker[v].pc = "send" => Tally(v, c, rest)
      BY <2>1, <3>1 DEF Tallies
    <3>3. worker[v].pc = "send" => Tally(v, c, rest)'
      BY <2>1, <3>2, TallyKept
    <3> QED  BY <2>1, <3>1, <3>3 DEF Tally
  <2>3. ASSUME NEW r \in Recipients, worker'[v].pc \in {"log", "count"},
               IsFirst(r, worker'[v].todo)
        PROVE  Tally(v, c, worker[v].todo \ {r})'
    <3>1. PICK rest : rest = worker[v].todo \ {r}
      OBVIOUS
    <3>2. Tally(v, c, rest)
      BY <2>1, <2>3, <3>1 DEF Tallies
    <3>3. Tally(v, c, rest)'
      BY <2>1, <3>2, TallyKept
    <3> QED  BY <2>1, <3>1, <3>3 DEF Tally
  <2> QED  BY <2>1, <2>2, <2>3 DEF Tallies
<1>3. \A v \in Workers, c \in Campaigns : On(v, c)' => Tallies(v, c)'
  BY <1>2
<1>4. ASSUME NEW c \in Campaigns PROVE campaign'[c].sent <= Cardinality(GotIt(c)')
  <2>1. CASE campaign'[c].sent = campaign[c].sent
    <3>1. PICK before \in SUBSET Recipients : before = GotIt(c)
      BY GotItType
    <3>2. PICK after \in SUBSET Recipients : after = GotIt(c)'
      BY GotItType
    <3>3. before \in SUBSET after
      BY <3>1, <3>2
    <3>4. Cardinality(before) \in Nat /\ Cardinality(after) \in Nat
          /\ Cardinality(before) <= Cardinality(after)
      BY <3>3, FewerRecipients
    <3>5. campaign[c].sent \in Nat
      BY DEF TypeOK, Campaign
    <3>6. campaign[c].sent <= Cardinality(before)
      BY <3>1 DEF CountInv, CountersAreReal, GotIt
    <3> QED  BY <2>1, <3>2, <3>4, <3>5, <3>6
  <2> QED  BY <2>1
<1>5. CountersAreReal'
  <2>1. \A c \in Campaigns \ slow' : campaign'[c].status \in Finished /\ campaign'[c].to # {} =>
          campaign'[c].sent + campaign'[c].failed = Cardinality(audience'[c])
    BY DEF CountInv, CountersAreReal
  <2> QED  BY <1>4, <2>1 DEF CountersAreReal, GotIt
<1>6. \A v \in Workers : worker'[v].pc \in {"dispatch", "load"} =>
        worker'[v].sent = 0 /\ worker'[v].failed = 0
  BY DEF CountInv
<1> QED  BY <1>3, <1>5, <1>6 DEF CountInv

\* A worker between two campaigns has counted nothing.
LEMMA FreshCountsNothing ==
  ASSUME TypeOK, NEW w \in Workers, NEW pc \in {"idle", "dispatch"}, NEW queue,
         worker' = [worker EXCEPT ![w] = Fresh(pc, queue)]
  PROVE  worker'[w].sent = 0 /\ worker'[w].failed = 0
BY DEF TypeOK, Fresh

LEMMA CountPass ==
  ASSUME TypeOK, TypeOK', CountInv, NEW w \in Workers,
         \/ ListPending(w) \/ EndPass(w) \/ Crash(w)
         \/ \E c \in Campaigns : StartOne(w, c) \/ SkipClaim(w, c)
  PROVE  CountInv'
<1>1. \E pc \in {"idle", "dispatch"} : \E queue : worker' = [worker EXCEPT ![w] = Fresh(pc, queue)]
  BY DEF ListPending, EndPass, Crash, StartOne, SkipClaim, Advance, Idle
<1>2. UNCHANGED <<campaign, delivered, audience, slow>>
  BY DEF ListPending, EndPass, Crash, StartOne, SkipClaim
<1>3. /\ \A v \in Workers : v # w => worker'[v] = worker[v]
      /\ \A c \in Campaigns : ~On(w, c)'
  BY <1>1, FreshWorker, LeavesCampaign
<1>4. worker'[w].sent = 0 /\ worker'[w].failed = 0
  BY <1>1, FreshCountsNothing
<1>5. \A c \in Campaigns : GotIt(c) \subseteq GotIt(c)'
  BY <1>2 DEF GotIt
<1> QED  BY <1>2, <1>3, <1>4, <1>5, CountFrame

LEMMA CountClaim ==
  ASSUME TypeOK, TypeOK', CountInv, NEW w \in Workers, NEW c \in Campaigns, Claim(w, c)
  PROVE  CountInv'
<1>1. /\ UNCHANGED <<delivered, audience, slow>>
      /\ \A v \in Workers : v # w => worker'[v] = worker[v]
      /\ worker[w].pc = "dispatch" /\ worker'[w].pc = "load"
      /\ worker'[w].sent = worker[w].sent /\ worker'[w].failed = worker[w].failed
      /\ campaign'[c].status = "running" /\ campaign'[c].sent = campaign[c].sent
      /\ \A d \in Campaigns : d # c => campaign'[d] = campaign[d]
  BY DEF Claim, TypeOK, Worker, Campaign
<1>2. worker'[w].sent = 0 /\ worker'[w].failed = 0
  BY <1>1 DEF CountInv
<1>3. \A d \in Campaigns : GotIt(d) \subseteq GotIt(d)'
  BY <1>1 DEF GotIt
<1>4. \A d \in Campaigns : On(w, d)' => Tallies(w, d)'
  BY <1>1 DEF Tallies
<1>5. campaign'[c].status \notin Finished
  BY <1>1 DEF Finished
<1> QED  BY <1>1, <1>2, <1>3, <1>4, <1>5, CountFrame

\* The recipients logged as sent have the message, and the others are the rest.
LEMMA CountLoad ==
  ASSUME TypeOK, TypeOK', ReachInv, CountInv, NEW w \in Workers, NEW c \in Campaigns, Load(w, c)
  PROVE  CountInv'
<1> DEFINE known == {r \in campaign[c].to : log[c][r] = "sent"}
<1>1. /\ UNCHANGED <<campaign, log, delivered, audience, slow>> /\ On(w, c)
      /\ \A v \in Workers : v # w => worker'[v] = worker[v]
      /\ worker'[w].pc = "send" /\ worker'[w].queue = worker[w].queue
      /\ worker'[w].todo = campaign[c].to \ known
      /\ worker'[w].sent = Cardinality(known) /\ worker'[w].failed = worker[w].failed
      /\ worker[w].pc = "load"
  BY DEF Load, On, Sending, TypeOK, Worker
<1>2. \A d \in Campaigns : On(w, d)' => d = c
  <2>1. \A d \in Campaigns : On(w, d)' => On(w, d)
    BY <1>1 DEF On, Sending
  <2> QED  BY <1>1, <2>1, OneOnEach
<1>3. worker'[w].failed = 0
  BY <1>1 DEF CountInv
<1>4. audience[c] = campaign[c].to /\ audience[c] \in SUBSET Recipients
  BY DEF Load, ReachInv, TypeOK
<1>5. Tally(w, c, worker[w].todo)'
  <2>1. PICK all \in SUBSET Recipients : all = audience[c]
    BY <1>4
  <2>2. PICK done \in SUBSET all : done = known
    BY <1>4, <2>1
  <2>3. \A r \in done : r \in GotIt(c)
    BY <1>4, <2>2 DEF ReachInv, Reached, GotIt
  <2>4. PICK got \in SUBSET Recipients : got = GotIt(c)' \ (all \ done)
    BY GotItType
  <2>5. done \in SUBSET got
    BY <1>1, <2>2, <2>3, <2>4 DEF GotIt
  <2>6. Cardinality(done) <= Cardinality(got) /\ Cardinality(done) \in Nat
    BY <2>5, FewerRecipients
  <2>7. Cardinality(done) + Cardinality(all \ done) = Cardinality(all)
    BY HalvesAddUp
  <2>8. worker'[w].todo = all \ done /\ worker'[w].sent = Cardinality(done)
    BY <1>1, <1>4, <2>1, <2>2
  <2>9. worker'[w].sent + worker'[w].failed + Cardinality(worker'[w].todo) = Cardinality(audience'[c])
    <3>1. audience'[c] = all
      BY <1>1, <2>1
    <3>2. Cardinality(all \ done) \in Nat
      BY RecipientsCount
    <3> QED  BY <1>3, <2>6, <2>7, <2>8, <3>1, <3>2
  <2>10. worker'[w].sent <= Cardinality(GotIt(c)' \ worker'[w].todo)
    BY <2>4, <2>6, <2>8
  <2>11. worker'[w].todo \subseteq audience'[c]
    BY <1>1, <2>1, <2>8
  <2> QED  BY <2>9, <2>10, <2>11 DEF Tally
<1>6. \A d \in Campaigns : On(w, d)' => Tallies(w, d)'
  BY <1>1, <1>2, <1>5 DEF Tallies
<1>7. \A d \in Campaigns : GotIt(d) \subseteq GotIt(d)'
  BY <1>1 DEF GotIt
<1> HIDE DEF known
<1> QED  BY <1>1, <1>6, <1>7, CountFrame

\* A delivery counts its recipient, who is no longer part of the rest.
LEMMA CountDelivery ==
  ASSUME TypeOK, TypeOK', CountInv, NEW w \in Workers, NEW c \in Campaigns, NEW r \in Recipients,
         Deliver(w, c, r)
  PROVE  Tally(w, c, worker[w].todo \ {r})'
<1>1. /\ UNCHANGED <<audience>> /\ On(w, c) /\ worker[w].pc = "send" /\ r \in worker[w].todo
      /\ worker'[w].todo = worker[w].todo
      /\ worker'[w].sent = worker[w].sent + 1 /\ worker'[w].failed = worker[w].failed
      /\ worker[w].sent \in Nat /\ worker[w].failed \in Nat
      /\ worker[w].todo \in SUBSET Recipients
  BY DEF Deliver, Outcome, IsFirst, TypeOK, Worker
<1>2. PICK todo \in SUBSET Recipients : todo = worker[w].todo
  BY <1>1
<1>3. Tally(w, c, todo)
  BY <1>1, <1>2 DEF CountInv, Tallies
<1>4. r \in GotIt(c)' /\ GotIt(c) \subseteq GotIt(c)'
  <2>1. delivered' = [delivered EXCEPT ![c][r] = @ + 1]
    BY DEF Deliver
  <2>2. \A s \in Recipients : delivered[c][s] \in Nat /\ delivered'[c][s] \in {delivered[c][s], delivered[c][s] + 1}
    BY <2>1 DEF TypeOK
  <2>3. delivered'[c][r] = delivered[c][r] + 1
    BY <2>1 DEF TypeOK
  <2> QED  BY <2>2, <2>3 DEF GotIt
<1>5. PICK before \in SUBSET Recipients : before = GotIt(c) \ todo
  BY GotItType
<1>6. PICK after \in SUBSET Recipients : after = GotIt(c)' \ (todo \ {r})
  BY GotItType
<1>7. Cardinality(before) \in Nat /\ Cardinality(after) \in Nat
      /\ Cardinality(before) + 1 <= Cardinality(after)
  <2>1. r \in after
    BY <1>4, <1>6
  <2>2. Cardinality(after \ {r}) = Cardinality(after) - 1
    BY <2>1, OneRecipientLess
  <2>3. before \in SUBSET (after \ {r})
    BY <1>1, <1>2, <1>4, <1>5, <1>6
  <2>4. after \ {r} \in SUBSET Recipients
    OBVIOUS
  <2>5. Cardinality(before) <= Cardinality(after \ {r})
    BY <2>3, <2>4, FewerRecipients
  <2> QED  BY <2>2, <2>5, RecipientsCount
<1>8. Cardinality(todo \ {r}) = Cardinality(todo) - 1 /\ Cardinality(todo) \in Nat
  BY <1>1, <1>2, OneRecipientLess, RecipientsCount
<1>9. Tally(w, c, todo \ {r})'
  <2>1. worker[w].sent <= Cardinality(before)
    BY <1>3, <1>5 DEF Tally
  <2>2. worker'[w].sent <= Cardinality(GotIt(c)' \ (todo \ {r}))
    BY <1>1, <1>6, <1>7, <2>1
  <2>3. worker[w].sent + worker[w].failed + Cardinality(todo) = Cardinality(audience[c])
    BY <1>3 DEF Tally
  <2>4. worker'[w].sent + worker'[w].failed + Cardinality(todo \ {r}) = Cardinality(audience'[c])
    BY <1>1, <1>8, <2>3
  <2>5. todo \ {r} \subseteq audience'[c]
    BY <1>1, <1>3 DEF Tally
  <2> QED  BY <2>2, <2>4, <2>5 DEF Tally
<1> QED  BY <1>1, <1>2, <1>9 DEF Tally

\* A recipient given up is counted too, whether or not the message got there.
LEMMA CountFailure ==
  ASSUME TypeOK, TypeOK', CountInv, NEW w \in Workers, NEW c \in Campaigns, NEW r \in Recipients,
         On(w, c), worker[w].pc = "send", IsFirst(r, worker[w].todo), Outcome(w, FALSE),
         audience' = audience, GotIt(c) \subseteq GotIt(c)'
  PROVE  Tally(w, c, worker[w].todo \ {r})'
<1>1. /\ r \in worker[w].todo /\ worker'[w].todo = worker[w].todo
      /\ worker'[w].sent = worker[w].sent /\ worker'[w].failed = worker[w].failed + 1
      /\ worker[w].sent \in Nat /\ worker[w].failed \in Nat
      /\ worker[w].todo \in SUBSET Recipients
  BY DEF Outcome, IsFirst, TypeOK, Worker
<1>2. PICK todo \in SUBSET Recipients : todo = worker[w].todo
  BY <1>1
<1>3. Tally(w, c, todo)
  BY <1>1, <1>2 DEF CountInv, Tallies
<1>4. PICK before \in SUBSET Recipients : before = GotIt(c) \ todo
  BY GotItType
<1>5. PICK after \in SUBSET Recipients : after = GotIt(c)' \ (todo \ {r})
  BY GotItType
<1>6. before \in SUBSET after
  BY <1>4, <1>5
<1>7. Cardinality(before) \in Nat /\ Cardinality(after) \in Nat
      /\ Cardinality(before) <= Cardinality(after)
  BY <1>6, FewerRecipients
<1>8. Cardinality(todo \ {r}) = Cardinality(todo) - 1 /\ Cardinality(todo) \in Nat
  BY <1>1, <1>2, OneRecipientLess, RecipientsCount
<1>9. Tally(w, c, todo \ {r})'
  <2>1. worker[w].sent <= Cardinality(before)
    BY <1>3, <1>4 DEF Tally
  <2>2. worker'[w].sent <= Cardinality(GotIt(c)' \ (todo \ {r}))
    BY <1>1, <1>5, <1>7, <2>1
  <2>3. worker[w].sent + worker[w].failed + Cardinality(todo) = Cardinality(audience[c])
    BY <1>3 DEF Tally
  <2>4. worker'[w].sent + worker'[w].failed + Cardinality(todo \ {r}) = Cardinality(audience'[c])
    BY <1>1, <1>8, <2>3
  <2>5. todo \ {r} \subseteq audience'[c]
    BY <1>3 DEF Tally
  <2> QED  BY <2>2, <2>4, <2>5 DEF Tally
<1> QED  BY <1>1, <1>2, <1>9 DEF Tally

LEMMA CountAttempt ==
  ASSUME TypeOK, TypeOK', CountInv, NEW w \in Workers, NEW c \in Campaigns, NEW r \in Recipients,
         \/ Deliver(w, c, r) \/ AttemptFails(w, c, r)
         \/ AnswerLost(w, c, r) \/ Refused(w, c, r)
  PROVE  CountInv'
<1>1. /\ UNCHANGED <<campaign, audience, slow>>
      /\ On(w, c) /\ worker[w].pc = "send" /\ IsFirst(r, worker[w].todo)
  BY DEF Deliver, AttemptFails, AnswerLost, Refused
<1>2. /\ \A v \in Workers : v # w => worker'[v] = worker[v]
      /\ worker'[w].queue = worker[w].queue
  BY SendKeeps DEF SendStep
<1>3. \A d \in Campaigns : GotIt(d) \subseteq GotIt(d)'
  <2>1. \/ delivered' = delivered
        \/ delivered' = [delivered EXCEPT ![c][r] = @ + 1]
    BY DEF Deliver, AttemptFails, AnswerLost, Refused
  <2>2. \A d \in Campaigns, s \in Recipients :
           delivered[d][s] \in Nat /\ delivered'[d][s] \in {delivered[d][s], delivered[d][s] + 1}
    BY <2>1 DEF TypeOK
  <2> QED  BY <2>2 DEF GotIt
<1>4. \A d \in Campaigns : On(w, d)' => d = c
  <2>1. \A d \in Campaigns : On(w, d)' => On(w, d)
    BY <1>1, <1>2 DEF On
  <2> QED  BY <1>1, <2>1, OneOnEach
<1>5. CASE worker' = [worker EXCEPT ![w].attempt = @ + 1]
  <2>1. /\ worker'[w].pc = "send" /\ worker'[w].todo = worker[w].todo
        /\ worker'[w].sent = worker[w].sent /\ worker'[w].failed = worker[w].failed
    BY <1>1, <1>5 DEF TypeOK, Worker
  <2>2. PICK todo : todo = worker[w].todo
    OBVIOUS
  <2>3. Tally(w, c, todo)
    BY <1>1, <2>2 DEF CountInv, Tallies
  <2>4. Tally(w, c, todo)'
    BY <1>1, <1>3, <2>1, <2>3, TallyKept
  <2>5. Tallies(w, c)'
    BY <2>1, <2>2, <2>4 DEF Tallies, Tally
  <2> QED  BY <1>1, <1>2, <1>3, <1>4, <2>1, <2>5, CountFrame
<1>6. CASE Deliver(w, c, r) \/ Outcome(w, FALSE)
  <2>1. worker'[w].pc = "log" /\ worker'[w].todo = worker[w].todo
    BY <1>6 DEF Deliver, Outcome, TypeOK
  <2>2. Tally(w, c, worker[w].todo \ {r})'
    BY <1>1, <1>3, <1>6, CountDelivery, CountFailure
  <2>3. Tallies(w, c)'
    <3> SUFFICES ASSUME NEW s \in Recipients, IsFirst(s, worker'[w].todo)
                 PROVE  Tally(w, c, worker[w].todo \ {s})'
      BY <2>1 DEF Tallies
    <3>1. worker[w].todo \in SUBSET Int
      BY CampaignsAreIntegers DEF TypeOK, Worker
    <3>2. s = r
      BY <1>1, <2>1, <3>1, FirstIsUnique
    <3> QED  BY <2>2, <3>2
  <2> QED  BY <1>1, <1>2, <1>3, <1>4, <2>1, <2>3, CountFrame
<1> QED  BY <1>5, <1>6 DEF AttemptFails, AnswerLost, Refused, AfterFailedAttempt

LEMMA CountRecord ==
  ASSUME TypeOK, TypeOK', CountInv, NEW w \in Workers, NEW c \in Campaigns, NEW r \in Recipients,
         Record(w, c, r) \/ RecordLost(w, c, r)
  PROVE  CountInv'
<1>1. /\ UNCHANGED <<campaign, delivered, audience, slow>>
      /\ On(w, c) /\ worker[w].pc = "log" /\ IsFirst(r, worker[w].todo)
      /\ worker' = [worker EXCEPT ![w].pc = "count"]
  BY DEF Record, RecordLost
<1>2. /\ \A v \in Workers : v # w => worker'[v] = worker[v]
      /\ worker'[w].pc = "count" /\ worker'[w].queue = worker[w].queue
      /\ worker'[w].todo = worker[w].todo /\ worker'[w].failed = worker[w].failed
      /\ worker'[w].sent = worker[w].sent
  BY <1>1 DEF TypeOK, Worker
<1>3. \A d \in Campaigns : GotIt(d) \subseteq GotIt(d)'
  BY <1>1 DEF GotIt
<1>4. \A d \in Campaigns : On(w, d)' => d = c
  <2>1. \A d \in Campaigns : On(w, d)' => On(w, d)
    BY <1>1, <1>2 DEF On
  <2> QED  BY <1>1, <2>1, OneOnEach
<1>5. Tallies(w, c)'
  <2> SUFFICES ASSUME NEW s \in Recipients, IsFirst(s, worker[w].todo)
               PROVE  Tally(w, c, worker[w].todo \ {s})'
    BY <1>2 DEF Tallies
  <2>1. PICK rest : rest = worker[w].todo \ {s}
    OBVIOUS
  <2>2. Tally(w, c, rest)
    BY <1>1, <2>1 DEF CountInv, Tallies
  <2>3. Tally(w, c, rest)'
    BY <1>1, <1>2, <1>3, <2>2, TallyKept
  <2> QED  BY <1>2, <2>1, <2>3 DEF Tally
<1> QED  BY <1>1, <1>2, <1>3, <1>4, <1>5, CountFrame

\* The counters of the row become those of the process, and the recipient is done.
LEMMA CountCount ==
  ASSUME TypeOK, TypeOK', OneInv, CountInv,
         NEW w \in Workers, NEW c \in Campaigns, NEW r \in Recipients, Count(w, c, r)
  PROVE  CountInv'
<1>1. /\ UNCHANGED <<delivered, audience, slow>>
      /\ On(w, c) /\ worker[w].pc = "count" /\ IsFirst(r, worker[w].todo)
      /\ \A v \in Workers : v # w => worker'[v] = worker[v]
      /\ worker'[w].pc = "send" /\ worker'[w].queue = worker[w].queue
      /\ worker'[w].todo = worker[w].todo \ {r}
      /\ worker'[w].sent = worker[w].sent /\ worker'[w].failed = worker[w].failed
  BY DEF Count, TypeOK, Worker
<1>2. /\ campaign'[c].sent = worker[w].sent /\ campaign'[c].status = campaign[c].status
      /\ \A d \in Campaigns : d # c => campaign'[d] = campaign[d]
  BY DEF Count, TypeOK, Campaign
<1>3. \A d \in Campaigns : GotIt(d) \subseteq GotIt(d)'
  BY <1>1 DEF GotIt
<1>4. \A d \in Campaigns : On(w, d)' => d = c
  <2>1. \A d \in Campaigns : On(w, d)' => On(w, d)
    BY <1>1 DEF On
  <2> QED  BY <1>1, <2>1, OneOnEach
<1>5. PICK rest : rest = worker[w].todo \ {r}
  OBVIOUS
<1>6. Tally(w, c, rest)
  BY <1>1, <1>5 DEF CountInv, Tallies
<1>7. Tally(w, c, rest)'
  BY <1>1, <1>3, <1>6, TallyKept
<1>8. Tallies(w, c)'
  BY <1>1, <1>5, <1>7 DEF Tallies, Tally
<1>9. campaign'[c].sent <= Cardinality(GotIt(c)')
  <2>1. PICK part \in SUBSET Recipients : part = GotIt(c) \ rest
    BY GotItType
  <2>2. PICK all \in SUBSET Recipients : all = GotIt(c)
    BY GotItType
  <2>3. part \in SUBSET all
    BY <2>1, <2>2
  <2>4. Cardinality(part) \in Nat /\ Cardinality(all) \in Nat
        /\ Cardinality(part) <= Cardinality(all)
    BY <2>3, FewerRecipients
  <2>5. worker[w].sent <= Cardinality(part) /\ worker[w].sent \in Nat
    BY <1>6, <2>1 DEF Tally, TypeOK, Worker
  <2>6. GotIt(c)' = all
    BY <1>1, <2>2 DEF GotIt
  <2> QED  BY <1>2, <2>4, <2>5, <2>6
<1>10. c \notin slow => campaign'[c].status \notin Finished
  BY <1>1, <1>2 DEF OneInv, Finished
<1> QED  BY <1>1, <1>2, <1>3, <1>4, <1>8, <1>9, <1>10, CountFrame

\* With nobody left to visit, sent and failed account for the whole audience.
LEMMA CountEnds ==
  ASSUME TypeOK, TypeOK', CountInv, NEW w \in Workers, NEW c \in Campaigns,
         NoRecipients(w, c) \/ Finish(w, c)
  PROVE  CountInv'
<1>1. /\ UNCHANGED <<delivered, audience, slow>> /\ On(w, c)
      /\ worker' = [worker EXCEPT ![w] = Fresh("dispatch", worker[w].queue \ {c})]
  BY DEF NoRecipients, Finish, Advance, On, Sending
<1>2. /\ \A v \in Workers : v # w => worker'[v] = worker[v]
      /\ \A d \in Campaigns : ~On(w, d)'
  BY <1>1, FreshWorker, LeavesCampaign
<1>3. worker'[w].sent = 0 /\ worker'[w].failed = 0
  BY <1>1, FreshCountsNothing
<1>4. \A d \in Campaigns : GotIt(d) \subseteq GotIt(d)'
  BY <1>1 DEF GotIt
<1>5. CASE NoRecipients(w, c)
  <2>1. /\ \A d \in Campaigns : d # c => campaign'[d] = campaign[d]
        /\ campaign'[c].sent = campaign[c].sent /\ campaign'[c].to = {}
    BY <1>5 DEF NoRecipients, TypeOK, Campaign
  <2> QED  BY <1>1, <1>2, <1>3, <1>4, <2>1, CountFrame
<1>6. CASE Finish(w, c)
  <2>1. /\ \A d \in Campaigns : d # c => campaign'[d] = campaign[d]
        /\ campaign'[c].sent = worker[w].sent /\ campaign'[c].failed = worker[w].failed
        /\ worker[w].pc = "send" /\ worker[w].todo = {}
    BY <1>6 DEF Finish, TypeOK, Campaign
  <2>2. Tally(w, c, {})
    BY <1>1, <2>1 DEF CountInv, Tallies
  <2>3. campaign'[c].sent <= Cardinality(GotIt(c)')
    <3>1. GotIt(c)' = GotIt(c) \ {}
      BY <1>1 DEF GotIt
    <3> QED  BY <2>1, <2>2, <3>1 DEF Tally
  <2>4. campaign'[c].sent + campaign'[c].failed = Cardinality(audience[c])
    <3>1. worker[w].sent \in Nat /\ worker[w].failed \in Nat
      BY DEF TypeOK, Worker
    <3>2. worker[w].sent + worker[w].failed + 0 = Cardinality(audience[c])
      BY <2>2, FS_EmptySet DEF Tally
    <3> QED  BY <2>1, <3>1, <3>2
  <2> QED  BY <1>1, <1>2, <1>3, <1>4, <2>1, <2>3, <2>4, CountFrame
<1> QED  BY <1>5, <1>6

\* Steps of nobody's pass.  Queueing concerns a campaign nobody is on.
LEMMA CountRow ==
  ASSUME TypeOK, TypeOK', ReachInv, CountInv, NEW c \in Campaigns,
         Queue(c) \/ OrphanGoesStale(c) \/ SendOutlastsCutoff(c) \/ ClearPayload(c)
  PROVE  CountInv'
<1>1. UNCHANGED <<worker, delivered>> /\ slow \subseteq slow'
  BY DEF Queue, OrphanGoesStale, SendOutlastsCutoff, ClearPayload
<1>2. \A d \in Campaigns : d # c => campaign'[d] = campaign[d] /\ audience'[d] = audience[d]
  BY DEF Queue, OrphanGoesStale, SendOutlastsCutoff, ClearPayload, TypeOK
<1>3. \/ campaign'[c].status = campaign[c].status /\ audience'[c] = audience[c]
      \/ campaign[c].status = "none" /\ campaign'[c].status = "pending"
  BY DEF Queue, OrphanGoesStale, SendOutlastsCutoff, ClearPayload, TypeOK, Campaign
<1>4. /\ campaign'[c].sent = campaign[c].sent /\ campaign'[c].failed = campaign[c].failed
      /\ campaign'[c].status # "pending" => campaign'[c].to \in {{}, campaign[c].to}
  BY DEF Queue, OrphanGoesStale, SendOutlastsCutoff, ClearPayload, TypeOK, Campaign
<1>5. \A w \in Workers, d \in Campaigns : On(w, d)' => On(w, d) /\ audience'[d] = audience[d]
  <2>1. \A w \in Workers, d \in Campaigns : On(w, d)' <=> On(w, d)
    BY <1>1, SameWorkers
  <2> QED  BY <1>2, <1>3, <2>1 DEF ReachInv
<1>6. \A w \in Workers, d \in Campaigns : On(w, d)' => Tallies(w, d)'
  <2> SUFFICES ASSUME NEW w \in Workers, NEW d \in Campaigns, On(w, d)'
               PROVE  Tallies(w, d)'
    OBVIOUS
  <2>1. Tallies(w, d) /\ audience'[d] = audience[d] /\ worker' = worker
    BY <1>1, <1>5 DEF CountInv
  <2>2. GotIt(d)' = GotIt(d)
    BY <1>1 DEF GotIt
  <2> QED  BY <2>1, <2>2, SameTallies
<1>7. CountersAreReal'
  <2>1. \A d \in Campaigns : campaign'[d].sent = campaign[d].sent
    BY <1>2, <1>4
  <2>2. \A d \in Campaigns :
          campaign'[d].sent <= Cardinality({r \in Recipients : delivered'[d][r] >= 1})
    BY <1>1, <2>1 DEF CountInv, CountersAreReal
  <2>3. ASSUME NEW d \in Campaigns \ slow', campaign'[d].status \in Finished, campaign'[d].to # {}
        PROVE  campaign'[d].sent + campaign'[d].failed = Cardinality(audience'[d])
    <3>1. /\ campaign[d].status \in Finished /\ campaign[d].to # {}
          /\ audience'[d] = audience[d] /\ d \in Campaigns \ slow
          /\ campaign'[d].sent = campaign[d].sent /\ campaign'[d].failed = campaign[d].failed
      BY <1>1, <1>2, <1>3, <1>4, <2>3 DEF Finished
    <3> QED  BY <3>1 DEF CountInv, CountersAreReal
  <2> QED  BY <2>2, <2>3 DEF CountersAreReal
<1> QED  BY <1>1, <1>6, <1>7 DEF CountInv

LEMMA CountStep == TypeOK /\ OneInv /\ ReachInv /\ CountInv /\ [Next]_vars => CountInv'
<1> SUFFICES ASSUME TypeOK, OneInv, ReachInv, CountInv, [Next]_vars PROVE CountInv'
  OBVIOUS
<1>1. TypeOK'
  BY TypeStep
<1>2. CASE UNCHANGED vars
  <2>1. /\ UNCHANGED <<campaign, worker, delivered, audience, slow>>
        /\ \A c \in Campaigns : GotIt(c)' = GotIt(c)
    BY <1>2 DEF vars, GotIt
  <2>2. CountersAreReal'
    BY <2>1 DEF CountInv, CountersAreReal
  <2>3. \A w \in Workers, c \in Campaigns : On(w, c)' => Tallies(w, c)'
    BY <2>1, SameWorkers, SameTallies DEF CountInv
  <2> QED  BY <2>1, <2>2, <2>3 DEF CountInv
<1>3. CASE Next
  BY <1>1, <1>3, CountPass, CountClaim, CountLoad, CountAttempt, CountRecord, CountCount,
     CountEnds, CountRow DEF Next, WorkerStep, SendStep
<1> QED  BY <1>2, <1>3

\* The counters staff see never claim more than what was delivered, and those
\* of a finished campaign account for everybody it was queued for.
THEOREM CountersTellTheTruth == Spec => []CountersAreReal
<1>1. Init => CountInv
  <2> SUFFICES ASSUME Init PROVE CountInv
    OBVIOUS
  <2>1. \A c \in Campaigns : campaign[c].sent = 0 /\ campaign[c].status = "none"
    BY DEF Init
  <2>2. \A c \in Campaigns : Cardinality({r \in Recipients : delivered[c][r] >= 1}) \in Nat
    BY RecipientsCount
  <2>3. CountersAreReal
    BY <2>1, <2>2 DEF CountersAreReal, Finished
  <2>4. \A w \in Workers : worker[w].pc = "idle"
    BY DEF Init, Idle, Fresh
  <2> QED  BY <2>3, <2>4 DEF CountInv, On, Sending
<1>2. Init => ReachInv
  BY DEF Init, ReachInv, On, Sending, Idle, Fresh, CompletedReachedAll
<1>3. CountInv => CountersAreReal
  BY DEF CountInv
<1> QED  BY <1>1, <1>2, <1>3, OneInvariant, TypeInit, TypeStep, ReachStep, CountStep, PTL DEF Spec
=============================================================================
