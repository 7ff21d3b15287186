--------------------------- MODULE EmailCampaigns ---------------------------
(***************************************************************************)
(* The mass e-mail queue (clients/services/email_campaigns.py).            *)
(*                                                                         *)
(* Staff queue a campaign; the cron endpoint runs passes that list, claim  *)
(* and send campaigns, and an operator may process one by its id from the  *)
(* command line.  A claim is a conditional UPDATE; a campaign still        *)
(* running after EMAIL_CAMPAIGN_STALE_AFTER_MINUTES may be claimed again.  *)
(* started_at is written by the claim only, so a long send goes stale      *)
(* under the process that is still sending it.                             *)
(***************************************************************************)
EXTENDS Integers, FiniteSets

CONSTANTS
  NumCampaigns,   \* campaigns queued in a behaviour
  NumRecipients,  \* addresses there are
  Cron,           \* the processes that run passes
  Operators,      \* the processes of process_email_campaigns --campaign-id
  Limit,          \* the limit argument of a pass
  Attempts,       \* EMAIL_CAMPAIGN_RETRY_ATTEMPTS
  MaxMishaps      \* bound: crashes, lost answers, lost log rows, overlong sends

Campaigns == 1..NumCampaigns
Recipients == 1..NumRecipients
Workers == Cron \cup Operators

ASSUME ConstantsAssumption ==
  /\ NumCampaigns \in Nat
  /\ NumRecipients \in Nat
  /\ Limit \in Nat \ {0}
  /\ Attempts \in Nat \ {0}
  /\ MaxMishaps \in Nat

VARIABLES
  campaign,   \* the EmailCampaign rows
  log,        \* EmailLog.delivery_status under the key of a campaign and an address
  worker,     \* the local state of each process
  delivered,  \* copies of the message that reached a mailbox
  audience,   \* history: the addresses a campaign was queued for
  slow,       \* history: campaigns that went stale while they were being sent
  unsure,     \* history: the deliveries the log does not know of
  mishaps     \* crashes, lost answers, lost log rows and overlong sends so far

vars == <<campaign, log, worker, delivered, audience, slow, unsure, mishaps>>

-----------------------------------------------------------------------------
(* Types.  The status "none" is that of a campaign not queued yet. *)

Status == {"none", "pending", "running", "completed", "failed"}
Finished == {"completed", "failed"}

\* stale: started_at is older than the cutoff; to: recipient_emails
Campaign == [status : Status, stale : BOOLEAN, to : SUBSET Recipients,
             sent : Nat, failed : Nat]

\* todo: the recipients the loop has still to visit; ok: what became of the
\* message to the first of them
Worker == [pc : {"idle", "dispatch", "load", "send", "log", "count"},
           queue : SUBSET Campaigns, todo : SUBSET Recipients, attempt : 1..Attempts,
           ok : BOOLEAN, sent : Nat, failed : Nat]

\* at the head of the given list, nothing loaded
Fresh(pc, queue) == [pc |-> pc, queue |-> queue, todo |-> {}, attempt |-> 1,
                     ok |-> FALSE, sent |-> 0, failed |-> 0]
Idle == Fresh("idle", {})

TypeOK ==
  /\ campaign \in [Campaigns -> Campaign]
  /\ log \in [Campaigns -> [Recipients -> {"none", "sent", "failed"}]]
  /\ worker \in [Workers -> Worker]
  /\ delivered \in [Campaigns -> [Recipients -> Nat]]
  /\ audience \in [Campaigns -> SUBSET Recipients]
  /\ slow \subseteq Campaigns
  /\ unsure \subseteq Campaigns \X Recipients
  /\ mishaps \in 0..MaxMishaps

-----------------------------------------------------------------------------
(* Helpers.  Definitions headed "fault:" are what a plausible mistake would  *)
(* make of the definition that follows them.                                 *)

IsFirst(x, S) == x \in S /\ \A y \in S : x <= y

\* the filter of the list and of the claim
Claimable(c) ==
  campaign[c].status = "pending" \/ (campaign[c].status = "running" /\ campaign[c].stale)

\* order_by("created_at")[:limit]
FirstRows(S) == {c \in S : Cardinality({d \in S : d < c}) < Limit}

Sending(w) == worker[w].pc \in {"load", "send", "log", "count"}

\* w is processing c
On(w, c) == Sending(w) /\ IsFirst(c, worker[w].queue)

Mishap == mishaps < MaxMishaps /\ mishaps' = mishaps + 1

\* w is done with c
Advance(w, c) ==
  worker' = [worker EXCEPT ![w] = Fresh("dispatch", worker[w].queue \ {c})]

-----------------------------------------------------------------------------
(* Queueing and claiming *)

\* queue_mass_email_campaign: without a recipient it raises
Queue(c) ==
  /\ campaign[c].status = "none"
  /\ \A d \in Campaigns : d < c => campaign[d].status # "none"
  /\ \E to \in SUBSET Recipients \ {{}} :
       /\ campaign' = [campaign EXCEPT ![c].status = "pending", ![c].to = to]
       /\ audience' = [audience EXCEPT ![c] = to]
  /\ UNCHANGED <<log, worker, delivered, slow, unsure, mishaps>>

\* a pass lists what it can claim; an empty list ends it at once
ListPending(w) ==
  LET pending == {c \in Campaigns : Claimable(c)} IN
  /\ w \in Cron
  /\ worker[w].pc = "idle"
  /\ pending # {}
  /\ worker' = [worker EXCEPT ![w] = Fresh("dispatch", FirstRows(pending))]
  /\ UNCHANGED <<campaign, log, delivered, audience, slow, unsure, mishaps>>

\* process_email_campaigns --campaign-id
StartOne(w, c) ==
  /\ w \in Operators
  /\ worker[w].pc = "idle"
  /\ worker' = [worker EXCEPT ![w] = Fresh("dispatch", {c})]
  /\ UNCHANGED <<campaign, log, delivered, audience, slow, unsure, mishaps>>

\* _claim_pending_campaign: the UPDATE repeats the filter
Claim(w, c) ==
  /\ worker[w].pc = "dispatch"
  /\ IsFirst(c, worker[w].queue)
  /\ Claimable(c)
  /\ campaign' = [campaign EXCEPT ![c].status = "running", ![c].stale = FALSE]
  /\ worker' = [worker EXCEPT ![w].pc = "load"]
  /\ UNCHANGED <<log, delivered, audience, slow, unsure, mishaps>>

SkipClaim(w, c) ==
  /\ worker[w].pc = "dispatch"
  /\ IsFirst(c, worker[w].queue)
  /\ ~Claimable(c)
  /\ Advance(w, c)
  /\ UNCHANGED <<campaign, log, delivered, audience, slow, unsure, mishaps>>

EndPass(w) ==
  /\ worker[w].pc = "dispatch"
  /\ worker[w].queue = {}
  /\ worker' = [worker EXCEPT ![w] = Idle]
  /\ UNCHANGED <<campaign, log, delivered, audience, slow, unsure, mishaps>>

\* the payload was cleared in the meantime: there is nobody left to write to
NoRecipients(w, c) ==
  /\ worker[w].pc = "load"
  /\ IsFirst(c, worker[w].queue)
  /\ campaign[c].to = {}
  /\ campaign' = [campaign EXCEPT ![c].status = "failed", ![c].stale = FALSE]
  /\ Advance(w, c)
  /\ UNCHANGED <<log, delivered, audience, slow, unsure, mishaps>>

\* fault: a resumed campaign starts over
LoadEveryone(w, c) ==
  /\ worker[w].pc = "load"
  /\ IsFirst(c, worker[w].queue)
  /\ campaign[c].to # {}
  /\ worker' = [worker EXCEPT ![w].pc = "send", ![w].todo = campaign[c].to]
  /\ UNCHANGED <<campaign, log, delivered, audience, slow, unsure, mishaps>>

\* fault: the recipients left out are not counted
LoadUncounted(w, c) ==
  /\ worker[w].pc = "load"
  /\ IsFirst(c, worker[w].queue)
  /\ campaign[c].to # {}
  /\ worker' = [worker EXCEPT ![w].pc = "send",
                              ![w].todo = {r \in campaign[c].to : log[c][r] # "sent"}]
  /\ UNCHANGED <<campaign, log, delivered, audience, slow, unsure, mishaps>>

\* the recipients logged as sent are counted and left out of the loop
Load(w, c) ==
  LET alreadySent == {r \in campaign[c].to : log[c][r] = "sent"} IN
  /\ worker[w].pc = "load"
  /\ IsFirst(c, worker[w].queue)
  /\ campaign[c].to # {}
  /\ worker' = [worker EXCEPT ![w].pc = "send", ![w].todo = campaign[c].to \ alreadySent,
                              ![w].sent = Cardinality(alreadySent)]
  /\ UNCHANGED <<campaign, log, delivered, audience, slow, unsure, mishaps>>

-----------------------------------------------------------------------------
(* Sending to one recipient *)

\* the message to the first recipient has been sent, or it has failed
Outcome(w, ok) ==
  worker' = [worker EXCEPT ![w] =
    [pc |-> "log", queue |-> @.queue, todo |-> @.todo, attempt |-> 1, ok |-> ok,
     sent |-> IF ok THEN @.sent + 1 ELSE @.sent,
     failed |-> IF ok THEN @.failed ELSE @.failed + 1]]

\* send_mail returns 1
Deliver(w, c, r) ==
  /\ On(w, c) /\ worker[w].pc = "send" /\ IsFirst(r, worker[w].todo)
  /\ delivered' = [delivered EXCEPT ![c][r] = @ + 1]
  /\ Outcome(w, TRUE)
  /\ UNCHANGED <<campaign, log, audience, slow, unsure, mishaps>>

\* the exception of an attempt: another one, or the recipient has failed
AfterFailedAttempt(w) ==
  IF worker[w].attempt < Attempts
  THEN worker' = [worker EXCEPT ![w].attempt = @ + 1]
  ELSE Outcome(w, FALSE)

\* send_mail raises and nothing was sent
AttemptFails(w, c, r) ==
  /\ On(w, c) /\ worker[w].pc = "send" /\ IsFirst(r, worker[w].todo)
  /\ AfterFailedAttempt(w)
  /\ UNCHANGED <<campaign, log, delivered, audience, slow, unsure, mishaps>>

\* send_mail raises although the server has taken the message
AnswerLost(w, c, r) ==
  /\ On(w, c) /\ worker[w].pc = "send" /\ IsFirst(r, worker[w].todo)
  /\ Mishap
  /\ delivered' = [delivered EXCEPT ![c][r] = @ + 1]
  /\ unsure' = unsure \cup {<<c, r>>}
  /\ AfterFailedAttempt(w)
  /\ UNCHANGED <<campaign, log, audience, slow>>

\* send_mail returns 0: no further attempt
Refused(w, c, r) ==
  /\ On(w, c) /\ worker[w].pc = "send" /\ IsFirst(r, worker[w].todo)
  /\ Outcome(w, FALSE)
  /\ UNCHANGED <<campaign, log, delivered, audience, slow, unsure, mishaps>>

\* _log_email: update_or_create under the key, whatever the row said before
Record(w, c, r) ==
  /\ On(w, c) /\ worker[w].pc = "log" /\ IsFirst(r, worker[w].todo)
  /\ log' = [log EXCEPT ![c][r] = IF worker[w].ok THEN "sent" ELSE "failed"]
  /\ worker' = [worker EXCEPT ![w].pc = "count"]
  /\ UNCHANGED <<campaign, delivered, audience, slow, unsure, mishaps>>

\* _log_email swallows what the row raises, a client with several active
\* cases or a database error, and the loop goes on
RecordLost(w, c, r) ==
  /\ On(w, c) /\ worker[w].pc = "log" /\ IsFirst(r, worker[w].todo)
  /\ Mishap
  /\ unsure' = IF worker[w].ok THEN unsure \cup {<<c, r>>} ELSE unsure
  /\ worker' = [worker EXCEPT ![w].pc = "count"]
  /\ UNCHANGED <<campaign, log, delivered, audience, slow>>

\* the progress counters, after each recipient
Count(w, c, r) ==
  /\ On(w, c) /\ worker[w].pc = "count" /\ IsFirst(r, worker[w].todo)
  /\ campaign' = [campaign EXCEPT ![c].sent = worker[w].sent,
                                  ![c].failed = worker[w].failed]
  /\ worker' = [worker EXCEPT ![w].pc = "send", ![w].todo = @ \ {r}]
  /\ UNCHANGED <<log, delivered, audience, slow, unsure, mishaps>>

\* fault: the row is left running
FinishForgotten(w, c) ==
  /\ On(w, c) /\ worker[w].pc = "send" /\ worker[w].todo = {}
  /\ campaign' = [campaign EXCEPT ![c].sent = worker[w].sent,
                                  ![c].failed = worker[w].failed]
  /\ Advance(w, c)
  /\ UNCHANGED <<log, delivered, audience, slow, unsure, mishaps>>

\* the last save: the status is written whatever the row has become
Finish(w, c) ==
  /\ On(w, c) /\ worker[w].pc = "send" /\ worker[w].todo = {}
  /\ campaign' = [campaign EXCEPT
       ![c].sent = worker[w].sent, ![c].failed = worker[w].failed, ![c].stale = FALSE,
       ![c].status = IF worker[w].failed = 0 THEN "completed" ELSE "failed"]
  /\ Advance(w, c)
  /\ UNCHANGED <<log, delivered, audience, slow, unsure, mishaps>>

-----------------------------------------------------------------------------
(* Time, crashes and the retention of payloads *)

\* the campaign a process died on passes the cutoff
OrphanGoesStale(c) ==
  /\ campaign[c].status = "running" /\ ~campaign[c].stale
  /\ \A w \in Workers : ~On(w, c)
  /\ campaign' = [campaign EXCEPT ![c].stale = TRUE]
  /\ UNCHANGED <<log, worker, delivered, audience, slow, unsure, mishaps>>

\* a campaign passes the cutoff although a process is still sending it
SendOutlastsCutoff(c) ==
  /\ campaign[c].status = "running" /\ ~campaign[c].stale
  /\ \E w \in Workers : On(w, c)
  /\ Mishap
  /\ campaign' = [campaign EXCEPT ![c].stale = TRUE]
  /\ slow' = slow \cup {c}
  /\ UNCHANGED <<log, worker, delivered, audience, unsure>>

\* a process dies; a delivery it had not logged yet is forgotten
Crash(w) ==
  /\ worker[w].pc # "idle"
  /\ Mishap
  /\ worker' = [worker EXCEPT ![w] = Idle]
  /\ unsure' = unsure \cup
       {p \in Campaigns \X Recipients :
          /\ worker[w].pc = "log" /\ worker[w].ok
          /\ IsFirst(p[1], worker[w].queue) /\ IsFirst(p[2], worker[w].todo)}
  /\ UNCHANGED <<campaign, log, delivered, audience, slow>>

\* cleanup_email_logs --execute, for a campaign older than the retention period
ClearPayload(c) ==
  /\ campaign[c].status # "none"
  /\ campaign' = [campaign EXCEPT ![c].to = {}]
  /\ UNCHANGED <<log, worker, delivered, audience, slow, unsure, mishaps>>

-----------------------------------------------------------------------------
Init ==
  /\ campaign = [c \in Campaigns |-> [status |-> "none", stale |-> FALSE, to |-> {},
                                      sent |-> 0, failed |-> 0]]
  /\ log = [c \in Campaigns |-> [r \in Recipients |-> "none"]]
  /\ worker = [w \in Workers |-> Idle]
  /\ delivered = [c \in Campaigns |-> [r \in Recipients |-> 0]]
  /\ audience = [c \in Campaigns |-> {}]
  /\ slow = {}
  /\ unsure = {}
  /\ mishaps = 0

SendStep(w, c, r) ==
  \/ Deliver(w, c, r)
  \/ AttemptFails(w, c, r)
  \/ AnswerLost(w, c, r)
  \/ Refused(w, c, r)
  \/ Record(w, c, r)
  \/ RecordLost(w, c, r)
  \/ Count(w, c, r)

WorkerStep(w) ==
  \/ EndPass(w)
  \/ \E c \in Campaigns :
       \/ Claim(w, c)
       \/ SkipClaim(w, c)
       \/ NoRecipients(w, c)
       \/ Load(w, c)
       \/ Finish(w, c)
       \/ \E r \in Recipients : SendStep(w, c, r)

Next ==
  \/ \E c \in Campaigns : Queue(c) \/ OrphanGoesStale(c) \/ SendOutlastsCutoff(c)
                            \/ ClearPayload(c)
  \/ \E w \in Workers : WorkerStep(w) \/ ListPending(w) \/ Crash(w)
                          \/ (\E c \in Campaigns : StartOne(w, c))

Spec == Init /\ [][Next]_vars

\* A process that runs goes on, time passes, and the scheduler calls the cron
\* endpoint again and again.  Nobody has to queue anything, and no operator to
\* type a command.
Fairness ==
  /\ \A w \in Workers : WF_vars(WorkerStep(w))
  /\ \A w \in Cron : WF_vars(ListPending(w))
  /\ \A c \in Campaigns : WF_vars(OrphanGoesStale(c))

FairSpec == Spec /\ Fairness

-----------------------------------------------------------------------------
(* Properties *)

\* A campaign is sent by one process at a time, unless the sending outlasted
\* the 30 minutes after which another pass may take it over.
OneSender ==
  \A c \in Campaigns \ slow : \A v, w \in Workers : On(v, c) /\ On(w, c) => v = w

\* A campaign reported as completed has reached every address it was queued
\* for, even when two passes worked on it, answers got lost, processes died and
\* its recipients were cleared in the middle.
CompletedReachedAll ==
  \A c \in Campaigns : campaign[c].status = "completed" =>
    \A r \in audience[c] : delivered[c][r] >= 1

\* Nobody gets a message twice, however often the campaign is resumed, unless
\* the sending outlasted the cutoff or the log does not know of a delivery.
NoDuplicates ==
  \A c \in Campaigns \ slow : \A r \in Recipients :
    <<c, r>> \notin unsure => delivered[c][r] <= 1

\* sent_count never claims more than the addresses that got the message, and
\* the counters of a finished campaign account for every recipient, unless its
\* recipients were cleared or the sending outlasted the cutoff.
CountersAreReal ==
  /\ \A c \in Campaigns :
       campaign[c].sent <= Cardinality({r \in Recipients : delivered[c][r] >= 1})
  /\ \A c \in Campaigns \ slow :
       (campaign[c].status \in Finished /\ campaign[c].to # {}) =>
         campaign[c].sent + campaign[c].failed = Cardinality(audience[c])

\* Nothing is sent, logged or counted for a campaign that has been reported as
\* finished, unless its sending outlasted the cutoff.
FinishedCampaignIsFinal ==
  [][\A c \in Campaigns \ slow : campaign[c].status \in Finished =>
       /\ delivered'[c] = delivered[c]
       /\ log'[c] = log[c]
       /\ campaign'[c] = [campaign[c] EXCEPT !.to = campaign'[c].to]]_vars

\* Every queued campaign is finished in the end: the work of a process that
\* died is taken over, and failing mailboxes do not hold the queue up.
EveryCampaignFinishes ==
  \A c \in Campaigns : campaign[c].status = "pending" ~> campaign[c].status \in Finished
=============================================================================
