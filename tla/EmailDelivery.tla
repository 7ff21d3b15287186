--------------------------- MODULE EmailDelivery ----------------------------
(***************************************************************************)
(* Single e-mails with an idempotency key (clients/services/               *)
(* notifications.py and send_custom_email in clients/views/emails.py).     *)
(*                                                                         *)
(* The key stands for one reason to write to a client: a reminder window,  *)
(* or one text typed by one member of staff.  A sender reserves the key in *)
(* one transaction (the log row becomes queued), talks to the mail server  *)
(* outside any transaction and records the outcome.  A queued or sent row  *)
(* blocks the key; a failed one does not.  A message typed by staff is     *)
(* tried once, and counts against an hourly limit kept in the cache.       *)
(***************************************************************************)
EXTENDS Integers, FiniteSets

CONSTANTS
  ServiceKeys,   \* keys of the messages the system sends of itself
  CustomKeys,    \* keys of the messages one member of staff types
  NoCase,        \* keys whose row cannot be saved: the client has several
                 \* active cases and the message names none
  Senders,       \* requests and passes that run at the same time
  Attempts,      \* EMAIL_SEND_RETRY_ATTEMPTS
  RateLimit,     \* EMAIL_RATE_LIMIT_PER_HOUR
  MaxMishaps     \* bound: crashes, lost answers, lost log rows, cache failures

Keys == ServiceKeys \cup CustomKeys

ASSUME ConstantsAssumption ==
  /\ ServiceKeys \cap CustomKeys = {}
  /\ NoCase \subseteq ServiceKeys \cup CustomKeys
  /\ Attempts \in Nat \ {0}
  /\ RateLimit \in Nat
  /\ MaxMishaps \in Nat

VARIABLES
  log,        \* EmailLog.delivery_status of the row with the key
  sender,     \* the local state of each sender
  delivered,  \* copies that reached the mailbox
  quota,      \* the cached number of messages typed within the hour
  sentInHour, \* history: messages typed that did go out within the hour
  unsure,     \* history: keys with a delivery the sender was told failed
  stuck,      \* history: keys whose sender died or could not record the outcome
  mishaps     \* mishaps so far

vars == <<log, sender, delivered, quota, sentInHour, unsure, stuck, mishaps>>

-----------------------------------------------------------------------------
(* Types *)

LogStatus == {"none", "queued", "sent", "failed"}

\* seen: the rate counter as the request read it
Sender == [pc : {"reserve", "send", "count", "record"}, key : Keys,
           attempt : 1..Attempts, ok : BOOLEAN, seen : 0..RateLimit]
Idle == [pc |-> "idle"]

TypeOK ==
  /\ log \in [Keys -> LogStatus]
  /\ sender \in [Senders -> Sender \cup {Idle}]
  /\ delivered \in [Keys -> Nat]
  /\ quota \in 0..RateLimit
  /\ sentInHour \in Nat
  /\ unsure \subseteq Keys
  /\ stuck \subseteq Keys
  /\ mishaps \in 0..MaxMishaps

-----------------------------------------------------------------------------
(* Helpers.  Definitions headed "fault:" are what a plausible mistake would  *)
(* make of the definition that follows them.                                 *)

\* fault: a message that was sent does not block its key
BlocksQueuedOnly(status) == status = "queued"

\* fault: a message that failed is never tried again
BlocksFailedToo(status) == status \in {"queued", "sent", "failed"}

\* blocking_statuses
Blocks(status) == status \in {"queued", "sent"}

\* p holds the reservation of k
Holds(p, k) == sender[p].pc \in {"send", "count", "record"} /\ sender[p].key = k

Mishap == mishaps < MaxMishaps /\ mishaps' = mishaps + 1

-----------------------------------------------------------------------------
(* A sender *)

\* _send_email for a reminder, a status change, a receipt
BeginService(p, k) ==
  /\ k \in ServiceKeys
  /\ sender[p] = Idle
  /\ sender' = [sender EXCEPT ![p] = [pc |-> "reserve", key |-> k, attempt |-> 1,
                                      ok |-> FALSE, seen |-> 0]]
  /\ UNCHANGED <<log, delivered, quota, sentInHour, unsure, stuck, mishaps>>

\* send_custom_email: the limit is checked before anything else
BeginCustom(p, k) ==
  /\ k \in CustomKeys
  /\ sender[p] = Idle
  /\ quota < RateLimit
  /\ sender' = [sender EXCEPT ![p] = [pc |-> "reserve", key |-> k, attempt |-> 1,
                                      ok |-> FALSE, seen |-> quota]]
  /\ UNCHANGED <<log, delivered, quota, sentInHour, unsure, stuck, mishaps>>

\* _reserve_idempotent_email_send: one transaction, the row locked; a second
\* row with the key violates the unique constraint
Reserve(p) ==
  /\ sender[p].pc = "reserve"
  /\ sender[p].key \notin NoCase
  /\ ~Blocks(log[sender[p].key])
  /\ log' = [log EXCEPT ![sender[p].key] = "queued"]
  /\ sender' = [sender EXCEPT ![p].pc = "send"]
  /\ UNCHANGED <<delivered, quota, sentInHour, unsure, stuck, mishaps>>

\* the key is taken, or the row cannot be saved and the exception ends it
NotReserved(p) ==
  /\ sender[p].pc = "reserve"
  /\ Blocks(log[sender[p].key]) \/ sender[p].key \in NoCase
  /\ sender' = [sender EXCEPT ![p] = Idle]
  /\ UNCHANGED <<log, delivered, quota, sentInHour, unsure, stuck, mishaps>>

\* send_mail returns 1; a typed message is then counted
Deliver(p) ==
  LET k == sender[p].key IN
  /\ sender[p].pc = "send"
  /\ delivered' = [delivered EXCEPT ![k] = @ + 1]
  /\ sentInHour' = IF k \in CustomKeys THEN sentInHour + 1 ELSE sentInHour
  /\ sender' = [sender EXCEPT ![p].pc = IF k \in CustomKeys THEN "count" ELSE "record",
                              ![p].ok = TRUE]
  /\ UNCHANGED <<log, quota, unsure, stuck, mishaps>>

\* send_mail raised: _send_mail_with_retry tries again, a typed message is
\* tried once
AfterFailedAttempt(p) ==
  sender' = IF sender[p].key \in ServiceKeys /\ sender[p].attempt < Attempts
            THEN [sender EXCEPT ![p].attempt = @ + 1]
            ELSE [sender EXCEPT ![p].pc = "record"]

AttemptFails(p) ==
  /\ sender[p].pc = "send"
  /\ AfterFailedAttempt(p)
  /\ UNCHANGED <<log, delivered, quota, sentInHour, unsure, stuck, mishaps>>

\* send_mail raised although the server has taken the message
AnswerLost(p) ==
  LET k == sender[p].key IN
  /\ sender[p].pc = "send"
  /\ Mishap
  /\ delivered' = [delivered EXCEPT ![k] = @ + 1]
  /\ sentInHour' = IF k \in CustomKeys THEN sentInHour + 1 ELSE sentInHour
  /\ unsure' = unsure \cup {k}
  /\ AfterFailedAttempt(p)
  /\ UNCHANGED <<log, quota, stuck>>

\* send_mail returns 0: no further attempt
Refused(p) ==
  /\ sender[p].pc = "send"
  /\ sender' = [sender EXCEPT ![p].pc = "record"]
  /\ UNCHANGED <<log, delivered, quota, sentInHour, unsure, stuck, mishaps>>

\* cache.set: the counter the request read, plus one
CountTyped(p) ==
  /\ sender[p].pc = "count"
  /\ quota' = sender[p].seen + 1
  /\ sender' = [sender EXCEPT ![p].pc = "record"]
  /\ UNCHANGED <<log, delivered, sentInHour, unsure, stuck, mishaps>>

\* the cache raises: the message has gone out and is recorded as failed
CacheFails(p) ==
  /\ sender[p].pc = "count"
  /\ Mishap
  /\ unsure' = unsure \cup {sender[p].key}
  /\ sender' = [sender EXCEPT ![p].pc = "record", ![p].ok = FALSE]
  /\ UNCHANGED <<log, delivered, quota, sentInHour, stuck>>

\* _log_email
Record(p) ==
  /\ sender[p].pc = "record"
  /\ log' = [log EXCEPT ![sender[p].key] = IF sender[p].ok THEN "sent" ELSE "failed"]
  /\ sender' = [sender EXCEPT ![p] = Idle]
  /\ UNCHANGED <<delivered, quota, sentInHour, unsure, stuck, mishaps>>

\* _log_email swallows what the database raises: the row stays queued
RecordLost(p) ==
  /\ sender[p].pc = "record"
  /\ Mishap
  /\ stuck' = stuck \cup {sender[p].key}
  /\ sender' = [sender EXCEPT ![p] = Idle]
  /\ UNCHANGED <<log, delivered, quota, sentInHour, unsure>>

\* the process dies
Crash(p) ==
  /\ sender[p] # Idle
  /\ Mishap
  /\ stuck' = IF sender[p].pc = "reserve" THEN stuck ELSE stuck \cup {sender[p].key}
  /\ sender' = [sender EXCEPT ![p] = Idle]
  /\ UNCHANGED <<log, delivered, quota, sentInHour, unsure>>

\* the cache entry expires, an hour after the last message that was counted
HourPasses ==
  /\ quota' = 0
  /\ sentInHour' = 0
  /\ UNCHANGED <<log, sender, delivered, unsure, stuck, mishaps>>

-----------------------------------------------------------------------------
Init ==
  /\ log = [k \in Keys |-> "none"]
  /\ sender = [p \in Senders |-> Idle]
  /\ delivered = [k \in Keys |-> 0]
  /\ quota = 0
  /\ sentInHour = 0
  /\ unsure = {}
  /\ stuck = {}
  /\ mishaps = 0

SenderStep(p) ==
  \/ Reserve(p) \/ NotReserved(p)
  \/ Deliver(p) \/ AttemptFails(p) \/ AnswerLost(p) \/ Refused(p)
  \/ CountTyped(p) \/ CacheFails(p)
  \/ Record(p) \/ RecordLost(p)

Next ==
  \/ \E p \in Senders : \/ SenderStep(p) \/ Crash(p)
                        \/ \E k \in Keys : BeginService(p, k) \/ BeginCustom(p, k)
  \/ HourPasses

Spec == Init /\ [][Next]_vars

\* A sender goes on.  The passes come back to every key, and the mail server
\* does not refuse a message for ever.
Fairness ==
  /\ \A p \in Senders : WF_vars(SenderStep(p))
  /\ \A k \in ServiceKeys :
       /\ SF_vars(\E p \in Senders : BeginService(p, k))
       /\ SF_vars(\E p \in Senders : sender[p].pc = "send" /\ sender[p].key = k /\ Deliver(p))

FairSpec == Spec /\ Fairness

-----------------------------------------------------------------------------
(* Properties *)

\* No two requests or passes are sending the message of one key, and the row
\* stays queued as long as one is.
ExclusiveReservation ==
  \A k \in Keys : \A p, q \in Senders : Holds(p, k) =>
    log[k] = "queued" /\ (Holds(q, k) => p = q)

\* A client gets the message of a key once, unless a sender was told that a
\* message failed which had gone out.
AtMostOnce == \A k \in Keys \ unsure : delivered[k] <= 1

\* The log tells the truth: what it calls sent has reached the mailbox, and
\* what it calls failed, and will send again, has not.
LogIsTrue ==
  \A k \in Keys : /\ log[k] = "sent" => delivered[k] >= 1
                  /\ (log[k] = "failed" /\ k \notin unsure) => delivered[k] = 0

\* A queued row is somebody's: it blocks its key only while a message is being
\* sent, unless the sender died or could not record the outcome.
QueuedIsHeld ==
  \A k \in Keys \ stuck : log[k] = "queued" => \E p \in Senders : Holds(p, k)

\* Nothing is sent or recorded for a key once its message is logged as sent.
SentIsFinal ==
  [][\A k \in Keys : log[k] = "sent" => log'[k] = "sent" /\ delivered'[k] = delivered[k]]_vars

\* "Превышен лимит отправки писем (%(limit)s в час)": staff send no more than
\* the limit, save for the messages whose counting failed.
TypedWithinLimit == sentInHour <= RateLimit + mishaps

\* A message that failed is tried again until it is out, unless its row got
\* stuck.
EveryReminderGetsOut ==
  \A k \in ServiceKeys \ NoCase : <>(log[k] = "sent" \/ k \in stuck)
=============================================================================
