------------------------- MODULE EmailDeliveryProofs -------------------------
(* Theorems about EmailDelivery, for any keys, any number of senders and    *)
(* attempts, any limit and any number of mishaps.                           *)
EXTENDS EmailDelivery, TLAPS

-----------------------------------------------------------------------------
(* Type correctness *)

\* A sender that is not idle is on a key.
LEMMA BusySender ==
  ASSUME TypeOK, NEW p \in Senders, sender[p].pc # "idle"
  PROVE  sender[p] \in Sender
BY DEF TypeOK, Idle

LEMMA IdleType ==
  ASSUME TypeOK, NEW p \in Senders, sender' = [sender EXCEPT ![p] = Idle]
  PROVE  sender' \in [Senders -> Sender \cup {Idle}]
BY DEF TypeOK

LEMMA SenderType ==
  ASSUME TypeOK, NEW p \in Senders, NEW next \in Sender,
         sender' = [sender EXCEPT ![p] = next]
  PROVE  sender' \in [Senders -> Sender \cup {Idle}]
BY DEF TypeOK

\* A sender that goes on to another point of its work.
LEMMA PcType ==
  ASSUME TypeOK, NEW p \in Senders, sender[p].pc # "idle",
         NEW pc \in {"reserve", "send", "count", "record"},
         sender' = [sender EXCEPT ![p].pc = pc]
  PROVE  sender' \in [Senders -> Sender \cup {Idle}]
<1> DEFINE next == [sender[p] EXCEPT !.pc = pc]
<1>1. sender[p] \in Sender
  BY BusySender
<1>2. next \in Sender
  BY <1>1, Zenon DEF Sender
<1>3. sender' = [sender EXCEPT ![p] = next]
  BY Zenon DEF TypeOK
<1> HIDE DEF next
<1> QED  BY <1>2, <1>3, SenderType

\* A sender that learns what became of its message.
LEMMA ToldType ==
  ASSUME TypeOK, NEW p \in Senders, sender[p].pc # "idle",
         NEW pc \in {"count", "record"}, NEW ok \in BOOLEAN,
         sender' = [sender EXCEPT ![p].pc = pc, ![p].ok = ok]
  PROVE  sender' \in [Senders -> Sender \cup {Idle}]
<1> DEFINE next == [[sender[p] EXCEPT !.pc = pc] EXCEPT !.ok = ok]
<1>1. sender[p] \in Sender
  BY BusySender
<1>2. next \in Sender
  BY <1>1, Zenon DEF Sender
<1>3. sender' = [sender EXCEPT ![p] = next]
  BY DEF TypeOK, Sender, Idle
<1> HIDE DEF next
<1> QED  BY <1>2, <1>3, SenderType

LEMMA FailedAttemptType ==
  ASSUME TypeOK, NEW p \in Senders, sender[p].pc = "send", AfterFailedAttempt(p)
  PROVE  sender' \in [Senders -> Sender \cup {Idle}]
<1>1. CASE sender[p].key \in ServiceKeys /\ sender[p].attempt < Attempts
  <2> DEFINE next == [sender[p] EXCEPT !.attempt = sender[p].attempt + 1]
  <2>1. sender[p] \in Sender
    BY BusySender
  <2>2. sender[p].attempt + 1 \in 1..Attempts
    BY <1>1, <2>1, ConstantsAssumption DEF Sender
  <2>3. next \in Sender
    BY <2>1, <2>2, Zenon DEF Sender
  <2>4. sender' = [sender EXCEPT ![p] = next]
    BY <1>1, Zenon DEF AfterFailedAttempt, TypeOK
  <2> HIDE DEF next
  <2> QED  BY <2>3, <2>4, SenderType
<1>2. CASE ~(sender[p].key \in ServiceKeys /\ sender[p].attempt < Attempts)
  BY <1>2, PcType DEF AfterFailedAttempt
<1> QED  BY <1>1, <1>2

\* What a request that sends a typed message has read of the counter was below
\* the limit, only such a request counts, and none begins with good news.
RequestInv ==
  \A p \in Senders :
    /\ sender[p].pc # "idle" /\ sender[p].key \in CustomKeys => sender[p].seen < RateLimit
    /\ sender[p].pc = "count" => sender[p].key \in CustomKeys
    /\ sender[p].pc = "reserve" => sender[p].ok = FALSE

LEMMA TypeInit == Init => TypeOK
BY ConstantsAssumption DEF Init, TypeOK, LogStatus

LEMMA BeginType ==
  ASSUME TypeOK, NEW p \in Senders, NEW k \in Keys, BeginService(p, k) \/ BeginCustom(p, k)
  PROVE  TypeOK'
<1> DEFINE next(n) == [pc |-> "reserve", key |-> k, attempt |-> 1, ok |-> FALSE, seen |-> n]
<1>1. /\ 0 \in 0..RateLimit /\ quota \in 0..RateLimit /\ 1 \in 1..Attempts
  BY ConstantsAssumption DEF TypeOK
<1>2. next(0) \in Sender /\ next(quota) \in Sender
  BY <1>1 DEF Sender
<1>3. sender' = [sender EXCEPT ![p] = next(0)] \/ sender' = [sender EXCEPT ![p] = next(quota)]
  BY DEF BeginService, BeginCustom
<1> HIDE DEF next
<1>4. sender' \in [Senders -> Sender \cup {Idle}]
  BY <1>2, <1>3, SenderType
<1> QED  BY <1>4 DEF TypeOK, BeginService, BeginCustom

LEMMA MishapType == TypeOK /\ Mishap => mishaps' \in 0..MaxMishaps
BY ConstantsAssumption DEF TypeOK, Mishap

\* The steps of a sender that only move it on.
LEMMA MoveType ==
  ASSUME TypeOK, NEW p \in Senders,
         NotReserved(p) \/ AttemptFails(p) \/ Refused(p)
  PROVE  TypeOK'
<1>1. sender' \in [Senders -> Sender \cup {Idle}]
  BY IdleType, PcType, FailedAttemptType DEF NotReserved, AttemptFails, Refused
<1> QED  BY <1>1 DEF TypeOK, NotReserved, AttemptFails, Refused

\* The steps that write to the log.
LEMMA LogType ==
  ASSUME TypeOK, NEW p \in Senders, Reserve(p) \/ Record(p)
  PROVE  TypeOK'
<1>1. sender' \in [Senders -> Sender \cup {Idle}]
  BY IdleType, PcType DEF Reserve, Record
<1>2. log' \in [Keys -> LogStatus]
  BY DEF TypeOK, Reserve, Record, LogStatus
<1> QED  BY <1>1, <1>2 DEF TypeOK, Reserve, Record

\* The steps with which a message goes out, or a sender is misled.
LEMMA SendType ==
  ASSUME TypeOK, NEW p \in Senders,
         RequestInv, Deliver(p) \/ AnswerLost(p) \/ CountTyped(p) \/ CacheFails(p)
  PROVE  TypeOK'
<1>1. sender[p] \in Sender /\ sender[p].key \in Keys /\ sender[p].seen \in 0..RateLimit
  BY BusySender DEF Deliver, AnswerLost, CountTyped, CacheFails, Sender
<1>2. CASE Deliver(p)
  <2>1. sender' \in [Senders -> Sender \cup {Idle}]
    BY <1>2, ToldType DEF Deliver
  <2>2. delivered' \in [Keys -> Nat]
    <3>1. \A n \in Nat : n + 1 \in Nat
      OBVIOUS
    <3>2. delivered' = [delivered EXCEPT ![sender[p].key] = delivered[sender[p].key] + 1]
      BY <1>2 DEF Deliver
    <3> QED  BY <1>1, <3>1, <3>2 DEF TypeOK
  <2>4. sentInHour' \in Nat
    BY <1>2 DEF Deliver, TypeOK
  <2> QED  BY <1>2, <2>1, <2>2, <2>4 DEF TypeOK, Deliver
<1>3. CASE AnswerLost(p)
  <2>1. sender' \in [Senders -> Sender \cup {Idle}]
    BY <1>3, FailedAttemptType DEF AnswerLost
  <2>2. delivered' \in [Keys -> Nat]
    <3>1. \A n \in Nat : n + 1 \in Nat
      OBVIOUS
    <3>2. delivered' = [delivered EXCEPT ![sender[p].key] = delivered[sender[p].key] + 1]
      BY <1>3 DEF AnswerLost
    <3> QED  BY <1>1, <3>1, <3>2 DEF TypeOK
  <2>4. sentInHour' \in Nat
    BY <1>3 DEF AnswerLost, TypeOK
  <2>3. unsure' \subseteq Keys /\ mishaps' \in 0..MaxMishaps
    BY <1>1, <1>3, MishapType DEF AnswerLost, TypeOK
  <2> QED  BY <1>3, <2>1, <2>2, <2>3, <2>4 DEF TypeOK, AnswerLost
<1>4. CASE CountTyped(p)
  <2>1. sender' \in [Senders -> Sender \cup {Idle}]
    BY <1>4, PcType DEF CountTyped
  <2>2. quota' \in 0..RateLimit
    <3>1. sender[p].seen < RateLimit /\ quota' = sender[p].seen + 1
      BY <1>4 DEF CountTyped, RequestInv
    <3> QED  BY <1>1, <3>1, ConstantsAssumption
  <2> QED  BY <1>4, <2>1, <2>2 DEF TypeOK, CountTyped
<1>5. CASE CacheFails(p)
  <2>1. sender' \in [Senders -> Sender \cup {Idle}]
    BY <1>5, ToldType DEF CacheFails
  <2>2. unsure' \subseteq Keys /\ mishaps' \in 0..MaxMishaps
    BY <1>1, <1>5, MishapType DEF CacheFails, TypeOK
  <2> QED  BY <1>5, <2>1, <2>2 DEF TypeOK, CacheFails
<1> QED  BY <1>2, <1>3, <1>4, <1>5

LEMMA LossType ==
  ASSUME TypeOK, NEW p \in Senders, RecordLost(p) \/ Crash(p)
  PROVE  TypeOK'
<1>1. sender[p].pc # "idle"
  BY DEF RecordLost, Crash, TypeOK, Sender, Idle
<1>2. sender[p].key \in Keys
  BY <1>1, BusySender DEF Sender
<1>3. sender' \in [Senders -> Sender \cup {Idle}]
  BY IdleType DEF RecordLost, Crash
<1>4. stuck' \subseteq Keys /\ mishaps' \in 0..MaxMishaps
  BY <1>2, MishapType DEF RecordLost, Crash, TypeOK
<1> QED  BY <1>3, <1>4 DEF TypeOK, RecordLost, Crash

-----------------------------------------------------------------------------
(* What a step leaves of its sender and of the others                        *)

\* Sender p goes on to pc with its key, what it has been told being ok.
Moves(p, pc, ok) ==
  /\ \A q \in Senders : q # p => sender'[q] = sender[q]
  /\ sender'[p].pc = pc
  /\ sender'[p].ok = ok
  /\ sender'[p].key = sender[p].key
  /\ sender'[p].seen = sender[p].seen

LEMMA PcMoves ==
  ASSUME TypeOK, NEW p \in Senders, sender[p].pc # "idle", NEW pc,
         sender' = [sender EXCEPT ![p].pc = pc]
  PROVE  Moves(p, pc, sender[p].ok)
<1>1. sender[p] \in Sender
  BY BusySender
<1> QED  BY <1>1 DEF TypeOK, Sender, Moves

LEMMA ToldMoves ==
  ASSUME TypeOK, NEW p \in Senders, sender[p].pc # "idle", NEW pc, NEW ok,
         sender' = [sender EXCEPT ![p].pc = pc, ![p].ok = ok]
  PROVE  Moves(p, pc, ok)
<1> DEFINE gone == [sender[p] EXCEPT !.pc = pc]
           told == [gone EXCEPT !.ok = ok]
<1>1. sender[p] \in Sender
  BY BusySender
<1>2. /\ gone = [pc |-> pc, key |-> sender[p].key, attempt |-> sender[p].attempt,
                 ok |-> sender[p].ok, seen |-> sender[p].seen]
  BY <1>1 DEF Sender
<1>3. sender' = [sender EXCEPT ![p] = told]
  BY DEF TypeOK, Sender, Idle
<1> HIDE DEF gone
<1>4. told = [pc |-> pc, key |-> sender[p].key, attempt |-> sender[p].attempt,
              ok |-> ok, seen |-> sender[p].seen]
  BY <1>2
<1> HIDE DEF told
<1> QED  BY <1>3, <1>4 DEF TypeOK, Moves

\* After a failed attempt the sender sends again or records.
LEMMA FailedAttemptMoves ==
  ASSUME TypeOK, NEW p \in Senders, sender[p].pc = "send", AfterFailedAttempt(p)
  PROVE  \E pc \in {"send", "record"} : Moves(p, pc, sender[p].ok)
<1>1. CASE sender[p].key \in ServiceKeys /\ sender[p].attempt < Attempts
  <2>1. sender[p] \in Sender
    BY BusySender
  <2>2. Moves(p, "send", sender[p].ok)
    BY <1>1, <2>1 DEF AfterFailedAttempt, TypeOK, Sender, Moves
  <2> QED  BY <2>2
<1>2. CASE ~(sender[p].key \in ServiceKeys /\ sender[p].attempt < Attempts)
  BY <1>2, PcMoves DEF AfterFailedAttempt
<1> QED  BY <1>1, <1>2

\* Sender p lets go of what it was on.
Leaves(p) ==
  /\ sender'[p] = Idle
  /\ \A q \in Senders : q # p => sender'[q] = sender[q]

LEMMA SenderFacts ==
  ASSUME TypeOK, NEW p \in Senders
  PROVE  /\ Reserve(p) => Moves(p, "send", sender[p].ok)
         /\ NotReserved(p) \/ Record(p) \/ RecordLost(p) \/ Crash(p) => Leaves(p)
         /\ Deliver(p) => Moves(p, IF sender[p].key \in CustomKeys THEN "count" ELSE "record", TRUE)
         /\ AttemptFails(p) \/ AnswerLost(p) =>
              \E pc \in {"send", "record"} : Moves(p, pc, sender[p].ok)
         /\ Refused(p) \/ CountTyped(p) => Moves(p, "record", sender[p].ok)
         /\ CacheFails(p) => Moves(p, "record", FALSE)
<1>1. Reserve(p) => Moves(p, "send", sender[p].ok)
  BY PcMoves DEF Reserve
<1>2. NotReserved(p) \/ Record(p) \/ RecordLost(p) \/ Crash(p) => Leaves(p)
  BY DEF NotReserved, Record, RecordLost, Crash, Leaves, TypeOK
<1>3. Deliver(p) => Moves(p, IF sender[p].key \in CustomKeys THEN "count" ELSE "record", TRUE)
  BY ToldMoves DEF Deliver
<1>4. AttemptFails(p) \/ AnswerLost(p) =>
        \E pc \in {"send", "record"} : Moves(p, pc, sender[p].ok)
  BY FailedAttemptMoves DEF AttemptFails, AnswerLost
<1>5. Refused(p) \/ CountTyped(p) => Moves(p, "record", sender[p].ok)
  BY PcMoves DEF Refused, CountTyped
<1>6. CacheFails(p) => Moves(p, "record", FALSE)
  BY ToldMoves DEF CacheFails
<1> QED  BY <1>1, <1>2, <1>3, <1>4, <1>5, <1>6

\* A sender begins with a key of its own choice, and holds nothing yet.
LEMMA BeginFacts ==
  ASSUME TypeOK, NEW p \in Senders, NEW k \in Keys, BeginService(p, k) \/ BeginCustom(p, k)
  PROVE  /\ sender'[p].pc = "reserve"
         /\ sender'[p].key = k
         /\ sender'[p].ok = FALSE
         /\ k \in CustomKeys => sender'[p].seen < RateLimit
         /\ \A q \in Senders : q # p => sender'[q] = sender[q]
BY ConstantsAssumption DEF TypeOK, BeginService, BeginCustom

LEMMA RequestStep ==
  ASSUME TypeOK, RequestInv, [Next]_vars
  PROVE  RequestInv'
<1>1. ASSUME NEW p \in Senders, NEW pc \in {"send", "record"}, NEW ok,
             Moves(p, pc, ok), sender[p].pc # "idle"
      PROVE  RequestInv'
  BY <1>1 DEF RequestInv, Moves
<1>2. ASSUME NEW p \in Senders, Leaves(p)
      PROVE  RequestInv'
  BY <1>2 DEF RequestInv, Leaves, Idle
<1>3. ASSUME NEW p \in Senders, SenderStep(p) \/ Crash(p)
      PROVE  RequestInv'
  <2>1. CASE Deliver(p)
    <3>1. Moves(p, IF sender[p].key \in CustomKeys THEN "count" ELSE "record", TRUE)
      BY <2>1, SenderFacts
    <3>2. sender[p].pc # "idle"
      BY <2>1 DEF Deliver
    <3> QED  BY <3>1, <3>2 DEF RequestInv, Moves
  <2>2. CASE NotReserved(p) \/ Record(p) \/ RecordLost(p) \/ Crash(p)
    BY <1>2, <2>2, SenderFacts
  <2>3. CASE Reserve(p) \/ AttemptFails(p) \/ AnswerLost(p) \/ Refused(p) \/ CountTyped(p)
             \/ CacheFails(p)
    <3>1. sender[p].pc # "idle"
      BY <2>3 DEF Reserve, AttemptFails, AnswerLost, Refused, CountTyped, CacheFails
    <3>2. \E pc \in {"send", "record"} : \E ok \in {sender[p].ok, FALSE} : Moves(p, pc, ok)
      BY <2>3, SenderFacts
    <3> QED  BY <1>1, <3>1, <3>2
  <2> QED  BY <1>3, <2>1, <2>2, <2>3 DEF SenderStep
<1>4. ASSUME NEW p \in Senders, NEW k \in Keys, BeginService(p, k) \/ BeginCustom(p, k)
      PROVE  RequestInv'
  BY <1>4, BeginFacts DEF RequestInv
<1>5. CASE HourPasses \/ UNCHANGED vars
  BY <1>5 DEF HourPasses, vars, RequestInv
<1> QED  BY <1>3, <1>4, <1>5 DEF Next

LEMMA TypeStep ==
  ASSUME TypeOK, RequestInv, [Next]_vars
  PROVE  TypeOK'
<1>1. CASE HourPasses \/ UNCHANGED vars
  BY <1>1, ConstantsAssumption DEF HourPasses, vars, TypeOK
<1> QED  BY <1>1, BeginType, MoveType, LogType, SendType, LossType DEF Next, SenderStep

LEMMA TypeInvariant == Spec => [](TypeOK /\ RequestInv)
<1>1. Init => RequestInv
  BY DEF Init, RequestInv, Idle
<1>2. TypeOK /\ RequestInv /\ [Next]_vars => TypeOK' /\ RequestInv'
  BY TypeStep, RequestStep
<1> QED  BY <1>1, <1>2, TypeInit, PTL DEF Spec

\* The log, the senders and the counters keep their types in every behaviour:
\* in particular no request writes a counter above the limit.
THEOREM TypeCorrect == Spec => []TypeOK
<1> QED  BY TypeInvariant, PTL

-----------------------------------------------------------------------------
(* One delivery per key.  A reservation is exclusive because its row is      *)
(* queued; what the sender has been told, and what the log says, is true of  *)
(* the mailbox unless the sender was misled.                                 *)

HeldInv(k) ==
  \A p \in Senders : Holds(p, k) =>
    /\ log[k] = "queued"
    /\ \A q \in Senders : Holds(q, k) => p = q
    /\ sender[p].pc = "send" => sender[p].ok = FALSE
    /\ sender[p].ok = TRUE => delivered[k] >= 1
    /\ (sender[p].ok = FALSE /\ k \notin unsure) => delivered[k] = 0

LoggedInv(k) ==
  /\ log[k] = "sent" => delivered[k] >= 1
  /\ (log[k] \in {"none", "failed"} /\ k \notin unsure) => delivered[k] = 0
  /\ k \notin unsure => delivered[k] <= 1

DeliveryInv == \A k \in Keys : HeldInv(k) /\ LoggedInv(k)

\* Key k is left alone: nothing of it changes, and whoever holds it afterwards
\* held it before and is where it was.
LeftAlone(k) ==
  /\ log'[k] = log[k] /\ delivered'[k] = delivered[k] /\ (k \in unsure' <=> k \in unsure)
  /\ \A p \in Senders : Holds(p, k)' => Holds(p, k) /\ sender'[p] = sender[p]

LEMMA LeftAloneKeeps ==
  ASSUME DeliveryInv, NEW k \in Keys, LeftAlone(k)
  PROVE  HeldInv(k)' /\ LoggedInv(k)'
<1>1. HeldInv(k) /\ LoggedInv(k)
  BY DEF DeliveryInv
<1>2. LoggedInv(k)'
  BY <1>1 DEF LoggedInv, LeftAlone
<1>3. HeldInv(k)'
  BY <1>1 DEF HeldInv, LeftAlone
<1> QED  BY <1>2, <1>3

\* A step of sender p that changes the log, the mailbox or the doubts of its
\* own key only leaves the other keys alone.
LEMMA OthersLeftAlone ==
  ASSUME TypeOK, NEW p \in Senders, SenderStep(p) \/ Crash(p),
         NEW k \in Keys, k # sender[p].key
  PROVE  LeftAlone(k)
<1>1. /\ \A q \in Senders : q # p => sender'[q] = sender[q]
      /\ sender'[p] = Idle \/ sender'[p].key = sender[p].key
  BY SenderFacts DEF SenderStep, Moves, Leaves
<1>2. log'[k] = log[k] /\ delivered'[k] = delivered[k] /\ (k \in unsure' <=> k \in unsure)
  BY DEF SenderStep, Reserve, NotReserved, Deliver, AttemptFails, AnswerLost, Refused,
         CountTyped, CacheFails, Record, RecordLost, Crash, TypeOK
<1> QED  BY <1>1, <1>2 DEF LeftAlone, Holds, Idle

\* What is known of the key of a sender that holds it.
LEMMA HeldFacts ==
  ASSUME TypeOK, DeliveryInv, NEW p \in Senders, sender[p].pc \in {"send", "count", "record"}
  PROVE  /\ sender[p].key \in Keys
         /\ sender[p].ok \in BOOLEAN
         /\ log[sender[p].key] = "queued"
         /\ \A q \in Senders : Holds(q, sender[p].key) => q = p
         /\ sender[p].pc = "send" => sender[p].ok = FALSE
         /\ sender[p].ok = TRUE => delivered[sender[p].key] >= 1
         /\ (sender[p].ok = FALSE /\ sender[p].key \notin unsure) => delivered[sender[p].key] = 0
         /\ sender[p].key \notin unsure => delivered[sender[p].key] <= 1
         /\ delivered[sender[p].key] \in Nat
<1>1. sender[p] \in Sender
  BY BusySender
<1>2. sender[p].key \in Keys /\ sender[p].ok \in BOOLEAN
  BY <1>1 DEF Sender
<1>3. Holds(p, sender[p].key)
  BY DEF Holds
<1> QED  BY <1>2, <1>3 DEF DeliveryInv, HeldInv, LoggedInv, TypeOK

LEMMA ReserveDelivery ==
  ASSUME TypeOK, RequestInv, DeliveryInv, NEW p \in Senders, Reserve(p),
         NEW k \in Keys, k = sender[p].key
  PROVE  HeldInv(k)' /\ LoggedInv(k)'
<1>1. /\ log'[k] = "queued" /\ log[k] \in {"none", "failed"}
      /\ delivered' = delivered /\ unsure' = unsure
  BY DEF Reserve, TypeOK, LogStatus, Blocks
<1>2. Moves(p, "send", FALSE)
  BY SenderFacts DEF Reserve, RequestInv
<1>3. k \notin unsure => delivered[k] = 0
  BY <1>1 DEF DeliveryInv, LoggedInv
<1>4. LoggedInv(k)'
  BY <1>1, <1>3 DEF LoggedInv
<1>5. \A q \in Senders : Holds(q, k)' => q = p
  BY <1>1, <1>2 DEF Moves, Holds, DeliveryInv, HeldInv
<1>6. HeldInv(k)'
  BY <1>1, <1>2, <1>3, <1>5 DEF HeldInv, Moves
<1> QED  BY <1>4, <1>6

LEMMA MovesDelivery ==
  ASSUME TypeOK, DeliveryInv, NEW p \in Senders,
         Deliver(p) \/ AttemptFails(p) \/ AnswerLost(p) \/ Refused(p) \/ CountTyped(p)
           \/ CacheFails(p),
         NEW k \in Keys, k = sender[p].key
  PROVE  HeldInv(k)' /\ LoggedInv(k)'
<1>1. sender[p].pc \in {"send", "count", "record"}
  BY DEF Deliver, AttemptFails, AnswerLost, Refused, CountTyped, CacheFails
<1>2. log'[k] = "queued"
  BY <1>1, HeldFacts DEF Deliver, AttemptFails, AnswerLost, Refused, CountTyped, CacheFails
<1>3. PICK pc \in {"send", "count", "record"}, ok \in BOOLEAN : Moves(p, pc, ok)
  BY <1>1, HeldFacts, SenderFacts
<1>4. \A q \in Senders : Holds(q, k)' => q = p
  BY <1>1, <1>3, HeldFacts DEF Moves, Holds
<1>5. delivered'[k] \in Nat
  BY <1>1, HeldFacts DEF Deliver, AttemptFails, AnswerLost, Refused, CountTyped, CacheFails, TypeOK
<1>6. /\ sender'[p].pc = "send" => sender'[p].ok = FALSE
      /\ sender'[p].ok = TRUE => delivered'[k] >= 1
      /\ (sender'[p].ok = FALSE /\ k \notin unsure') => delivered'[k] = 0
      /\ k \notin unsure' => delivered'[k] <= 1
  <2>1. CASE Deliver(p)
    <3>1. delivered'[k] = delivered[k] + 1 /\ unsure' = unsure /\ sender[p].pc = "send"
      BY <2>1 DEF Deliver, TypeOK
    <3>2. sender'[p].ok = TRUE /\ sender'[p].pc # "send"
      BY <2>1, SenderFacts DEF Moves
    <3>3. delivered[k] \in Nat /\ (k \notin unsure => delivered[k] = 0)
      BY <1>1, <3>1, HeldFacts
    <3> QED  BY <3>1, <3>2, <3>3
  <2>2. CASE AnswerLost(p)
    <3>1. k \in unsure' /\ sender[p].pc = "send"
      BY <2>2 DEF AnswerLost
    <3>2. sender'[p].ok = FALSE
      BY <1>1, <2>2, <3>1, SenderFacts, HeldFacts DEF Moves
    <3> QED  BY <3>1, <3>2
  <2>3. CASE CacheFails(p)
    <3>1. k \in unsure' /\ sender'[p].ok = FALSE /\ sender'[p].pc = "record"
      BY <2>3, SenderFacts DEF CacheFails, Moves
    <3> QED  BY <3>1
  <2>4. CASE AttemptFails(p) \/ Refused(p) \/ CountTyped(p)
    <3>1. delivered' = delivered /\ unsure' = unsure
      BY <2>4 DEF AttemptFails, Refused, CountTyped
    <3>2. sender'[p].ok = sender[p].ok /\ (sender'[p].pc = "send" => sender[p].pc = "send")
      <4>1. CountTyped(p) => sender'[p].pc # "send"
        BY SenderFacts DEF Moves
      <4>2. AttemptFails(p) \/ Refused(p) => sender[p].pc = "send"
        BY DEF AttemptFails, Refused
      <4> QED  BY <2>4, <4>1, <4>2, SenderFacts DEF Moves
    <3>3. /\ sender[p].pc = "send" => sender[p].ok = FALSE
          /\ sender[p].ok = TRUE => delivered[k] >= 1
          /\ (sender[p].ok = FALSE /\ k \notin unsure) => delivered[k] = 0
          /\ k \notin unsure => delivered[k] <= 1
      BY <1>1, HeldFacts
    <3> QED  BY <3>1, <3>2, <3>3
  <2> QED  BY <2>1, <2>2, <2>3, <2>4
<1>7. LoggedInv(k)'
  BY <1>2, <1>6 DEF LoggedInv
<1>8. HeldInv(k)'
  BY <1>2, <1>4, <1>6 DEF HeldInv
<1> QED  BY <1>7, <1>8

LEMMA LeavesDelivery ==
  ASSUME TypeOK, DeliveryInv, NEW p \in Senders,
         NotReserved(p) \/ Record(p) \/ RecordLost(p) \/ Crash(p),
         NEW k \in Keys, k = sender[p].key
  PROVE  HeldInv(k)' /\ LoggedInv(k)'
<1>1. Leaves(p)
  BY SenderFacts
<1>2. delivered' = delivered /\ unsure' = unsure
  BY DEF NotReserved, Record, RecordLost, Crash
<1>3. HeldInv(k) /\ LoggedInv(k)
  BY DEF DeliveryInv
<1>4. CASE log' = log
  <2>1. LeftAlone(k)
    BY <1>1, <1>2, <1>4 DEF LeftAlone, Leaves, Holds, Idle
  <2> QED  BY <2>1, LeftAloneKeeps
<1>5. CASE Record(p)
  <2>1. sender[p].pc = "record"
    BY <1>5 DEF Record
  <2>2. log'[k] = IF sender[p].ok THEN "sent" ELSE "failed"
    BY <1>5 DEF Record, TypeOK
  <2>3. LoggedInv(k)'
    BY <1>2, <2>1, <2>2, HeldFacts DEF LoggedInv
  <2>4. \A q \in Senders : ~Holds(q, k)'
    <3>1. \A q \in Senders : Holds(q, k) => q = p
      BY <2>1, HeldFacts
    <3> QED  BY <1>1, <3>1 DEF Leaves, Holds, Idle
  <2> QED  BY <2>3, <2>4 DEF HeldInv
<1> QED  BY <1>4, <1>5 DEF NotReserved, RecordLost, Crash

LEMMA DeliveryStep ==
  ASSUME TypeOK, RequestInv, DeliveryInv, [Next]_vars
  PROVE  DeliveryInv'
<1>1. ASSUME NEW p \in Senders, NEW k \in Keys, SenderStep(p) \/ Crash(p)
      PROVE  HeldInv(k)' /\ LoggedInv(k)'
  <2>1. CASE k # sender[p].key
    BY <1>1, <2>1, OthersLeftAlone, LeftAloneKeeps
  <2>2. CASE k = sender[p].key
    BY <1>1, <2>2, ReserveDelivery, MovesDelivery, LeavesDelivery DEF SenderStep
  <2> QED  BY <2>1, <2>2
<1>2. ASSUME NEW p \in Senders, NEW d \in Keys, BeginService(p, d) \/ BeginCustom(p, d),
             NEW k \in Keys
      PROVE  HeldInv(k)' /\ LoggedInv(k)'
  <2>1. log' = log /\ delivered' = delivered /\ unsure' = unsure
    BY <1>2 DEF BeginService, BeginCustom
  <2>2. LeftAlone(k)
    BY <1>2, <2>1, BeginFacts DEF LeftAlone, Holds
  <2> QED  BY <2>2, LeftAloneKeeps
<1>3. ASSUME HourPasses \/ UNCHANGED vars, NEW k \in Keys
      PROVE  HeldInv(k)' /\ LoggedInv(k)'
  <2>1. LeftAlone(k)
    BY <1>3 DEF HourPasses, vars, LeftAlone, Holds
  <2> QED  BY <2>1, LeftAloneKeeps
<1> QED  BY <1>1, <1>2, <1>3 DEF DeliveryInv, Next

LEMMA DeliveryInvariant == Spec => [](TypeOK /\ DeliveryInv)
<1>1. Init => DeliveryInv
  BY DEF Init, DeliveryInv, HeldInv, LoggedInv, Holds, Idle
<1>2. TypeOK /\ RequestInv /\ DeliveryInv /\ [Next]_vars => DeliveryInv'
  BY DeliveryStep
<1> QED  BY <1>1, <1>2, TypeInvariant, PTL DEF Spec

\* However many requests and passes overlap, one of them at most is sending
\* the message of a key, and its row is queued meanwhile.
THEOREM ReservationExcludes == Spec => []ExclusiveReservation
<1>1. DeliveryInv => ExclusiveReservation
  BY DEF DeliveryInv, HeldInv, ExclusiveReservation
<1> QED  BY <1>1, DeliveryInvariant, PTL

\* One copy per key, for any number of senders, retries and crashes, unless a
\* sender was told that a message failed which had gone out.
THEOREM OneCopy == Spec => []AtMostOnce
<1>1. DeliveryInv => AtMostOnce
  BY DEF DeliveryInv, LoggedInv, AtMostOnce
<1> QED  BY <1>1, DeliveryInvariant, PTL

\* What the log calls sent is in the mailbox, and what it calls failed is not,
\* unless the sender was misled.
THEOREM LogTellsTheTruth == Spec => []LogIsTrue
<1>1. DeliveryInv => LogIsTrue
  BY DEF DeliveryInv, LoggedInv, LogIsTrue
<1> QED  BY <1>1, DeliveryInvariant, PTL

\* A message logged as sent is never sent or recorded again.
THEOREM SentStaysSent == Spec => SentIsFinal
<1>1. TypeOK /\ DeliveryInv /\ [Next]_vars =>
        [\A k \in Keys : log[k] = "sent" => log'[k] = "sent" /\ delivered'[k] = delivered[k]]_vars
  <2> SUFFICES ASSUME TypeOK, DeliveryInv, Next, NEW k \in Keys, log[k] = "sent"
               PROVE  log'[k] = "sent" /\ delivered'[k] = delivered[k]
    OBVIOUS
  <2>1. ASSUME NEW p \in Senders, SenderStep(p) \/ Crash(p)
        PROVE  log'[k] = "sent" /\ delivered'[k] = delivered[k]
    <3>1. CASE k # sender[p].key
      BY <2>1, <3>1, OthersLeftAlone DEF LeftAlone
    <3>2. CASE k = sender[p].key
      <4>1. sender[p].pc \notin {"send", "count", "record"}
        BY <3>2, HeldFacts
      <4> QED
        BY <2>1, <3>2, <4>1 DEF SenderStep, Reserve, NotReserved, Deliver, AttemptFails,
           AnswerLost, Refused, CountTyped, CacheFails, Record, RecordLost, Crash, Blocks
    <3> QED  BY <3>1, <3>2
  <2>2. CASE \E p \in Senders, d \in Keys : BeginService(p, d) \/ BeginCustom(p, d)
    BY <2>2 DEF BeginService, BeginCustom
  <2>3. CASE HourPasses
    BY <2>3 DEF HourPasses
  <2> QED  BY <2>1, <2>2, <2>3 DEF Next
<1> QED  BY <1>1, DeliveryInvariant, PTL DEF Spec, SentIsFinal

\* A holder of k other than the one who moves is still its holder, and so is
\* the one who moves on with its key.
LEMMA HolderStays ==
  ASSUME NEW p \in Senders, NEW k \in Keys,
         \A q \in Senders : q # p => sender'[q] = sender[q],
         QueuedIsHeld, stuck \subseteq stuck', k \notin stuck', log[k] = "queued",
         ~Holds(p, k)
  PROVE  \E q \in Senders : Holds(q, k)'
<1>1. PICK q \in Senders : Holds(q, k)
  BY DEF QueuedIsHeld
<1> QED  BY <1>1 DEF Holds

LEMMA QueuedStep ==
  ASSUME TypeOK, QueuedIsHeld, [Next]_vars
  PROVE  QueuedIsHeld'
<1> SUFFICES ASSUME NEW k \in Keys, k \notin stuck', log'[k] = "queued"
             PROVE  \E q \in Senders : Holds(q, k)'
  BY DEF QueuedIsHeld
<1>1. ASSUME NEW p \in Senders, SenderStep(p) \/ Crash(p)
      PROVE  \E q \in Senders : Holds(q, k)'
  <2>1. stuck \subseteq stuck' /\ \A q \in Senders : q # p => sender'[q] = sender[q]
    <3>1. stuck \subseteq stuck'
      BY <1>1 DEF SenderStep, Reserve, NotReserved, Deliver, AttemptFails, AnswerLost, Refused,
         CountTyped, CacheFails, Record, RecordLost, Crash
    <3> QED  BY <1>1, <3>1, SenderFacts DEF SenderStep, Moves, Leaves
  <2>2. CASE k # sender[p].key
    <3>1. log[k] = "queued" /\ ~Holds(p, k)
      BY <1>1, <2>2, OthersLeftAlone DEF LeftAlone, Holds
    <3> QED  BY <2>1, <3>1, HolderStays
  <2>3. CASE k = sender[p].key
    <3>1. CASE Reserve(p) \/ Deliver(p) \/ AttemptFails(p) \/ AnswerLost(p) \/ Refused(p)
               \/ CountTyped(p) \/ CacheFails(p)
      <4>1. \E pc \in {"send", "count", "record"} : \E ok : Moves(p, pc, ok)
        BY <3>1, SenderFacts
      <4>2. Holds(p, k)'
        BY <2>3, <4>1 DEF Moves, Holds
      <4> QED  BY <4>2
    <3>2. CASE Record(p)
      BY <2>3, <3>2 DEF Record, TypeOK
    <3>3. CASE NotReserved(p) \/ RecordLost(p) \/ Crash(p)
      <4>1. log[k] = "queued" /\ ~Holds(p, k)
        BY <2>3, <3>3 DEF NotReserved, RecordLost, Crash, Holds
      <4> QED  BY <2>1, <4>1, HolderStays
    <3> QED  BY <1>1, <3>1, <3>2, <3>3 DEF SenderStep
  <2> QED  BY <2>2, <2>3
<1>2. ASSUME NEW p \in Senders, NEW d \in Keys, BeginService(p, d) \/ BeginCustom(p, d)
      PROVE  \E q \in Senders : Holds(q, k)'
  <2>1. log' = log /\ stuck' = stuck /\ ~Holds(p, k)
    BY <1>2 DEF BeginService, BeginCustom, Holds, Idle
  <2>2. \A q \in Senders : q # p => sender'[q] = sender[q]
    BY <1>2, BeginFacts
  <2> QED  BY <2>1, <2>2, HolderStays
<1>3. CASE HourPasses \/ UNCHANGED vars
  BY <1>3 DEF HourPasses, vars, QueuedIsHeld, Holds
<1> QED  BY <1>1, <1>2, <1>3 DEF Next

\* A key is blocked by a queued row only while somebody is sending its
\* message, unless the sender died or could not record the outcome.
THEOREM QueuedRowsAreHeld == Spec => []QueuedIsHeld
<1>1. Init => QueuedIsHeld
  BY DEF Init, QueuedIsHeld
<1>2. TypeOK /\ QueuedIsHeld /\ [Next]_vars => QueuedIsHeld'
  BY QueuedStep
<1> QED  BY <1>1, <1>2, TypeInvariant, PTL DEF Spec

-----------------------------------------------------------------------------
(* The hourly limit, when the requests of one member of staff do not overlap.*)
(* A request that has read the counter writes at least the counter plus one, *)
(* whether or not the hour has passed meanwhile.                             *)

LimitInv ==
  /\ \A p \in Senders : sender[p].pc # "idle" /\ sender[p].key \in CustomKeys =>
       \/ sender[p].pc = "record"
       \/ quota <= sender[p].seen
  /\ \/ sentInHour <= quota + mishaps
     \/ /\ \E p \in Senders : sender[p].pc = "count"
        /\ sentInHour <= quota + 1 + mishaps

LEMMA LimitStep ==
  ASSUME \A p, q \in Senders : p = q, TypeOK, RequestInv, LimitInv, [Next]_vars
  PROVE  LimitInv'
<1>0. /\ quota \in Nat /\ sentInHour \in Nat /\ mishaps \in Nat
  BY ConstantsAssumption DEF TypeOK
<1>1. ASSUME NEW p \in Senders, SenderStep(p) \/ Crash(p)
      PROVE  LimitInv'
  <2>1. sender[p].pc # "idle" /\ sender[p] \in Sender
    <3>1. sender[p].pc # "idle"
      BY <1>1 DEF SenderStep, Reserve, NotReserved, Deliver, AttemptFails, AnswerLost, Refused,
         CountTyped, CacheFails, Record, RecordLost, Crash, TypeOK, Sender, Idle
    <3> QED  BY <3>1, BusySender
  <2>2. sender[p].pc # "count" => sentInHour <= quota + mishaps
    BY DEF LimitInv
  <2>3. sender[p].pc = "count" => sentInHour <= quota + 1 + mishaps
    BY <1>0 DEF LimitInv
  <2>4. CASE Deliver(p)
    <3>1. Moves(p, IF sender[p].key \in CustomKeys THEN "count" ELSE "record", TRUE)
      BY <2>4, SenderFacts
    <3>2. /\ quota' = quota /\ mishaps' = mishaps /\ sender[p].pc = "send"
          /\ sentInHour' = IF sender[p].key \in CustomKeys THEN sentInHour + 1 ELSE sentInHour
      BY <2>4 DEF Deliver
    <3>3. CASE sender[p].key \in CustomKeys
      <4>1. sentInHour' <= quota' + 1 + mishaps' /\ sender'[p].pc = "count"
        BY <1>0, <2>2, <3>1, <3>2, <3>3 DEF Moves
      <4>2. quota' <= sender'[p].seen
        BY <2>1, <3>1, <3>2, <3>3 DEF Moves, LimitInv
      <4> QED  BY <4>1, <4>2 DEF LimitInv
    <3>4. CASE sender[p].key \notin CustomKeys
      BY <2>2, <3>1, <3>2, <3>4 DEF Moves, LimitInv
    <3> QED  BY <3>3, <3>4
  <2>5. CASE CountTyped(p)
    <3>1. /\ quota' = sender[p].seen + 1 /\ sentInHour' = sentInHour /\ mishaps' = mishaps
          /\ sender[p].pc = "count"
      BY <2>5 DEF CountTyped
    <3>2. sender[p].seen \in Nat /\ quota <= sender[p].seen
      BY <2>1, <3>1, ConstantsAssumption DEF LimitInv, RequestInv, Sender
    <3>3. sentInHour' <= quota' + mishaps'
      BY <1>0, <2>3, <3>1, <3>2
    <3>4. sender'[p].pc = "record"
      BY <2>5, SenderFacts DEF Moves
    <3> QED  BY <3>3, <3>4 DEF LimitInv
  <2>6. CASE AnswerLost(p)
    <3>1. /\ sentInHour' <= sentInHour + 1 /\ quota' = quota /\ mishaps' = mishaps + 1
          /\ sender[p].pc = "send"
      BY <1>0, <2>6 DEF AnswerLost, Mishap
    <3>2. sentInHour' \in Nat /\ sentInHour' <= quota' + mishaps'
      <4>1. sentInHour' \in Nat
        BY <1>0, <2>6 DEF AnswerLost
      <4> QED  BY <1>0, <2>2, <3>1, <4>1
    <3>3. PICK pc \in {"send", "record"} : Moves(p, pc, sender[p].ok)
      BY <2>6, SenderFacts
    <3> QED  BY <2>1, <3>1, <3>2, <3>3 DEF Moves, LimitInv
  <2>7. CASE CacheFails(p) \/ RecordLost(p) \/ Crash(p)
    <3>1. /\ sentInHour' = sentInHour /\ quota' = quota /\ mishaps' = mishaps + 1
      BY <2>7 DEF CacheFails, RecordLost, Crash, Mishap
    <3>2. sentInHour' <= quota' + mishaps'
      BY <1>0, <2>2, <2>3, <3>1
    <3>3. Leaves(p) \/ sender'[p].pc = "record"
      BY <2>7, SenderFacts DEF Moves
    <3> QED  BY <3>2, <3>3 DEF LimitInv, Leaves, Idle
  <2>8. CASE Reserve(p) \/ NotReserved(p) \/ AttemptFails(p) \/ Refused(p) \/ Record(p)
    <3>1. /\ sentInHour' = sentInHour /\ quota' = quota /\ mishaps' = mishaps
          /\ sender[p].pc # "count"
      BY <2>8 DEF Reserve, NotReserved, AttemptFails, Refused, Record
    <3>2. \/ Leaves(p)
          \/ \E pc \in {"send", "record"} : Moves(p, pc, sender[p].ok)
      BY <2>8, SenderFacts
    <3>3. sender[p].pc = "record" => sender'[p] = Idle
      BY <2>8, SenderFacts DEF Reserve, AttemptFails, Refused, NotReserved, Leaves
    <3>4. sentInHour' <= quota' + mishaps'
      BY <2>2, <3>1
    <3> QED  BY <2>1, <3>1, <3>2, <3>3, <3>4 DEF LimitInv, Leaves, Moves, Idle
  <2> QED  BY <1>1, <2>4, <2>5, <2>6, <2>7, <2>8 DEF SenderStep
<1>2. ASSUME NEW p \in Senders, NEW k \in Keys, BeginService(p, k) \/ BeginCustom(p, k)
      PROVE  LimitInv'
  <2>1. quota' = quota /\ sentInHour' = sentInHour /\ mishaps' = mishaps /\ sender[p].pc = "idle"
    BY <1>2 DEF BeginService, BeginCustom, Idle
  <2>2. /\ sender'[p].pc = "reserve" /\ (k \in CustomKeys => sender'[p].seen = quota)
        /\ sender'[p].key = k
    BY <1>2, ConstantsAssumption DEF BeginService, BeginCustom, TypeOK
  <2> QED  BY <1>0, <2>1, <2>2 DEF LimitInv
<1>3. CASE HourPasses
  <2>1. sender' = sender /\ quota' = 0 /\ sentInHour' = 0 /\ mishaps' = mishaps
    BY <1>3 DEF HourPasses
  <2>2. \A p \in Senders : sender[p].pc # "idle" => sender[p].seen >= 0
    BY BusySender, ConstantsAssumption DEF Sender
  <2> QED  BY <1>0, <2>1, <2>2 DEF LimitInv
<1>4. CASE UNCHANGED vars
  BY <1>4 DEF vars, LimitInv
<1> QED  BY <1>1, <1>2, <1>3, <1>4 DEF Next

\* One request after the other, staff never send more in an hour than the
\* limit, save for the messages whose counting failed.
THEOREM LimitHolds ==
  ASSUME \A p, q \in Senders : p = q
  PROVE  Spec => []TypedWithinLimit
<1>1. Init => LimitInv
  BY DEF Init, LimitInv, Idle
<1>2. TypeOK /\ RequestInv /\ LimitInv /\ [Next]_vars => LimitInv'
  BY LimitStep
<1>3. TypeOK /\ RequestInv /\ LimitInv => TypedWithinLimit
  <2> SUFFICES ASSUME TypeOK, RequestInv, LimitInv PROVE TypedWithinLimit
    OBVIOUS
  <2>1. /\ quota \in Nat /\ sentInHour \in Nat /\ mishaps \in Nat /\ quota <= RateLimit
    BY ConstantsAssumption DEF TypeOK
  <2>2. CASE sentInHour <= quota + mishaps
    BY <2>1, <2>2, ConstantsAssumption DEF TypedWithinLimit
  <2>3. ASSUME NEW p \in Senders, sender[p].pc = "count", sentInHour <= quota + 1 + mishaps
        PROVE  TypedWithinLimit
    <3>1. quota <= sender[p].seen /\ sender[p].seen < RateLimit
      BY <2>3 DEF LimitInv, RequestInv
    <3>2. sender[p].seen \in Nat
      BY <2>3, BusySender, ConstantsAssumption DEF Sender
    <3> QED  BY <2>1, <2>3, <3>1, <3>2, ConstantsAssumption DEF TypedWithinLimit
  <2> QED  BY <2>2, <2>3 DEF LimitInv
<1> QED  BY <1>1, <1>2, <1>3, TypeInvariant, PTL DEF Spec
=============================================================================
