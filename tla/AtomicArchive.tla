---------------------------- MODULE AtomicArchive ----------------------------
(***************************************************************************)
(* What archiving promises the office, with no word about locks, batches   *)
(* or transactions: a client is put away with every active case at once    *)
(* and comes back with just those, a case comes and goes by itself, and    *)
(* the tasks of what is put away sleep until it comes back.                *)
(***************************************************************************)
EXTENDS Naturals

CONSTANTS Cases, Tasks

VARIABLES
    hidden,    \* the client is shown as archived
    away,      \* the client was put away and has not been brought back
    place,     \* where each case is, and how it got there
    concerns,  \* the case of each task, 0 for one not made yet
    open,      \* the tasks that are not completed
    asleep     \* the tasks put away with their case

vars == <<hidden, away, place, concerns, open, asleep>>

In(where) == {c \in Cases : place[c] = where}
TasksOf(some) == {t \in Tasks : concerns[t] \in some}

PutAway(some, how) ==
    /\ place' = [c \in Cases |-> IF c \in some THEN how ELSE place[c]]
    /\ asleep' = asleep \union (open \intersect TasksOf(some))

BringBack(some) ==
    /\ place' = [c \in Cases |-> IF c \in some THEN "active" ELSE place[c]]
    /\ asleep' = asleep \ TasksOf(some)

Init ==
    /\ hidden = FALSE /\ away = FALSE
    /\ place = [c \in Cases |-> IF c = 1 THEN "active" ELSE "nowhere"]
    /\ concerns = [t \in Tasks |-> 0]
    /\ open = {} /\ asleep = {}

(* Every active case goes with the client, none that was put away before. *)
ArchiveClient ==
    /\ ~hidden /\ ~away
    /\ hidden' = TRUE /\ away' = TRUE
    /\ PutAway(In("active"), "together")
    /\ UNCHANGED <<concerns, open>>

(* The cases put away with the client come back, but for those that already *)
(* have.                                                                    *)
RestoreClient ==
    /\ hidden /\ away
    /\ hidden' = FALSE /\ away' = FALSE
    /\ BringBack(In("together"))
    /\ UNCHANGED <<concerns, open>>

ArchiveCase(c) ==
    /\ ~hidden
    /\ place[c] = "active"
    /\ PutAway({c}, "alone")
    /\ UNCHANGED <<hidden, away, concerns, open>>

(* A case may come back to a client who has been put away in the meantime. *)
RestoreCase(c) ==
    /\ place[c] \in {"alone", "together"}
    /\ BringBack({c})
    /\ UNCHANGED <<hidden, away, concerns, open>>

CreateCase(c) ==
    /\ place[c] = "nowhere"
    /\ place' = [place EXCEPT ![c] = "active"]
    /\ UNCHANGED <<hidden, away, concerns, open, asleep>>

(* A form opened before shows the client again; nothing else comes back. *)
EditClient ==
    /\ hidden' = FALSE
    /\ UNCHANGED <<away, place, concerns, open, asleep>>

(* One open task for a case at a time. *)
CreateTask(t, c) ==
    /\ concerns[t] = 0
    /\ place[c] # "nowhere"
    /\ open \intersect TasksOf({c}) = {}
    /\ concerns' = [concerns EXCEPT ![t] = c]
    /\ open' = open \union {t}
    /\ UNCHANGED <<hidden, away, place, asleep>>

CompleteTask(t) ==
    /\ t \in open
    /\ open' = open \ {t}
    /\ UNCHANGED <<hidden, away, place, concerns, asleep>>

Next ==
    \/ EditClient \/ ArchiveClient \/ RestoreClient
    \/ \E c \in Cases :
          \/ ArchiveCase(c) \/ RestoreCase(c) \/ CreateCase(c)
          \/ \E t \in Tasks : CreateTask(t, c)
    \/ \E t \in Tasks : CompleteTask(t)

Spec == Init /\ [][Next]_vars
=============================================================================
