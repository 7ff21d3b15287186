------------------------------- MODULE Archive -------------------------------
(***************************************************************************)
(* Archiving and restoring one client and the cases of that client         *)
(* (clients/services/archive.py), with what runs beside it: the edit form  *)
(* of the client, the creation of a case, and the staff tasks that the     *)
(* archive suspends.                                                       *)
(*                                                                         *)
(* A transaction writes nothing before its commit: what it has decided so  *)
(* far is kept in its record, next to the row locks it holds.  A lock is   *)
(* SELECT ... FOR UPDATE.  The foreign keys are deferred, so a row that    *)
(* names the client or a case waits at its commit for whoever locks it.    *)
(***************************************************************************)
EXTENDS Naturals, FiniteSets

CONSTANTS
    NumCases,     \* case ids; the client starts with the first of them
    NumTasks,     \* task ids
    Clerks,       \* the requests that run at the same time
    MaxArchives   \* bound: batches of a case, and of the client

ASSUME ArchiveAssumption ==
    /\ NumCases \in Nat \ {0}
    /\ NumTasks \in Nat
    /\ MaxArchives \in Nat

VARIABLES
    client,   \* archived_at of the client, the open batch, the batches so far
    cases,    \* the case rows with their batches
    tasks,    \* the staff tasks of the client
    txn,      \* the transaction each clerk's request is in
    late      \* cases that came back while the client was being archived

archiveVars == <<client, cases, tasks, txn, late>>

Cases == 1..NumCases
Tasks == 1..NumTasks

(* Batches are numbered per case and per client; 0 is no batch. *)
Batch == 0..MaxArchives

Client == [archived: BOOLEAN, open: Batch, last: Batch, overwritten: BOOLEAN]

Case == [exists: BOOLEAN, archived: BOOLEAN,
         open: Batch, by: Batch, last: Batch]

Task == [case: Cases \union {0}, open: BOOLEAN, by: Batch]

Op == {"idle", "archive_client", "restore_client", "archive_case",
       "restore_case", "edit_client", "create_case", "auto_task"}

(* One request: what it does, the locks it holds, the cases it still has to *)
(* go through, those it has changed and the tasks it has suspended.         *)
Txn == [op: Op, holdsClient: BOOLEAN, todo: SUBSET Cases, done: SUBSET Cases,
        suspends: SUBSET Tasks]

NoTxn == [op |-> "idle", holdsClient |-> FALSE, todo |-> {}, done |-> {},
          suspends |-> {}]

ArchiveTypeOK ==
    /\ client \in Client
    /\ cases \in [Cases -> Case]
    /\ tasks \in [Tasks -> Task]
    /\ txn \in [Clerks -> Txn]
    /\ late \in SUBSET Cases

(* create_auto_task locks the client first and names its case only at the   *)
(* commit; every other operation on a case has the case locked in "done".   *)
HoldsCase(w, c) == c \in txn[w].done /\ txn[w].op \notin {"auto_task", "create_case"}

ClientFree(w) == \A v \in Clerks \ {w} : ~txn[v].holdsClient

\* fault: the case is read without a lock
NoCaseLock(w, c) == TRUE

CaseFree(w, c) == \A v \in Clerks \ {w} : ~HoldsCase(v, c)
TaskFree(w, t) == \A v \in Clerks \ {w} : t \notin txn[v].suspends

ActiveCases == {c \in Cases : cases[c].exists /\ ~cases[c].archived}

(* The cases of a batch are gone through in the order of the rows. *)
First(todo) == CHOOSE c \in todo : \A d \in todo : c <= d

(* The cases archived with the client that are still archived by that batch. *)
CasesOfBatch == {c \in Cases : cases[c].open # 0 /\ cases[c].by = client.open}

(* What archive_case's UPDATE matches: the open tasks not yet suspended. *)
Suspendable(c) ==
    {t \in Tasks : tasks[t].case = c /\ tasks[t].open /\ tasks[t].by = 0}

(* The case rows and tasks after a transaction that archives "done". *)
Archived(done, clientBatch) ==
    [c \in Cases |->
        IF c \in done
        THEN [cases[c] EXCEPT !.archived = TRUE, !.open = cases[c].last + 1,
                              !.last = cases[c].last + 1, !.by = clientBatch]
        ELSE cases[c]]

Suspended(suspends) ==
    [t \in Tasks |->
        IF t \in suspends
        THEN [tasks[t] EXCEPT !.by = cases[tasks[t].case].last + 1]
        ELSE tasks[t]]

(* The case rows and tasks after a transaction that restores "done". *)
Restored(done) ==
    [c \in Cases |->
        IF c \in done
        THEN [cases[c] EXCEPT !.archived = FALSE, !.open = 0, !.by = 0]
        ELSE cases[c]]

\* fault: the tasks of a restored case are left suspended
ResumedNone(done) == tasks

Resumed(done) ==
    [t \in Tasks |->
        IF tasks[t].case \in done /\ tasks[t].by # 0
             /\ tasks[t].by = cases[tasks[t].case].open
        THEN [tasks[t] EXCEPT !.by = 0]
        ELSE tasks[t]]

ArchiveInit ==
    /\ client = [archived |-> FALSE, open |-> 0, last |-> 0, overwritten |-> FALSE]
    /\ cases = [c \in Cases |-> [exists |-> c = 1, archived |-> FALSE,
                                 open |-> 0, by |-> 0, last |-> 0]]
    /\ tasks = [t \in Tasks |-> [case |-> 0, open |-> FALSE, by |-> 0]]
    /\ txn = [w \in Clerks |-> NoTxn]
    /\ late = {}

-----------------------------------------------------------------------------
(* The client and all cases *)

(* ClientDeleteView reads the client unarchived; the service locks the row,  *)
(* checks it again and lists the active cases.                               *)
ArchiveClientBegin(w) ==
    /\ txn[w] = NoTxn
    /\ ClientFree(w)
    /\ ~client.archived
    /\ client.open = 0
    /\ client.last < MaxArchives
    /\ txn' = [txn EXCEPT ![w] = [NoTxn EXCEPT !.op = "archive_client",
                                    !.holdsClient = TRUE, !.todo = ActiveCases]]
    /\ UNCHANGED <<client, cases, tasks, late>>

(* archive_case on the next case of the list: a case somebody archived since *)
(* raises, and the whole transaction is rolled back (so is, by the bound,    *)
(* one that has no batch left).                                              *)
ArchiveNext(w) ==
    LET c == First(txn[w].todo) IN
    /\ txn[w].op = "archive_client"
    /\ txn[w].todo # {}
    /\ CaseFree(w, c)
    /\ \A t \in Suspendable(c) : TaskFree(w, t)
    /\ IF cases[c].archived \/ cases[c].last = MaxArchives
       THEN txn' = [txn EXCEPT ![w] = NoTxn]
       ELSE txn' = [txn EXCEPT ![w].todo = @ \ {c}, ![w].done = @ \union {c},
                               ![w].suspends = @ \union Suspendable(c)]
    /\ UNCHANGED <<client, cases, tasks, late>>

ArchiveClientCommit(w) ==
    /\ txn[w].op = "archive_client"
    /\ txn[w].todo = {}
    /\ client' = [client EXCEPT !.archived = TRUE, !.open = client.last + 1,
                                !.last = client.last + 1]
    /\ cases' = Archived(txn[w].done, client.last + 1)
    /\ tasks' = Suspended(txn[w].suspends)
    /\ late' = late \union (ActiveCases \ txn[w].done)
    /\ txn' = [txn EXCEPT ![w] = NoTxn]

(* restore_client_record with an open batch: the cases of the batch that are *)
(* still archived under it.                                                  *)
RestoreClientBegin(w) ==
    /\ txn[w] = NoTxn
    /\ ClientFree(w)
    /\ client.archived
    /\ client.open # 0
    /\ txn' = [txn EXCEPT ![w] = [NoTxn EXCEPT !.op = "restore_client",
                                    !.holdsClient = TRUE, !.todo = CasesOfBatch]]
    /\ UNCHANGED <<client, cases, tasks, late>>

RestoreNext(w) ==
    LET c == First(txn[w].todo) IN
    /\ txn[w].op = "restore_client"
    /\ txn[w].todo # {}
    /\ CaseFree(w, c)
    /\ IF c \in CasesOfBatch
       THEN txn' = [txn EXCEPT ![w].todo = @ \ {c}, ![w].done = @ \union {c}]
       ELSE txn' = [txn EXCEPT ![w] = NoTxn]
    /\ UNCHANGED <<client, cases, tasks, late>>

RestoreClientCommit(w) ==
    /\ txn[w].op = "restore_client"
    /\ txn[w].todo = {}
    /\ client' = [client EXCEPT !.archived = FALSE, !.open = 0]
    /\ cases' = Restored(txn[w].done)
    /\ tasks' = Resumed(txn[w].done)
    /\ late' = {}
    /\ txn' = [txn EXCEPT ![w] = NoTxn]

-----------------------------------------------------------------------------
(* One case *)

ArchiveCaseBegin(w, c) ==
    /\ txn[w] = NoTxn
    /\ c \in ActiveCases
    /\ CaseFree(w, c)
    /\ ~client.archived
    /\ cases[c].last < MaxArchives
    /\ \A t \in Suspendable(c) : TaskFree(w, t)
    /\ txn' = [txn EXCEPT ![w] = [NoTxn EXCEPT !.op = "archive_case",
                                    !.done = {c}, !.suspends = Suspendable(c)]]
    /\ UNCHANGED <<client, cases, tasks, late>>

(* The history row names the client, so the commit waits for its lock. *)
ArchiveCaseCommit(w) ==
    /\ txn[w].op = "archive_case"
    /\ ClientFree(w)
    /\ cases' = Archived(txn[w].done, 0)
    /\ tasks' = Suspended(txn[w].suspends)
    /\ late' = late \ txn[w].done
    /\ txn' = [txn EXCEPT ![w] = NoTxn]
    /\ UNCHANGED client

(* The client must not be archived at the check; it may be at the commit. *)
RestoreCaseBegin(w, c) ==
    /\ txn[w] = NoTxn
    /\ CaseFree(w, c)
    /\ cases[c].archived
    /\ cases[c].open # 0
    /\ ~client.archived
    /\ txn' = [txn EXCEPT ![w] = [NoTxn EXCEPT !.op = "restore_case", !.done = {c}]]
    /\ UNCHANGED <<client, cases, tasks, late>>

\* fault: the restore waits until the client is active again
RestoreCaseCommitChecked(w) ==
    /\ txn[w].op = "restore_case"
    /\ ClientFree(w)
    /\ ~client.archived
    /\ cases' = Restored(txn[w].done)
    /\ tasks' = Resumed(txn[w].done)
    /\ txn' = [txn EXCEPT ![w] = NoTxn]
    /\ UNCHANGED <<client, late>>

RestoreCaseCommit(w) ==
    /\ txn[w].op = "restore_case"
    /\ ClientFree(w)
    /\ cases' = Restored(txn[w].done)
    /\ tasks' = Resumed(txn[w].done)
    /\ late' = IF client.archived THEN late \union txn[w].done ELSE late
    /\ txn' = [txn EXCEPT ![w] = NoTxn]
    /\ UNCHANGED client

(* CaseCreateView: the client is looked up among the active ones, the case *)
(* is inserted, and the commit waits for the client's lock.                *)
CreateCaseBegin(w, c) ==
    /\ txn[w] = NoTxn
    /\ ~client.archived
    /\ ~cases[c].exists
    /\ \A v \in Clerks : txn[v].op = "create_case" => c \notin txn[v].done
    /\ txn' = [txn EXCEPT ![w] = [NoTxn EXCEPT !.op = "create_case", !.done = {c}]]
    /\ UNCHANGED <<client, cases, tasks, late>>

\* fault: the commit does not wait for the client's lock
CreateCaseUnchecked(w) ==
    /\ txn[w].op = "create_case"
    /\ cases' = [c \in Cases |-> IF c \in txn[w].done
                                 THEN [cases[c] EXCEPT !.exists = TRUE]
                                 ELSE cases[c]]
    /\ late' = IF client.archived THEN late \union txn[w].done ELSE late
    /\ txn' = [txn EXCEPT ![w] = NoTxn]
    /\ UNCHANGED <<client, tasks>>

CreateCaseCommit(w) ==
    /\ txn[w].op = "create_case"
    /\ ClientFree(w)
    /\ cases' = [c \in Cases |-> IF c \in txn[w].done
                                 THEN [cases[c] EXCEPT !.exists = TRUE]
                                 ELSE cases[c]]
    /\ late' = IF client.archived THEN late \union txn[w].done ELSE late
    /\ txn' = [txn EXCEPT ![w] = NoTxn]
    /\ UNCHANGED <<client, tasks>>

-----------------------------------------------------------------------------
(* The edit form of the client, and the tasks *)

(* ClientUpdateView looks the row up among the active clients ... *)
EditClientRead(w) ==
    /\ txn[w] = NoTxn
    /\ ~client.archived
    /\ txn' = [txn EXCEPT ![w] = [NoTxn EXCEPT !.op = "edit_client"]]
    /\ UNCHANGED <<client, cases, tasks, late>>

(* ... and form.save() writes every column back as read, the empty *)
(* archived_at too.                                                *)
EditClientSave(w) ==
    /\ txn[w].op = "edit_client"
    /\ ClientFree(w)
    /\ client' = [client EXCEPT !.archived = FALSE,
                                !.overwritten = @ \/ client.archived]
    /\ txn' = [txn EXCEPT ![w] = NoTxn]
    /\ UNCHANGED <<cases, tasks, late>>

(* create_auto_task: no second open task of the kind for the case.  The flag *)
(* it tests is the one of the client its caller read, before the lock: both  *)
(* the client and the case may be archived by now.                           *)
AutoTaskBegin(w, c) ==
    /\ txn[w] = NoTxn
    /\ cases[c].exists
    /\ ClientFree(w)
    /\ \A t \in Tasks : ~(tasks[t].case = c /\ tasks[t].open)
    /\ \E t \in Tasks : tasks[t].case = 0
    /\ txn' = [txn EXCEPT ![w] = [NoTxn EXCEPT !.op = "auto_task",
                                    !.holdsClient = TRUE, !.done = {c}]]
    /\ UNCHANGED <<client, cases, tasks, late>>

AutoTaskCommit(w) ==
    /\ txn[w].op = "auto_task"
    /\ \A c \in txn[w].done : CaseFree(w, c)
    /\ \E t \in {u \in Tasks : tasks[u].case = 0} :
         tasks' = [tasks EXCEPT ![t] = [case |-> First(txn[w].done),
                                        open |-> TRUE, by |-> 0]]
    /\ txn' = [txn EXCEPT ![w] = NoTxn]
    /\ UNCHANGED <<client, cases, late>>

(* complete_task_for_client, close_auto_task: the status only; the row of a *)
(* suspended task keeps its batch.                                          *)
CompleteTask(t) ==
    /\ tasks[t].open
    /\ \A v \in Clerks : t \notin txn[v].suspends
    /\ tasks' = [tasks EXCEPT ![t].open = FALSE]
    /\ UNCHANGED <<client, cases, txn, late>>

-----------------------------------------------------------------------------
(* Who waits for whose lock: for the client at a commit, or for a case *)
WaitsFor(w, v) ==
    /\ w # v
    /\ \/ /\ txn[w].op \in {"archive_case", "restore_case", "create_case", "edit_client"}
          /\ txn[v].holdsClient
       \/ /\ txn[w].op \in {"archive_client", "restore_client"}
          /\ txn[w].todo # {}
          /\ HoldsCase(v, First(txn[w].todo))
       \/ /\ txn[w].op = "auto_task"
          /\ \E c \in txn[w].done : HoldsCase(v, c)

(* The database ends a deadlock by rolling one of the two back. *)
DeadlockVictim(w) ==
    /\ \E v \in Clerks : WaitsFor(w, v) /\ WaitsFor(v, w)
    /\ txn' = [txn EXCEPT ![w] = NoTxn]
    /\ UNCHANGED <<client, cases, tasks, late>>

Continue(w) ==
    \/ ArchiveNext(w)
    \/ ArchiveClientCommit(w)
    \/ RestoreNext(w)
    \/ RestoreClientCommit(w)
    \/ ArchiveCaseCommit(w)
    \/ RestoreCaseCommit(w)
    \/ CreateCaseCommit(w)
    \/ EditClientSave(w)
    \/ AutoTaskCommit(w)
    \/ DeadlockVictim(w)

ArchiveNextStep ==
    \/ \E w \in Clerks : Continue(w)
    \/ \E w \in Clerks :
          \/ ArchiveClientBegin(w)
          \/ RestoreClientBegin(w)
          \/ EditClientRead(w)
          \/ \E c \in Cases :
                \/ ArchiveCaseBegin(w, c)
                \/ RestoreCaseBegin(w, c)
                \/ CreateCaseBegin(w, c)
                \/ AutoTaskBegin(w, c)
    \/ \E t \in Tasks : CompleteTask(t)

ArchiveSpec == ArchiveInit /\ [][ArchiveNextStep]_archiveVars

-----------------------------------------------------------------------------
(* A case is archived exactly while it has an open batch, and a task is      *)
(* suspended by the open batch of its own case only, so that the restore     *)
(* finds it again.  The client's flag and open batch agree too, unless a     *)
(* stale edit form has overwritten the flag; and a case is active under an   *)
(* archived client only when it came back during the archiving               *)
(* (services/archive.py:29-248).                                             *)
FlagsMatchBatches ==
    /\ \A c \in Cases : cases[c].archived <=> cases[c].open # 0
    /\ \A t \in Tasks : tasks[t].by # 0 => tasks[t].by = cases[tasks[t].case].open
    /\ client.overwritten \/ (client.archived <=> client.open # 0)
    /\ client.archived => ActiveCases \subseteq late

(* A restore of the client gives back exactly the cases archived with it: a  *)
(* case archived by itself before stays archived, and no task of such a case *)
(* is resumed (services/archive.py:221-229).                                 *)
RestoreGivesBackTheBatch ==
    [][client.open # 0 /\ client'.open = 0 =>
         /\ \A c \in Cases : cases[c].archived =>
              (cases'[c].archived <=> cases[c].by # client.open)
         /\ \A t \in Tasks : tasks[t].by # 0 =>
              (tasks'[t].by # 0 <=> cases[tasks[t].case].by # client.open)]_archiveVars

(* Every request comes to an end, its clerk is idle again and again: the     *)
(* locks are taken in two orders (the client before its cases, a case before *)
(* its client), and whoever waits gets the lock or is rolled back            *)
(* (services/archive.py:38, 159, 73).                                        *)
ArchiveRequestsEnd == \A w \in Clerks : []<>(txn[w] = NoTxn)

-----------------------------------------------------------------------------
(* Where a case is, as the office sees it: a case archived by itself comes   *)
(* back by itself, one archived with the client with the client.             *)
PlaceOf(c) ==
    IF ~cases[c].exists THEN "nowhere"
    ELSE IF ~cases[c].archived THEN "active"
    ELSE IF cases[c].by # 0 THEN "together" ELSE "alone"

AtOnce == INSTANCE AtomicArchive WITH
    hidden <- client.archived,
    away <- client.open # 0,
    place <- [c \in Cases |-> PlaceOf(c)],
    concerns <- [t \in Tasks |-> tasks[t].case],
    open <- {t \in Tasks : tasks[t].open},
    asleep <- {t \in Tasks : tasks[t].by # 0}

(* Every request takes effect as a whole at its commit and not otherwise:    *)
(* the client goes with every case that is active at that moment, although   *)
(* the list was made before; what a restore gives back, what is suspended    *)
(* and that a case has one open task still hold there too, although they     *)
(* were read before (services/archive.py:29-248, services/tasks.py:12-110).  *)
ImplementsAtomicArchive == AtOnce!Spec

=============================================================================
